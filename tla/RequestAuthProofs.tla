------------------------- MODULE RequestAuthProofs -------------------------
(***************************************************************************)
(* Theorems about RequestAuth, for every set of accounts, keys and         *)
(* requests, every TTL and every bound, and about the client that makes    *)
(* the requests: what it installs, when it renews and how it signs         *)
(* (AcmeCli and Jws).                                                      *)
(*                                                                         *)
(* The inductive invariant AuthInv says where the locals of a suspended    *)
(* handler point (Located), that a nonce is either in the bucket or has    *)
(* been used (Spent), and how old a key can be that a cache entry or a     *)
(* cache fill under way still holds although it has been retired (Held).   *)
(* Of the client, CliInv ties the files to the step of the command that is *)
(* running, TimerInv and CalendarInv count hours and days, and JwsInv says *)
(* that the encodings around a signature undo each other.                  *)
(***************************************************************************)
EXTENDS RequestAuth, AcmeCli, SequenceTheorems, TLAPS

Located ==
  /\ \A a \in Accounts : row[a].status # "none" => row[a].key \in Keys
  /\ \A r \in Reqs :
       /\ req[r].pc \in {"keyed", "filling", "evicting"} => req[r].account \in Accounts
       /\ req[r].account # Null => row[req[r].account].status # "none"
       /\ req[r].pc = "filling" => req[r].spki \in Keys
       /\ req[r].pc = "checked" => req[r].new_key \in Keys

Spent == \A r \in Reqs : req[r].nonce \notin nonces /\ req[r].nonce <= lastNonce

Held ==
  /\ \A a \in Accounts : cache[a].key \in Keys =>
       /\ cache[a].at <= now
       /\ Current(cache[a].key) \/ cache[a].at <= retired[cache[a].key] + 1
  /\ \A r \in Reqs : req[r].pc = "filling" =>
       /\ req[r].read_at <= now /\ now <= req[r].read_at + 1
       /\ Current(req[r].spki) \/ req[r].read_at <= retired[req[r].spki]

AuthInv == TypeOK /\ Located /\ Spent /\ NonceOnce /\ OneAccountPerKey /\ Held

-----------------------------------------------------------------------------
(* What the steps do to a request, to the rows and to the history.         *)

LEMMA ReturnFacts ==
  ASSUME TypeOK, NEW r \in Reqs, req' = Return(r)
  PROVE  /\ req' \in [Reqs -> Request]
         /\ \A s \in Reqs : s # r => req'[s] = req[s]
         /\ req'[r].pc = "done" /\ req'[r].account = Null /\ req'[r].nonce = req[r].nonce
<1> DEFINE q == [Unsent EXCEPT !.pc = "done", !.nonce = req[r].nonce]
<1>1. Unsent \in Request /\ Unsent.account = Null
  BY AuthAssumption DEF Unsent, Request
<1>2. req[r].nonce \in 0 .. MaxNonce
  BY DEF Request, TypeOK
<1>3. q \in Request /\ q.pc = "done" /\ q.nonce = req[r].nonce /\ q.account = Null
  BY <1>1, <1>2 DEF Request
<1>4. req' = [req EXCEPT ![r] = q]
  BY DEF Return
<1> HIDE DEF q
<1>5. QED
  BY <1>3, <1>4 DEF TypeOK

LEMMA GotoFacts ==
  ASSUME TypeOK, NEW r \in Reqs, NEW p \in {"evicting"}, Goto(r, p)
  PROVE  /\ req' \in [Reqs -> Request]
         /\ \A s \in Reqs : s # r => req'[s] = req[s]
         /\ req'[r].pc = p /\ req'[r].account = req[r].account /\ req'[r].nonce = req[r].nonce
  BY AuthAssumption DEF Goto, Request, TypeOK

LEMMA VerifyFacts ==
  ASSUME TypeOK, NEW r \in Reqs, NEW k \in Keys, Verify(r, k)
  PROVE  /\ req' \in [Reqs -> Request]
         /\ \A s \in Reqs : s # r => req'[s] = req[s]
         /\ req'[r].nonce = req[r].nonce
         /\ \/ req'[r].pc = "done" /\ req'[r].account = Null
            \/ req'[r].pc = "authed" /\ req'[r].account = req[r].account /\ req'[r].spki = k
<1>1. CASE req' = Return(r)
  BY <1>1, ReturnFacts
<1>2. CASE req' = [req EXCEPT ![r].pc = "authed", ![r].spki = k, ![r].read_at = 0]
  <2> DEFINE q == [req[r] EXCEPT !.pc = "authed", !.spki = k, !.read_at = 0]
  <2>1. req[r] \in Request
    BY DEF TypeOK
  <2>2. /\ q \in Request /\ q.pc = "authed" /\ q.spki = k
        /\ q.account = req[r].account /\ q.nonce = req[r].nonce
    <3>1. 0 \in 0 .. MaxTime
      BY AuthAssumption
    <3>2. PICK v \in Request : v = req[r]
      BY <2>1
    <3>3. /\ [v EXCEPT !.pc = "authed", !.spki = k, !.read_at = 0] \in Request
          /\ [v EXCEPT !.pc = "authed", !.spki = k, !.read_at = 0].account = v.account
          /\ [v EXCEPT !.pc = "authed", !.spki = k, !.read_at = 0].nonce = v.nonce
      BY <3>1 DEF Request
    <3>4. QED
      BY <3>2, <3>3 DEF Request
  <2>3. req' = [req EXCEPT ![r] = q]
    BY <1>2, <2>1 DEF TypeOK
  <2> HIDE DEF q
  <2>4. QED
    BY <2>2, <2>3 DEF TypeOK
<1>3. QED
  BY <1>1, <1>2 DEF Verify

-----------------------------------------------------------------------------
LEMMA AuthInvInit == Init => AuthInv
<1> SUFFICES ASSUME Init PROVE AuthInv
  OBVIOUS
<1>1. TypeOK
  BY AuthAssumption DEF Init, TypeOK, Row, Entry, NoEntry, Request, Unsent
<1>2. Located
  BY AuthAssumption DEF Init, Located, Unsent
<1>3. Spent /\ NonceOnce
  BY DEF Init, Spent, NonceOnce, Unsent
<1>4. OneAccountPerKey
  BY AuthAssumption DEF Init, OneAccountPerKey
<1>5. Held
  BY AuthAssumption DEF Init, Held, NoEntry, Unsent
<1>6. QED
  BY <1>1, <1>2, <1>3, <1>4, <1>5 DEF AuthInv

-----------------------------------------------------------------------------
(* How each part of the invariant survives a step of one request.          *)

LEMMA LocatedStep ==
  ASSUME TypeOK, Located, NEW r \in Reqs,
         \A s \in Reqs : s # r => req'[s] = req[s],
         \A a \in Accounts : row[a].status # "none" => row'[a].status # "none",
         \A a \in Accounts : row'[a].status # "none" => row'[a].key \in Keys,
         req'[r].pc \in {"keyed", "filling", "evicting"} => req'[r].account \in Accounts,
         req'[r].account # Null => req'[r].account \in Accounts /\ row'[req'[r].account].status # "none",
         req'[r].pc = "filling" => req'[r].spki \in Keys,
         req'[r].pc = "checked" => req'[r].new_key \in Keys
  PROVE  Located'
<1>1. \A s \in Reqs : req[s].account \in Accounts \cup {Null}
  BY DEF TypeOK, Request
<1>2. QED
  BY <1>1 DEF Located

LEMMA SpentStep ==
  ASSUME TypeOK, Spent, NonceOnce, NEW r \in Reqs,
         \A s \in Reqs : s # r => req'[s] = req[s],
         req'[r].nonce \in {req[r].nonce, 0}, UNCHANGED <<nonces, lastNonce>>
  PROVE  Spent' /\ NonceOnce'
<1>1. 0 \notin nonces /\ 0 <= lastNonce
  BY DEF TypeOK
<1>2. QED
  BY <1>1 DEF Spent, NonceOnce

LEMMA HeldKeeps ==
  ASSUME Held, UNCHANGED <<now, row, cache, retired>>,
         \A s \in Reqs : req'[s].pc = "filling" => req'[s] = req[s]
  PROVE  Held'
  BY DEF Held, Current

LEMMA HeldRetires ==
  ASSUME TypeOK, Located, Held, Retire, UNCHANGED <<now, cache>>,
         \A s \in Reqs : req'[s].pc = "filling" => req'[s] = req[s]
  PROVE  Held'
<1>1. \A k \in Keys : \/ Current(k)'
                      \/ Current(k) /\ retired'[k] = now
                      \/ ~ Current(k) /\ retired'[k] = retired[k]
  BY DEF Retire
<1>2. now \in Nat /\ \A a \in Accounts : cache[a].at \in Nat
  BY DEF TypeOK, Entry
<1>3. ASSUME NEW a \in Accounts, cache[a].key \in Keys
      PROVE  cache[a].at <= now /\ (Current(cache[a].key) \/ cache[a].at <= retired[cache[a].key] + 1)'
  <2>1. PICK k \in Keys : k = cache[a].key
    BY <1>3
  <2>2. cache[a].at <= now /\ (Current(k) \/ cache[a].at <= retired[k] + 1)
    BY <2>1 DEF Held
  <2>3. Current(k)' \/ cache[a].at <= retired'[k] + 1
    BY <1>1, <1>2, <2>2
  <2>4. QED
    BY <2>1, <2>2, <2>3 DEF Current
<1>4. ASSUME NEW s \in Reqs, req'[s].pc = "filling"
      PROVE  (/\ req[s].read_at <= now /\ now <= req[s].read_at + 1
              /\ Current(req[s].spki) \/ req[s].read_at <= retired[req[s].spki])'
  <2>1. req'[s] = req[s] /\ req[s].spki \in Keys
    BY <1>4 DEF Located
  <2>2. PICK k \in Keys : k = req[s].spki
    BY <2>1
  <2>3. /\ req[s].read_at <= now /\ now <= req[s].read_at + 1
        /\ Current(k) \/ req[s].read_at <= retired[k]
    BY <1>4, <2>1, <2>2 DEF Held
  <2>4. Current(k)' \/ req[s].read_at <= retired'[k]
    BY <1>1, <2>3
  <2>5. QED
    BY <2>1, <2>2, <2>3, <2>4 DEF Current
<1>5. QED
  BY <1>3, <1>4 DEF Held

(* Handlers that write a row: who holds the account changes, and the rest  *)
(* of the invariant with it.                                               *)
LEMMA RowStep ==
  ASSUME AuthInv, NEW r \in Reqs, NEW a \in Accounts, NEW st \in {"valid", "deactivated"}, NEW k \in Keys,
         row' = [row EXCEPT ![a] = [status |-> st, key |-> k]],
         (row[a].status # "none" /\ k = row[a].key) \/ ~ KeyTaken(a, k),
         Retire, UNCHANGED <<now, cache, nonces, lastNonce, restarts>>,
         req' \in [Reqs -> Request], \A s \in Reqs : s # r => req'[s] = req[s],
         req'[r].nonce \in {req[r].nonce, 0}, req'[r].pc \in {"evicting", "done"},
         req'[r].pc = "evicting" => req'[r].account = a,
         req'[r].account \in {a, Null}
  PROVE  AuthInv'
<1>0. TypeOK /\ Located /\ Spent /\ NonceOnce /\ OneAccountPerKey /\ Held
  BY DEF AuthInv
<1>1. row' \in [Accounts -> Row]
  BY <1>0 DEF TypeOK, Row
<1>2. retired' \in [Keys -> 0 .. MaxTime]
  BY <1>0 DEF TypeOK, Retire
<1>3. TypeOK'
  BY <1>0, <1>1, <1>2 DEF TypeOK
<1>4. /\ \A b \in Accounts : b # a => row'[b] = row[b]
      /\ row'[a].status = st /\ row'[a].key = k
  BY <1>0 DEF TypeOK
<1>5. /\ \A b \in Accounts : row[b].status # "none" => row'[b].status # "none"
      /\ \A b \in Accounts : row'[b].status # "none" => row'[b].key \in Keys
  BY <1>0, <1>4 DEF Located
<1>6. Located'
  BY <1>0, <1>4, <1>5, LocatedStep
<1>7. Spent' /\ NonceOnce'
  BY <1>0, SpentStep
<1>8. \A b \in Accounts : b # a /\ row[b].status # "none" => row[b].key # k
  BY <1>0 DEF OneAccountPerKey, KeyTaken
<1>9. OneAccountPerKey'
  BY <1>0, <1>4, <1>8 DEF OneAccountPerKey
<1>10. \A s \in Reqs : req'[s].pc = "filling" => req'[s] = req[s]
  OBVIOUS
<1>11. Held'
  BY <1>0, <1>10, HeldRetires
<1>12. QED
  BY <1>3, <1>6, <1>7, <1>9, <1>11 DEF AuthInv

(* Handlers that write no row. *)
LEMMA QuietStep ==
  ASSUME AuthInv, NEW r \in Reqs,
         UNCHANGED <<now, row, cache, nonces, lastNonce, restarts, retired>>,
         req' \in [Reqs -> Request], \A s \in Reqs : s # r => req'[s] = req[s],
         req'[r].nonce = req[r].nonce, req'[r].account \in {req[r].account, Null},
         \/ req'[r].pc = "done"
         \/ req'[r].pc = "authed" /\ req'[r].spki \in Keys
         \/ req'[r].pc = "checked" /\ req'[r].new_key \in Keys
         \/ req'[r].pc = "evicting" /\ req'[r].account \in Accounts
  PROVE  AuthInv'
<1>0. TypeOK /\ Located /\ Spent /\ NonceOnce /\ OneAccountPerKey /\ Held
  BY DEF AuthInv
<1>1. TypeOK'
  BY <1>0 DEF TypeOK
<1>2. req[r].account \in Accounts \cup {Null}
  BY <1>0 DEF TypeOK, Request
<1>3. /\ req'[r].pc \in {"keyed", "filling", "evicting"} => req'[r].account \in Accounts
      /\ req'[r].account # Null => req'[r].account \in Accounts /\ row'[req'[r].account].status # "none"
      /\ req'[r].pc = "filling" => req'[r].spki \in Keys
      /\ req'[r].pc = "checked" => req'[r].new_key \in Keys
  BY <1>0, <1>2 DEF Located
<1>4. /\ \A a \in Accounts : row[a].status # "none" => row'[a].status # "none"
      /\ \A a \in Accounts : row'[a].status # "none" => row'[a].key \in Keys
  BY <1>0 DEF Located
<1>5. Located'
  BY <1>0, <1>3, <1>4, LocatedStep
<1>6. Spent' /\ NonceOnce'
  BY <1>0, SpentStep
<1>7. OneAccountPerKey'
  BY <1>0 DEF OneAccountPerKey
<1>8. \A s \in Reqs : req'[s].pc = "filling" => req'[s] = req[s]
  OBVIOUS
<1>9. Held'
  BY <1>0, <1>8, HeldKeeps
<1>10. QED
  BY <1>1, <1>5, <1>6, <1>7, <1>9 DEF AuthInv

(* An arriving request: its nonce leaves the bucket for good. *)
LEMMA ArriveStep ==
  ASSUME AuthInv, NEW r \in Reqs, NEW n \in 1 .. lastNonce, NEW q \in Request, Arrive(r, n, q),
         q.account # Null => q.account \in Accounts /\ row[q.account].status # "none",
         \/ q.pc = "keyed" /\ q.account \in Accounts
         \/ q.pc = "authed" /\ q.spki \in Keys
  PROVE  AuthInv'
<1>0. /\ TypeOK /\ Located /\ Spent /\ NonceOnce /\ OneAccountPerKey /\ Held
      /\ UNCHANGED <<now, row, cache, restarts, retired>>
  BY DEF AuthInv, Arrive
<1>1. /\ lastNonce \in Nat /\ lastNonce' = lastNonce + 1 /\ lastNonce' \in 0 .. MaxNonce
      /\ nonces' = (nonces \ {n}) \cup {lastNonce + 1} /\ nonces \subseteq 1 .. lastNonce
      /\ n \in 0 .. MaxNonce
  BY <1>0, AuthAssumption DEF Arrive, ConsumeAndInsert, TypeOK
<1>2. PICK p \in Request :
        /\ req' = [req EXCEPT ![r] = p]
        /\ \/ n \in nonces /\ p.nonce = n /\ p.pc = q.pc /\ p.account = q.account /\ p.spki = q.spki
           \/ p.nonce = 0 /\ p.pc = "bad_nonce" /\ p.account = Null
  <2>1. CASE n \in nonces
    <3>1. req' = [req EXCEPT ![r] = [q EXCEPT !.nonce = n]]
      BY <2>1 DEF Arrive
    <3>2. /\ [q EXCEPT !.nonce = n] \in Request /\ [q EXCEPT !.nonce = n].nonce = n
          /\ [q EXCEPT !.nonce = n].pc = q.pc /\ [q EXCEPT !.nonce = n].account = q.account
          /\ [q EXCEPT !.nonce = n].spki = q.spki
      BY <1>1 DEF Request
    <3>3. QED
      BY <2>1, <3>1, <3>2
  <2>2. CASE n \notin nonces
    <3>1. req' = [req EXCEPT ![r] = [Unsent EXCEPT !.pc = "bad_nonce"]]
      BY <2>2 DEF Arrive
    <3>2. /\ [Unsent EXCEPT !.pc = "bad_nonce"] \in Request
          /\ [Unsent EXCEPT !.pc = "bad_nonce"].nonce = 0
          /\ [Unsent EXCEPT !.pc = "bad_nonce"].pc = "bad_nonce"
          /\ [Unsent EXCEPT !.pc = "bad_nonce"].account = Null
      BY AuthAssumption DEF Request, Unsent
    <3>3. QED
      BY <3>1, <3>2
  <2>3. QED
    BY <2>1, <2>2
<1>3. req' \in [Reqs -> Request] /\ req'[r] = p /\ \A s \in Reqs : s # r => req'[s] = req[s]
  BY <1>0, <1>2 DEF TypeOK
<1>4. TypeOK'
  <2>1. nonces' \subseteq 1 .. lastNonce'
    BY <1>1
  <2>2. \A s \in Reqs : req'[s].pc = "authed" => req'[s].spki \in Keys
    BY <1>0, <1>2, <1>3 DEF TypeOK
  <2>3. QED
    BY <1>0, <1>1, <1>3, <2>1, <2>2 DEF TypeOK
<1>5. Located'
  <2>1. /\ \A a \in Accounts : row[a].status # "none" => row'[a].status # "none"
        /\ \A a \in Accounts : row'[a].status # "none" => row'[a].key \in Keys
    BY <1>0 DEF Located
  <2>2. /\ req'[r].pc \in {"keyed", "filling", "evicting"} => req'[r].account \in Accounts
        /\ req'[r].account # Null => req'[r].account \in Accounts /\ row'[req'[r].account].status # "none"
        /\ req'[r].pc # "filling" /\ req'[r].pc # "checked"
    BY <1>0, <1>2, <1>3
  <2>3. QED
    BY <1>0, <1>3, <2>1, <2>2, LocatedStep
<1>6. Spent'
  <2>1. \A s \in Reqs : req[s].nonce \in Nat
    BY <1>0 DEF TypeOK, Request
  <2>2. ASSUME NEW s \in Reqs, s # r PROVE req'[s].nonce \notin nonces' /\ req'[s].nonce <= lastNonce'
    BY <1>0, <1>1, <1>3, <2>1, <2>2 DEF Spent
  <2>3. p.nonce \notin nonces' /\ p.nonce <= lastNonce'
    BY <1>1, <1>2
  <2>4. QED
    BY <1>3, <2>2, <2>3 DEF Spent
<1>7. NonceOnce'
  <2>1. \A s \in Reqs : p.nonce # 0 => req[s].nonce # p.nonce
    BY <1>0, <1>2 DEF Spent
  <2>2. QED
    BY <1>0, <1>3, <2>1 DEF NonceOnce
<1>8. OneAccountPerKey'
  BY <1>0 DEF OneAccountPerKey
<1>9. Held'
  <2>1. \A s \in Reqs : req'[s].pc = "filling" => req'[s] = req[s]
    BY <1>2, <1>3
  <2>2. QED
    BY <1>0, <2>1, HeldKeeps
<1>10. QED
  BY <1>4, <1>5, <1>6, <1>7, <1>8, <1>9 DEF AuthInv

(* The row is read on a cache miss: the key it holds is current now. *)
LEMMA LookupMissStep == ASSUME AuthInv, NEW r \in Reqs, LookupMiss(r) PROVE AuthInv'
<1> DEFINE a == req[r].account
<1>0. /\ TypeOK /\ Located /\ Spent /\ NonceOnce /\ OneAccountPerKey /\ Held
      /\ UNCHANGED <<now, row, cache, nonces, lastNonce, restarts, retired>>
      /\ req[r].pc = "keyed" /\ a \in Accounts /\ row[a].status # "none"
  BY AuthAssumption DEF AuthInv, LookupMiss, Located
<1>1. CASE row[a].status # "valid"
  <2>1. req' = Return(r)
    BY <1>1 DEF LookupMiss
  <2>2. QED
    BY <1>0, <2>1, ReturnFacts, QuietStep
<1>2. CASE row[a].status = "valid"
  <2> DEFINE q == [req[r] EXCEPT !.pc = "filling", !.spki = row[a].key, !.read_at = now]
  <2>1. row[a].key \in Keys /\ now \in 0 .. MaxTime /\ req[r] \in Request /\ now \in Nat
    BY <1>0 DEF Located, TypeOK
  <2>2. PICK v \in Request, k \in Keys, w \in 0 .. MaxTime : v = req[r] /\ k = row[a].key /\ w = now
    BY <2>1
  <2>3. /\ [v EXCEPT !.pc = "filling", !.spki = k, !.read_at = w] \in Request
        /\ [v EXCEPT !.pc = "filling", !.spki = k, !.read_at = w].account = v.account
        /\ [v EXCEPT !.pc = "filling", !.spki = k, !.read_at = w].nonce = v.nonce
    BY DEF Request
  <2>4. req' = [req EXCEPT ![r] = q]
    BY <1>0, <1>2 DEF LookupMiss, TypeOK
  <2>5. /\ q \in Request /\ q.pc = "filling" /\ q.spki = row[a].key /\ q.read_at = now
        /\ q.account = a /\ q.nonce = req[r].nonce
    BY <2>2, <2>3 DEF Request
  <2> HIDE DEF q
  <2>6. req' \in [Reqs -> Request] /\ req'[r] = q /\ \A s \in Reqs : s # r => req'[s] = req[s]
    BY <1>0, <2>4, <2>5 DEF TypeOK
  <2>7. TypeOK'
    BY <1>0, <2>5, <2>6 DEF TypeOK
  <2>8. /\ \A b \in Accounts : row[b].status # "none" => row'[b].status # "none"
        /\ \A b \in Accounts : row'[b].status # "none" => row'[b].key \in Keys
    BY <1>0 DEF Located
  <2>9. /\ req'[r].account \in Accounts /\ row'[req'[r].account].status # "none"
        /\ req'[r].pc = "filling" /\ req'[r].spki \in Keys
    BY <1>0, <2>1, <2>5, <2>6
  <2>10. Located'
    BY <1>0, <2>6, <2>8, <2>9, LocatedStep
  <2>11. Spent' /\ NonceOnce'
    BY <1>0, <2>5, <2>6, SpentStep
  <2>12. OneAccountPerKey'
    BY <1>0 DEF OneAccountPerKey
  <2>13. Held'
    <3>2. \A b \in Accounts : cache'[b].key \in Keys =>
            cache'[b].at <= now' /\ (Current(cache[b].key) \/ cache'[b].at <= retired'[cache'[b].key] + 1)
      BY <1>0 DEF Held
    <3>3. \A s \in Reqs : s # r /\ req'[s].pc = "filling" =>
            /\ req'[s].read_at <= now' /\ now' <= req'[s].read_at + 1
            /\ Current(req[s].spki) \/ req'[s].read_at <= retired'[req'[s].spki]
      BY <1>0, <2>6 DEF Held
    <3>4. Current(q.spki) /\ q.read_at <= now' /\ now' <= q.read_at + 1
      BY <1>0, <1>2, <2>1, <2>5 DEF Current
    <3>5. QED
      BY <1>0, <2>6, <3>2, <3>3, <3>4 DEF Held, Current
  <2>14. QED
    BY <2>7, <2>10, <2>11, <2>12, <2>13 DEF AuthInv
<1>3. QED
  BY <1>1, <1>2

(* The entry a fill leaves is one tick younger than its read at the most. *)
LEMMA FillStep == ASSUME AuthInv, NEW r \in Reqs, Fill(r) PROVE AuthInv'
<1>0. /\ TypeOK /\ Located /\ Spent /\ NonceOnce /\ OneAccountPerKey /\ Held
      /\ UNCHANGED <<now, row, nonces, lastNonce, restarts, retired>>
      /\ req[r].pc = "filling" /\ req[r].account \in Accounts /\ req[r].spki \in Keys
      /\ Verify(r, req[r].spki)
  BY DEF AuthInv, Fill, Located
<1>1. PICK a \in Accounts, k \in Keys : a = req[r].account /\ k = req[r].spki
  BY <1>0
<1>2. /\ cache' = [cache EXCEPT ![a] = [key |-> k, at |-> now]]
      /\ cache' \in [Accounts -> Entry]
      /\ cache'[a].key = k /\ cache'[a].at = now
      /\ \A b \in Accounts : b # a => cache'[b] = cache[b]
  BY <1>0, <1>1 DEF Fill, TypeOK, Entry
<1>3. /\ req' \in [Reqs -> Request]
      /\ \A s \in Reqs : s # r => req'[s] = req[s]
      /\ req'[r].nonce = req[r].nonce
      /\ \/ req'[r].pc = "done" /\ req'[r].account = Null
         \/ req'[r].pc = "authed" /\ req'[r].account = req[r].account /\ req'[r].spki = k
  BY <1>0, <1>1, VerifyFacts
<1>4. TypeOK'
  BY <1>0, <1>2, <1>3 DEF TypeOK
<1>5. /\ \A b \in Accounts : row[b].status # "none" => row'[b].status # "none"
      /\ \A b \in Accounts : row'[b].status # "none" => row'[b].key \in Keys
      /\ req'[r].account # Null => req'[r].account \in Accounts /\ row'[req'[r].account].status # "none"
  BY <1>0, <1>1, <1>3, AuthAssumption DEF Located
<1>6. Located'
  BY <1>0, <1>3, <1>5, LocatedStep
<1>7. Spent' /\ NonceOnce'
  BY <1>0, <1>3, SpentStep
<1>8. OneAccountPerKey'
  BY <1>0 DEF OneAccountPerKey
<1>9. Held'
  <2>1. Current(k) \/ now <= retired[k] + 1
    <3>1. now \in Nat /\ retired[k] \in Nat /\ req[r].read_at \in Nat
      BY <1>0 DEF TypeOK, Request
    <3>2. now <= req[r].read_at + 1 /\ (Current(k) \/ req[r].read_at <= retired[k])
      BY <1>0, <1>1 DEF Held
    <3>3. QED
      BY <3>1, <3>2
  <2>2. now <= now
    BY <1>0 DEF TypeOK
  <2>3. \A s \in Reqs : req'[s].pc = "filling" => s # r /\ req'[s] = req[s]
    BY <1>3
  <2>4. QED
    BY <1>0, <1>2, <2>1, <2>2, <2>3 DEF Held, Current
<1>10. QED
  BY <1>4, <1>6, <1>7, <1>8, <1>9 DEF AuthInv

LEMMA EvictStep == ASSUME AuthInv, NEW r \in Reqs, Evict(r) PROVE AuthInv'
<1>0. /\ TypeOK /\ Located /\ Spent /\ NonceOnce /\ OneAccountPerKey /\ Held
      /\ UNCHANGED <<now, row, nonces, lastNonce, restarts, retired>>
      /\ req[r].account \in Accounts /\ req' = Return(r)
  BY DEF AuthInv, Evict, Located
<1>1. /\ cache' \in [Accounts -> Entry]
      /\ \A b \in Accounts : cache'[b].key \in Keys => cache'[b] = cache[b]
  BY <1>0, AuthAssumption DEF Evict, TypeOK, Entry, NoEntry
<1>2. /\ req' \in [Reqs -> Request]
      /\ \A s \in Reqs : s # r => req'[s] = req[s]
      /\ req'[r].nonce = req[r].nonce /\ req'[r].pc = "done" /\ req'[r].account = Null
  BY <1>0, ReturnFacts
<1>3. TypeOK'
  BY <1>0, <1>1, <1>2 DEF TypeOK
<1>4. /\ \A b \in Accounts : row[b].status # "none" => row'[b].status # "none"
      /\ \A b \in Accounts : row'[b].status # "none" => row'[b].key \in Keys
  BY <1>0 DEF Located
<1>5. Located'
  BY <1>0, <1>2, <1>4, LocatedStep
<1>6. Spent' /\ NonceOnce'
  BY <1>0, <1>2, SpentStep
<1>7. OneAccountPerKey'
  BY <1>0 DEF OneAccountPerKey
<1>8. \A s \in Reqs : req'[s].pc = "filling" => s # r /\ req'[s] = req[s]
  BY <1>2
<1>9. Held'
  BY <1>0, <1>1, <1>8 DEF Held, Current
<1>10. QED
  BY <1>3, <1>5, <1>6, <1>7, <1>9 DEF AuthInv

LEMMA TickStep == ASSUME AuthInv, Tick PROVE AuthInv'
<1>0. /\ TypeOK /\ Located /\ Spent /\ NonceOnce /\ OneAccountPerKey /\ Held
      /\ UNCHANGED <<row, cache, nonces, lastNonce, req, restarts, retired>>
      /\ now' = now + 1 /\ \A r \in Reqs : req[r].pc = "filling" => req[r].read_at = now
  BY DEF AuthInv, Tick
<1>1. TypeOK' /\ now \in Nat
  BY <1>0, AuthAssumption DEF TypeOK, Tick
<1>2. Located' /\ Spent' /\ NonceOnce' /\ OneAccountPerKey'
  BY <1>0 DEF Located, Spent, NonceOnce, OneAccountPerKey
<1>3. \A a \in Accounts : cache[a].at \in Nat /\ (cache[a].at <= now => cache[a].at <= now')
  BY <1>0, <1>1 DEF TypeOK, Entry
<1>4. now <= now' /\ now' <= now + 1
  BY <1>0, <1>1
<1>5. Held'
  BY <1>0, <1>3, <1>4 DEF Held, Current
<1>6. QED
  BY <1>1, <1>2, <1>5 DEF AuthInv

LEMMA RestartStep == ASSUME AuthInv, Restart PROVE AuthInv'
<1>0. /\ TypeOK /\ Located /\ Spent /\ NonceOnce /\ OneAccountPerKey /\ Held
      /\ UNCHANGED <<now, row, lastNonce, retired>> /\ nonces' = {}
  BY DEF AuthInv, Restart
<1>1. ASSUME NEW r \in Reqs
      PROVE  /\ req'[r] \in Request /\ req'[r].nonce = req[r].nonce
             /\ \/ req'[r] = req[r] /\ req[r].pc \in {"unsent", "bad_nonce"}
                \/ req'[r].pc = "done" /\ req'[r].account = Null
  <2>1. CASE req[r].pc \in {"unsent", "bad_nonce"}
    BY <1>0, <2>1 DEF Restart, TypeOK
  <2>2. CASE req[r].pc \notin {"unsent", "bad_nonce"}
    <3> DEFINE q == [Unsent EXCEPT !.pc = "done", !.nonce = req[r].nonce]
    <3>1. Unsent \in Request /\ Unsent.account = Null
      BY AuthAssumption DEF Unsent, Request
    <3>2. req[r].nonce \in 0 .. MaxNonce
      BY <1>0 DEF Request, TypeOK
    <3>3. q \in Request /\ q.pc = "done" /\ q.nonce = req[r].nonce /\ q.account = Null
      BY <3>1, <3>2 DEF Request
    <3>4. req'[r] = q
      BY <1>0, <2>2 DEF Restart, Return, TypeOK
    <3> HIDE DEF q
    <3>5. QED
      BY <3>3, <3>4
  <2>3. QED
    BY <2>1, <2>2
<1>2. req' \in [Reqs -> Request]
  BY <1>1 DEF Restart
<1>3. /\ cache' \in [Accounts -> Entry] /\ restarts' \in 0 .. MaxRestarts
      /\ \A a \in Accounts : cache'[a].key \notin Keys
  BY <1>0, AuthAssumption DEF Restart, TypeOK, Entry, NoEntry
<1>4. TypeOK'
  BY <1>0, <1>1, <1>2, <1>3 DEF TypeOK
<1>5. Located' /\ Spent' /\ NonceOnce' /\ OneAccountPerKey'
  BY <1>0, <1>1 DEF Located, Spent, NonceOnce, OneAccountPerKey
<1>6. Held'
  BY <1>1, <1>3 DEF Held
<1>7. QED
  BY <1>4, <1>5, <1>6 DEF AuthInv

LEMMA NonceStep == ASSUME AuthInv, NewNonce \/ Sweep PROVE AuthInv'
<1>0. /\ TypeOK /\ Located /\ Spent /\ NonceOnce /\ OneAccountPerKey /\ Held
      /\ UNCHANGED <<now, row, cache, req, restarts, retired>>
  BY DEF AuthInv, NewNonce, Sweep
<1>1. Located' /\ NonceOnce' /\ OneAccountPerKey' /\ Held'
  BY <1>0 DEF Located, NonceOnce, OneAccountPerKey, Held, Current
<1>2. CASE NewNonce
  <2>1. /\ lastNonce \in Nat /\ lastNonce' = lastNonce + 1 /\ lastNonce' \in 0 .. MaxNonce
        /\ nonces' = nonces \cup {lastNonce + 1} /\ nonces \subseteq 1 .. lastNonce
    BY <1>0, <1>2, AuthAssumption DEF NewNonce, TypeOK
  <2>2. nonces' \subseteq 1 .. lastNonce'
    BY <2>1
  <2>3. \A r \in Reqs : req[r].nonce \in Nat
    BY <1>0 DEF TypeOK, Request
  <2>4. TypeOK' /\ Spent'
    BY <1>0, <2>1, <2>2, <2>3 DEF TypeOK, Spent
  <2>5. QED
    BY <1>1, <2>4 DEF AuthInv
<1>3. CASE Sweep
  BY <1>0, <1>1, <1>3 DEF Sweep, TypeOK, Spent, AuthInv
<1>4. QED
  BY <1>2, <1>3

(* A handler that writes no row changes no history either. *)
LEMMA NoRetirement == ASSUME TypeOK, Retire, row' = row PROVE retired' = retired
<1>1. \A k \in Keys : Current(k)' <=> Current(k)
  BY DEF Current
<1>2. QED
  BY <1>1 DEF Retire, TypeOK

LEMMA HandlerStep ==
  ASSUME AuthInv, NEW r \in Reqs,
         \/ \E k \in Keys : CheckKey(r, k)
         \/ UpdateKey(r) \/ Deactivate(r)
         \/ \E a \in Accounts : InsertAccount(r, a) \/ AdminDeactivate(r, a)
  PROVE  AuthInv'
<1>0. /\ TypeOK /\ Located /\ req[r] \in Request
      /\ req[r].account \in Accounts \cup {Null}
      /\ req[r].account # Null => req[r].account \in Accounts /\ row[req[r].account].status # "none"
      /\ req[r].pc = "checked" => req[r].new_key \in Keys
  BY DEF AuthInv, TypeOK, Request, Located
<1>1. ASSUME NEW k \in Keys, CheckKey(r, k) PROVE AuthInv'
  <2>1. CASE KeyTaken(Null, k)
    <3>1. req' = Return(r) /\ UNCHANGED <<now, row, cache, nonces, lastNonce, restarts, retired>>
      BY <1>1, <2>1 DEF CheckKey
    <3>2. QED
      BY <1>0, <3>1, ReturnFacts, QuietStep
  <2>2. CASE ~ KeyTaken(Null, k)
    <3> DEFINE q == [req[r] EXCEPT !.pc = "checked", !.new_key = k]
    <3>1. /\ req' = [req EXCEPT ![r].pc = "checked", ![r].new_key = k]
          /\ UNCHANGED <<now, row, cache, nonces, lastNonce, restarts, retired>>
      BY <1>1, <2>2 DEF CheckKey
    <3>2. PICK v \in Request : v = req[r]
      BY <1>0
    <3>3. /\ [v EXCEPT !.pc = "checked", !.new_key = k] \in Request
          /\ [v EXCEPT !.pc = "checked", !.new_key = k].account = v.account
          /\ [v EXCEPT !.pc = "checked", !.new_key = k].nonce = v.nonce
      BY DEF Request
    <3>4. /\ q \in Request /\ q.pc = "checked" /\ q.new_key = k
          /\ q.account = req[r].account /\ q.nonce = req[r].nonce
      BY <3>2, <3>3 DEF Request
    <3>5. req' = [req EXCEPT ![r] = q]
      BY <1>0, <3>1 DEF TypeOK
    <3> HIDE DEF q
    <3>6. req' \in [Reqs -> Request] /\ req'[r] = q /\ \A s \in Reqs : s # r => req'[s] = req[s]
      BY <1>0, <3>4, <3>5 DEF TypeOK
    <3>7. QED
      BY <3>1, <3>4, <3>6, QuietStep
  <2>3. QED
    BY <2>1, <2>2
<1>2. ASSUME NEW a \in Accounts, InsertAccount(r, a) PROVE AuthInv'
  <2>1. /\ req' = Return(r) /\ Retire /\ UNCHANGED <<now, cache, nonces, lastNonce, restarts>>
        /\ req[r].new_key \in Keys
    BY <1>0, <1>2 DEF InsertAccount
  <2>2. CASE KeyTaken(a, req[r].new_key)
    <3>1. row' = row /\ retired' = retired
      BY <1>0, <1>2, <2>1, <2>2, NoRetirement DEF InsertAccount
    <3>2. QED
      BY <1>0, <2>1, <3>1, ReturnFacts, QuietStep
  <2>3. CASE ~ KeyTaken(a, req[r].new_key)
    <3>1. row' = [row EXCEPT ![a] = [status |-> "valid", key |-> req[r].new_key]]
      BY <1>2, <2>3 DEF InsertAccount
    <3>2. QED
      BY <1>0, <2>1, <2>3, <3>1, ReturnFacts, RowStep
  <2>4. QED
    BY <2>2, <2>3
<1>3. ASSUME UpdateKey(r) PROVE AuthInv'
  <2>1. PICK a \in Accounts : a = req[r].account
    BY <1>0, <1>3 DEF UpdateKey
  <2>2. /\ Retire /\ UNCHANGED <<now, cache, nonces, lastNonce, restarts>>
        /\ req[r].new_key \in Keys
    BY <1>0, <1>3 DEF UpdateKey
  <2>3. CASE KeyTaken(a, req[r].new_key)
    <3>1. req' = Return(r) /\ row' = row
      BY <1>3, <2>1, <2>3 DEF UpdateKey
    <3>2. retired' = retired
      BY <1>0, <2>2, <3>1, NoRetirement
    <3>3. QED
      BY <1>0, <2>2, <3>1, <3>2, ReturnFacts, QuietStep
  <2>4. CASE ~ KeyTaken(a, req[r].new_key) /\ row[a].status # "valid"
    <3>1. Goto(r, "evicting") /\ row' = row
      BY <1>3, <2>1, <2>4 DEF UpdateKey
    <3>2. retired' = retired
      BY <1>0, <2>2, <3>1, NoRetirement
    <3>3. QED
      BY <1>0, <2>1, <2>2, <3>1, <3>2, GotoFacts, QuietStep
  <2>5. CASE ~ KeyTaken(a, req[r].new_key) /\ row[a].status = "valid"
    <3>1. /\ Goto(r, "evicting")
          /\ row' = [row EXCEPT ![a] = [status |-> "valid", key |-> req[r].new_key]]
      BY <1>3, <2>1, <2>5 DEF UpdateKey
    <3>2. QED
      BY <1>0, <2>1, <2>2, <2>5, <3>1, GotoFacts, RowStep
  <2>6. QED
    BY <2>3, <2>4, <2>5
<1>4. ASSUME Deactivate(r) PROVE AuthInv'
  <2>1. PICK a \in Accounts : a = req[r].account /\ row[a].status # "none"
    BY <1>0, <1>4 DEF Deactivate
  <2>2. PICK k \in Keys : k = row[a].key
    BY <1>0, <2>1 DEF Located
  <2>3. /\ Retire /\ UNCHANGED <<now, cache, nonces, lastNonce, restarts>> /\ Goto(r, "evicting")
        /\ row' = [row EXCEPT ![a] = [status |-> "deactivated", key |-> k]]
    BY <1>4, <2>1, <2>2 DEF Deactivate
  <2>4. QED
    BY <1>0, <2>1, <2>2, <2>3, GotoFacts, RowStep
<1>5. ASSUME NEW a \in Accounts, AdminDeactivate(r, a) PROVE AuthInv'
  <2> DEFINE q == [Unsent EXCEPT !.pc = "evicting", !.account = a]
  <2>1. PICK k \in Keys : k = row[a].key
    BY <1>0, <1>5 DEF Located, AdminDeactivate
  <2>2. /\ Retire /\ UNCHANGED <<now, cache, nonces, lastNonce, restarts>> /\ row[a].status # "none"
        /\ row' = [row EXCEPT ![a] = [status |-> "deactivated", key |-> k]]
        /\ req' = [req EXCEPT ![r] = q]
    BY <1>5, <2>1 DEF AdminDeactivate
  <2>3. Unsent \in Request /\ Unsent.nonce = 0
    BY AuthAssumption DEF Unsent, Request
  <2>4. q \in Request /\ q.pc = "evicting" /\ q.account = a /\ q.nonce = 0
    BY <2>3 DEF Request
  <2> HIDE DEF q
  <2>5. req' \in [Reqs -> Request] /\ req'[r] = q /\ \A s \in Reqs : s # r => req'[s] = req[s]
    BY <1>0, <2>2, <2>4 DEF TypeOK
  <2>6. QED
    BY <2>1, <2>2, <2>4, <2>5, RowStep
<1>6. QED
  BY <1>1, <1>2, <1>3, <1>4, <1>5

LEMMA AuthInvStep == AuthInv /\ [Next]_vars => AuthInv'
<1> SUFFICES ASSUME AuthInv, [Next]_vars PROVE AuthInv'
  OBVIOUS
<1>0. TypeOK /\ Located
  BY DEF AuthInv
<1>1. CASE UNCHANGED vars
  BY <1>1 DEF vars, AuthInv, TypeOK, Located, Spent, NonceOnce, OneAccountPerKey, Held, Current
<1>2. CASE NewNonce \/ Sweep \/ Tick \/ Restart
  BY <1>2, NonceStep, TickStep, RestartStep
<1>3. ASSUME NEW r \in Reqs, NEW n \in 1 .. lastNonce, NEW a \in Accounts, ArriveKid(r, n, a) PROVE AuthInv'
  <2> DEFINE q == [Unsent EXCEPT !.pc = "keyed", !.account = a]
  <2>1. Unsent \in Request
    BY AuthAssumption DEF Unsent, Request
  <2>2. q \in Request /\ q.pc = "keyed" /\ q.account = a
    BY <2>1 DEF Request
  <2>3. Arrive(r, n, q) /\ row[a].status # "none"
    BY <1>3 DEF ArriveKid
  <2> HIDE DEF q
  <2>4. QED
    BY <2>2, <2>3, ArriveStep
<1>4. ASSUME NEW r \in Reqs, NEW n \in 1 .. lastNonce, NEW k \in Keys, ArriveJwk(r, n, k) PROVE AuthInv'
  <2> DEFINE q == [Unsent EXCEPT !.pc = "authed", !.spki = k]
  <2>1. Unsent \in Request /\ Unsent.account = Null
    BY AuthAssumption DEF Unsent, Request
  <2>2. q \in Request /\ q.pc = "authed" /\ q.spki = k /\ q.account = Null
    BY <2>1 DEF Request
  <2>3. Arrive(r, n, q)
    BY <1>4 DEF ArriveJwk
  <2> HIDE DEF q
  <2>4. QED
    BY <2>2, <2>3, ArriveStep
<1>5. ASSUME NEW r \in Reqs, LookupHit(r) PROVE AuthInv'
  <2>1. cache[req[r].account].key \in Keys
    BY <1>0, <1>5 DEF LookupHit, Fresh, Located, TypeOK, Entry
  <2>2. /\ Verify(r, cache[req[r].account].key)
        /\ UNCHANGED <<now, row, cache, nonces, lastNonce, restarts, retired>>
    BY <1>5 DEF LookupHit
  <2>3. PICK k \in Keys : k = cache[req[r].account].key /\ Verify(r, k)
    BY <2>1, <2>2
  <2>4. QED
    BY <1>0, <2>2, <2>3, VerifyFacts, QuietStep
<1>6. ASSUME NEW r \in Reqs, Other(r) \/ Dropped(r) PROVE AuthInv'
  <2>1. req' = Return(r) /\ UNCHANGED <<now, row, cache, nonces, lastNonce, restarts, retired>>
    BY <1>6 DEF Other, Dropped
  <2>2. QED
    BY <1>0, <2>1, ReturnFacts, QuietStep
<1>7. QED
  BY <1>1, <1>2, <1>3, <1>4, <1>5, <1>6, LookupMissStep, FillStep, EvictStep, HandlerStep DEF Next

-----------------------------------------------------------------------------
LEMMA AuthInvHolds == Spec => []AuthInv
  BY AuthInvInit, AuthInvStep, PTL DEF Spec

(* NonceBucket (state.rs): a nonce gets one request past parse_jws, over   *)
(* concurrent replays, sweeps and restarts, for any number of requests.    *)
THEOREM NoncesAreSpent == Spec => []NonceOnce
<1>1. AuthInv => NonceOnce
  BY DEF AuthInv
<1>2. QED
  BY <1>1, AuthInvHolds, PTL

(* get_by_thumbprint and the UNIQUE column (account.rs, key_change.rs): no *)
(* two accounts ever share a key, however checks and writes interleave.    *)
THEOREM KeysAreExclusive == Spec => []OneAccountPerKey
<1>1. AuthInv => OneAccountPerKey
  BY DEF AuthInv
<1>2. QED
  BY <1>1, AuthInvHolds, PTL

(* spki_cache, update_key, update_status: a retired key stops working      *)
(* after the TTL and one tick, and a deactivated account stays so with its *)
(* key, whatever fills and key changes were under way.                     *)
THEOREM RetirementTakesEffect == Spec => RetiredStayOut
<1>1. ASSUME AuthInv, [Next]_vars PROVE StaleBounded \/ UNCHANGED vars
  <2> SUFFICES ASSUME NEW r \in Reqs, Next, req[r].pc \in {"keyed", "filling"}, req'[r].pc = "authed",
                      NEW k, k = req'[r].spki
               PROVE  Current(k) \/ now <= retired[k] + TTL + 1
    BY <1>1 DEF StaleBounded
  <2>0. /\ TypeOK /\ Located /\ Held /\ req[r] \in Request /\ now \in Nat /\ TTL \in Nat
        /\ req[r].account \in Accounts
    BY <1>1, AuthAssumption DEF AuthInv, TypeOK, Located
  <2>1. \A s \in Reqs : req' = Return(s) => s # r
    BY <2>0, ReturnFacts
  <2>2. LookupHit(r) \/ Fill(r)
    <3>1. CASE NewNonce \/ Sweep \/ Tick \/ Restart
      <4>1. CASE Restart
        <5>1. req'[r] = Return(r)[r]
          BY <2>0, <4>1 DEF Restart, TypeOK
        <5>2. req'[r] = [Unsent EXCEPT !.pc = "done", !.nonce = req[r].nonce]
          BY <2>0, <5>1 DEF Return, TypeOK
        <5>3. QED
          BY <5>2 DEF Unsent
      <4>2. QED
        BY <3>1, <4>1 DEF NewNonce, Sweep, Tick
    <3>2. ASSUME NEW s \in Reqs, NEW n, NEW q, Arrive(s, n, q) PROVE FALSE
      BY <2>0, <3>2 DEF Arrive, TypeOK
    <3>3. ASSUME NEW s \in Reqs, LookupHit(s) \/ Fill(s) PROVE s = r
      BY <2>0, <3>3, ReturnFacts DEF LookupHit, Fill, Verify, TypeOK
    <3>4. ASSUME NEW s \in Reqs, LookupMiss(s) PROVE FALSE
      BY <2>0, <2>1, <3>4, ReturnFacts DEF LookupMiss, TypeOK, Request
    <3>5. ASSUME NEW s \in Reqs, Other(s) \/ Evict(s) \/ Dropped(s) \/ \E a \in Accounts : InsertAccount(s, a)
          PROVE  FALSE
      BY <2>0, <2>1, <3>5, ReturnFacts DEF Other, Evict, Dropped, InsertAccount
    <3>6. ASSUME NEW s \in Reqs, NEW x \in Keys, CheckKey(s, x) PROVE FALSE
      BY <2>0, <2>1, <3>6, ReturnFacts DEF CheckKey, TypeOK
    <3>7. ASSUME NEW s \in Reqs, UpdateKey(s) \/ Deactivate(s) PROVE FALSE
      BY <2>0, <2>1, <3>7, ReturnFacts, GotoFacts DEF UpdateKey, Deactivate
    <3>8. ASSUME NEW s \in Reqs, NEW a \in Accounts, AdminDeactivate(s, a) PROVE FALSE
      BY <2>0, <3>8 DEF AdminDeactivate, TypeOK
    <3>9. QED
      BY <3>1, <3>2, <3>3, <3>4, <3>5, <3>6, <3>7, <3>8 DEF Next, ArriveKid, ArriveJwk
  <2>3. CASE LookupHit(r)
    <3>1. PICK a \in Accounts : a = req[r].account
      BY <2>0
    <3>2. /\ cache[a].key \in Keys /\ now - cache[a].at <= TTL /\ cache[a].at \in Nat
          /\ Verify(r, cache[a].key)
      BY <2>0, <2>3, <3>1 DEF LookupHit, Fresh, TypeOK, Entry
    <3>3. PICK x \in Keys : x = cache[a].key
      BY <3>2
    <3>4. k = x
      BY <2>0, <3>2, <3>3, VerifyFacts
    <3>5. Current(x) \/ cache[a].at <= retired[x] + 1
      BY <2>0, <3>2, <3>3 DEF Held
    <3>6. retired[x] \in Nat
      BY <2>0 DEF TypeOK
    <3>7. QED
      BY <2>0, <3>2, <3>4, <3>5, <3>6
  <2>4. CASE Fill(r)
    <3>1. PICK x \in Keys : x = req[r].spki /\ Verify(r, x)
      BY <2>0, <2>4 DEF Fill, Located
    <3>2. k = x
      BY <2>0, <3>1, VerifyFacts
    <3>3. now <= req[r].read_at + 1 /\ (Current(x) \/ req[r].read_at <= retired[x])
      BY <2>0, <2>4, <3>1 DEF Held, Fill
    <3>4. retired[x] \in Nat /\ req[r].read_at \in Nat
      BY <2>0 DEF TypeOK, Request
    <3>5. QED
      BY <2>0, <3>2, <3>3, <3>4
  <2>5. QED
    BY <2>2, <2>3, <2>4
<1>2. ASSUME AuthInv, [Next]_vars PROVE DeactivationStands
  <2> SUFFICES ASSUME NEW b \in Accounts, row[b].status = "deactivated" PROVE row'[b] = row[b]
    BY DEF DeactivationStands
  <2>0. TypeOK /\ row[b] \in Row
    BY <1>2 DEF AuthInv, TypeOK
  <2>1. row[b] = [status |-> "deactivated", key |-> row[b].key]
    BY <2>0 DEF Row
  <2>2. ASSUME NEW r \in Reqs, NEW a \in Accounts, InsertAccount(r, a) PROVE row'[b] = row[b]
    BY <2>0, <2>2 DEF InsertAccount, TypeOK
  <2>3. ASSUME NEW r \in Reqs, UpdateKey(r) PROVE row'[b] = row[b]
    BY <2>0, <2>3 DEF UpdateKey, TypeOK
  <2>4. ASSUME NEW r \in Reqs, NEW a, (Deactivate(r) /\ a = req[r].account) \/ AdminDeactivate(r, a)
        PROVE  row'[b] = row[b]
    <3>1. row' = [row EXCEPT ![a] = [status |-> "deactivated", key |-> row[a].key]]
      BY <2>4 DEF Deactivate, AdminDeactivate
    <3>2. CASE a = b
      BY <2>0, <2>1, <3>1, <3>2 DEF TypeOK
    <3>3. CASE a # b
      BY <2>0, <3>1, <3>3 DEF TypeOK
    <3>4. QED
      BY <3>2, <3>3
  <2>5. QED
    BY <1>2, <2>2, <2>3, <2>4
    DEF Next, vars, NewNonce, Sweep, Tick, Restart, ArriveKid, ArriveJwk, Arrive, LookupHit, LookupMiss,
        Fill, Other, CheckKey, Evict, Dropped
<1>3. AuthInv /\ [Next]_vars => [StaleBounded /\ DeactivationStands]_vars
  BY <1>1, <1>2
<1>4. QED
  BY <1>3, AuthInvHolds, PTL DEF Spec, RetiredStayOut

-----------------------------------------------------------------------------
(* Signatures.                                                             *)

(* Lengths up to 255 go into one or two bytes; no signature needs more.      *)
Lengths == 0 .. 255
LEMMA LengthsRoundTrip ==
    ASSUME NEW n \in Lengths PROVE n \in decode_der_len(encode_asn1_length(n)) /\ Len(encode_asn1_length(n)) \in 1 .. 3
<1>1. n \in 0 .. 255 /\ n % 256 = n
  BY SMT DEF Lengths
<1>2. CASE n < 128
  <2>1. encode_asn1_length(n) = <<n>>
    BY Zenon, <1>2 DEF encode_asn1_length
  <2> QED
    BY SMT, <1>1, <1>2, <2>1 DEF decode_der_len
<1>3. CASE ~(n < 128)
  <2>1. encode_asn1_length(n) = <<129, n>>
    BY SMT, <1>1, <1>3 DEF encode_asn1_length
  <2> QED
    BY SMT, <1>1, <2>1 DEF decode_der_len
<1> QED
  BY <1>2, <1>3

(* A number of at most 66 significant bytes.                                 *)
IsNumber(o) == o.size \in 0 .. 66 /\ o.high \in BOOLEAN
Encoded(o) == Tlv(Octets(IF o.size = 0 \/ o.high THEN 1 ELSE 0, o))
LEMMA IntegersRoundTrip ==
    ASSUME NEW o, IsNumber(o)
    PROVE  /\ \A z : encode_asn1_integer(Octets(z, o)) = Encoded(o)
           /\ strip_integer(Encoded(o)) = {Octets(0, o)}
           /\ TlvSize(Encoded(o)) \in 0 .. 80
<1>1. PICK z \in {0, 1} : z = IF o.size = 0 \/ o.high THEN 1 ELSE 0
  OBVIOUS
<1> DEFINE oct == Octets(z, o)
<1>2. Encoded(o) = Tlv(oct)
  BY <1>1 DEF Encoded
<1>3. oct.zeros = z /\ oct.number = o /\ Length(oct) = z + o.size
  BY DEF Octets, Length
<1> HIDE DEF oct
<1>4. Length(oct) \in 0 .. 67
  BY <1>3 DEF IsNumber
<1>a. Length(oct) \in Lengths
  BY SMT, <1>4 DEF Lengths
<1>5. Length(oct) \in decode_der_len(encode_asn1_length(Length(oct))) /\ Len(encode_asn1_length(Length(oct))) \in 1 .. 3
  BY <1>a, LengthsRoundTrip
<1>6. Tlv(oct).len = encode_asn1_length(Length(oct)) /\ Tlv(oct).value = oct
  BY DEF Tlv
<1>7. \A y : encode_asn1_integer(Octets(y, o)) = Encoded(o)
  BY DEF encode_asn1_integer, Encoded, Octets
<1>8. strip_integer(Tlv(oct)) = {Octets(0, o)}
  <2>1. (IF z > 0 THEN z - 1 ELSE 0) = 0
    OBVIOUS
  <2> QED
    BY <1>3, <1>5, <1>6, <2>1 DEF strip_integer
<1>9. TlvSize(Tlv(oct)) \in 0 .. 80
  <2>1. TlvSize(Tlv(oct)) = 1 + Len(encode_asn1_length(Length(oct))) + Length(oct)
    BY Zenon, <1>6 DEF TlvSize
  <2>2. PICK l \in 0 .. 67, k \in 1 .. 3 : l = Length(oct) /\ k = Len(encode_asn1_length(Length(oct)))
    BY Zenon, <1>4, <1>5
  <2>3. TlvSize(Tlv(oct)) = 1 + k + l
    BY Zenon, <2>1, <2>2
  <2> QED
    BY SMT, <2>3
<1> QED
  BY <1>2, <1>7, <1>8, <1>9

(* From DER to halves of fixed length and back is the same DER.              *)
LEMMA SignaturesRoundTrip ==
    ASSUME NEW r, NEW s, IsNumber(r), IsNumber(s), NEW half \in 0 .. 66, r.size <= half, s.size <= half
    PROVE  LET der == DerSequence(Encoded(r), Encoded(s))
               raw == [r |-> Octets(half - r.size, r), s |-> Octets(half - s.size, s)]
           IN  ecdsa_der_to_p1363(der, half) = {raw} /\ p1363_to_der(raw, half) = {der}
<1> DEFINE der == DerSequence(Encoded(r), Encoded(s))
           raw == [r |-> Octets(half - r.size, r), s |-> Octets(half - s.size, s)]
<1>1. /\ strip_integer(Encoded(r)) = {Octets(0, r)} /\ TlvSize(Encoded(r)) \in 0 .. 80
      /\ strip_integer(Encoded(s)) = {Octets(0, s)} /\ TlvSize(Encoded(s)) \in 0 .. 80
      /\ \A z : encode_asn1_integer(Octets(z, r)) = Encoded(r) /\ encode_asn1_integer(Octets(z, s)) = Encoded(s)
  BY IntegersRoundTrip
<1>2. /\ der.r = Encoded(r) /\ der.s = Encoded(s)
      /\ der.len = encode_asn1_length(TlvSize(Encoded(r)) + TlvSize(Encoded(s)))
  BY DEF DerSequence
<1> HIDE DEF der
<1>3. strip_tlv(der)
  <2> DEFINE n == TlvSize(Encoded(r)) + TlvSize(Encoded(s))
  <2>1. n \in Lengths
    <3>1. PICK k \in 0 .. 80, l \in 0 .. 80 : k = TlvSize(Encoded(r)) /\ l = TlvSize(Encoded(s))
      BY Zenon, <1>1
    <3>2. n = k + l
      BY Zenon, <3>1
    <3>3. k + l \in Lengths
      BY SMT DEF Lengths
    <3> QED
      BY Zenon, <3>2, <3>3
  <2>2. n \in decode_der_len(encode_asn1_length(n))
    BY Zenon, <2>1, LengthsRoundTrip
  <2> QED
    BY Zenon, <1>2, <2>2 DEF strip_tlv
<1>4. Octets(0, r).number = r /\ Octets(0, s).number = s /\ Length(Octets(0, r)) = r.size /\ Length(Octets(0, s)) = s.size
  BY DEF Octets, Length, IsNumber
<1>5. {x \in strip_integer(der.r) : Length(x) <= half} = {Octets(0, r)} /\ {x \in strip_integer(der.s) : Length(x) <= half} = {Octets(0, s)}
  BY <1>1, <1>2, <1>4
<1>6. Padded(Octets(0, r), half) = Octets(half - r.size, r) /\ Padded(Octets(0, s), half) = Octets(half - s.size, s)
  BY <1>4 DEF Padded
<1>7. ecdsa_der_to_p1363(der, half) = {raw}
  <2>1. ecdsa_der_to_p1363(der, half) = {[r |-> Padded(x, half), s |-> Padded(y, half)] : x \in {Octets(0, r)}, y \in {Octets(0, s)}}
    BY <1>3, <1>5 DEF ecdsa_der_to_p1363
  <2> QED
    BY <1>6, <2>1
<1>8. raw.r = Octets(half - r.size, r) /\ raw.s = Octets(half - s.size, s)
  OBVIOUS
<1>9. Length(Octets(half - r.size, r)) = half /\ Length(Octets(half - s.size, s)) = half
  BY DEF Length, Octets, IsNumber
<1>10. p1363_to_der(raw, half) = {DerSequence(Encoded(r), Encoded(s))}
  BY <1>1, <1>8, <1>9 DEF p1363_to_der
<1> QED
  BY <1>7, <1>10 DEF der

(* What is asked of the keys.                                                *)
LEMMA CurveNumbers ==
    ASSUME NEW c \in Curves, NEW o \in Numbers(c) PROVE IsNumber(o) /\ o.size <= coord_size(c) /\ coord_size(c) \in 0 .. 66
<1>1. coord_size(c) \in 0 .. 66
  BY DEF coord_size, Curves
<1>2. PICK d \in 0 .. coord_size(c), h \in BOOLEAN : o = Number(coord_size(c) - d, h, 1)
  BY DEF Numbers
<1>3. o.size = coord_size(c) - d /\ o.high = h
  BY <1>2 DEF Number
<1> QED
  BY <1>1, <1>3 DEF IsNumber
LEMMA OfCurve ==
    ASSUME NEW c \in Curves, NEW q \in CurveQuestions(c)
    PROVE  /\ q.type = c /\ q.alg = alg_for_key(c) /\ q.r \in Numbers(c) /\ q.s \in Numbers(c) /\ q.x \in Numbers(c)
           /\ q.y = q.r /\ DOMAIN q = {"type", "alg", "r", "s", "x", "y", "zeros", "import"}
<1>1. PICK r \in Numbers(c), s \in Numbers(c), x \in Numbers(c), z \in {0, 1}, i \in BOOLEAN : q = Question(c, alg_for_key(c), r, s, x, z, i)
  BY DEF CurveQuestions
<1> HIDE DEF Numbers, alg_for_key
<1> QED
  BY <1>1 DEF Question
LEMMA OfOther ==
    ASSUME NEW q \in OtherQuestions
    PROVE  /\ q.type \in KeyTypes \ Curves
           /\ DOMAIN q = {"type", "alg", "r", "s", "x", "y", "zeros", "import"}
<1>1. PICK t \in KeyTypes \ Curves, a \in RsaAlgs \union {"EdDSA"} \union MlDsa, i \in BOOLEAN :
          q = Question(t, a, NoNumber, NoNumber, NoNumber, 0, i)
  BY DEF OtherQuestions
<1> QED
  BY <1>1 DEF Question

(* The curves: numbers are padded, stripped and padded again.                *)
Jwk(q) == from_public_key(BackendSpki(q))
LEMMA CurvesVerify ==
    ASSUME NEW c \in Curves, NEW q \in CurveQuestions(c)
    PROVE  Verifies(q) /\ Jwk([q EXCEPT !.zeros = 0]) = Jwk(q)
<1>1. /\ q.type = c /\ q.alg = alg_for_key(c) /\ q.r \in Numbers(c) /\ q.s \in Numbers(c) /\ q.x \in Numbers(c)
      /\ q.y = q.r /\ DOMAIN q = {"type", "alg", "r", "s", "x", "y", "zeros", "import"}
  BY OfCurve
<1>2. PICK half \in 0 .. 66 : half = coord_size(c)
  BY DEF coord_size, Curves
<1>3. IsNumber(q.r) /\ IsNumber(q.s) /\ q.r.size <= half /\ q.s.size <= half
  BY <1>1, <1>2, CurveNumbers
<1> DEFINE der == DerSequence(Encoded(q.r), Encoded(q.s))
           raw == [r |-> Octets(half - q.r.size, q.r), s |-> Octets(half - q.s.size, q.s)]
<1>4. ecdsa_der_to_p1363(der, half) = {raw} /\ p1363_to_der(raw, half) = {der}
  BY <1>3, SignaturesRoundTrip
<1>5. BackendSignature(q) = der
  <2>1. encode_asn1_integer(Octets(0, q.r)) = Encoded(q.r) /\ encode_asn1_integer(Octets(0, q.s)) = Encoded(q.s)
    BY <1>3, IntegersRoundTrip
  <2> QED
    BY <1>1, <2>1 DEF BackendSignature
<1> HIDE DEF der, raw
<1>6. q.alg \in EcAlgs /\ q.alg \notin MlDsa /\ AlgDer(q.alg) = q.alg /\ EcHalf(q.alg) = half
  BY <1>1, <1>2 DEF alg_for_key, EcAlgs, MlDsa, AlgDer, EcHalf, coord_size, Curves
<1>7. \A p : p.type = c => Jwk(p) = [kty |-> "EC", crv |-> c, x |-> pad_coord(Octets(p.zeros, p.x), coord_size(c)), y |-> pad_coord(Octets(0, p.y), coord_size(c))]
  <2> SUFFICES ASSUME NEW p, p.type = c
               PROVE  Jwk(p) = [kty |-> "EC", crv |-> c, x |-> pad_coord(Octets(p.zeros, p.x), coord_size(c)), y |-> pad_coord(Octets(0, p.y), coord_size(c))]
    OBVIOUS
  <2> DEFINE k == <<Octets(p.zeros, p.x), Octets(0, p.y)>>
  <2>1. BackendSpki(p) = Spki(c, 2 + 2 * coord_size(c), k)
    BY DEF BackendSpki, Curves
  <2>2. BackendSpki(p).type = c /\ BackendSpki(p).key = k
    BY <2>1 DEF Spki
  <2> HIDE DEF k
  <2>3. from_public_key(BackendSpki(p)) = [kty |-> "EC", crv |-> c, x |-> pad_coord(k[1], coord_size(c)), y |-> pad_coord(k[2], coord_size(c))]
    BY <2>2 DEF from_public_key, Curves, MlDsa
  <2>4. k[1] = Octets(p.zeros, p.x) /\ k[2] = Octets(0, p.y)
    BY DEF k
  <2> QED
    BY <2>3, <2>4 DEF Jwk
<1>8. Jwk([q EXCEPT !.zeros = 0]) = Jwk(q)
  <2>1. PICK p : p = [q EXCEPT !.zeros = 0]
    OBVIOUS
  <2>2. p.type = c /\ p.x = q.x /\ p.y = q.y
    BY <1>1, <2>1
  <2>3. pad_coord(Octets(p.zeros, p.x), coord_size(c)) = pad_coord(Octets(q.zeros, q.x), coord_size(c))
    BY <2>2 DEF pad_coord, Octets
  <2>4. Jwk(p) = Jwk(q)
    BY <1>1, <1>7, <2>2, <2>3
  <2> QED
    BY <2>1, <2>4
<1>9. Verifies(q)
  <2>1. Jwk(q).kty = "EC" /\ Jwk(q).crv = c
    BY <1>1, <1>7
  <2> DEFINE spki == Spki(c, 2 + 2 * coord_size(c), <<Jwk(q).x, Jwk(q).y>>)
  <2>2. spki \in to_spki_der(Jwk(q))
    BY <2>1 DEF to_spki_der, ec_to_spki_der
  <2>3. spki.type = c
    BY DEF Spki
  <2> HIDE DEF spki
  <2>4. verify_signature(spki, q.alg, der, der)
    BY <1>1, <2>3 DEF verify_signature, WellFormed, GoesWith, Curves, MlDsa
  <2>5. raw \in sign(q.alg, BackendSignature(q))
    BY <1>4, <1>5, <1>6 DEF sign
  <2>6. verify_with_spki(q.alg, spki, raw, der)
    BY <1>4, <1>6, <2>4 DEF verify_with_spki
  <2> QED
    BY <1>5, <2>2, <2>5, <2>6 DEF Verifies, Jwk
<1> QED
  BY <1>8, <1>9

(* The other keys: bytes, with the algorithm that goes with the key.         *)
LEMMA OthersVerify ==
    ASSUME NEW q \in OtherQuestions, q.alg \in Algs(q.type)
    PROVE  (Verifies(q) <=> q.type # "Ed448") /\ Jwk([q EXCEPT !.zeros = 0]) = Jwk(q)
<1>1. /\ q.type \in {"RSA", "Ed25519", "Ed448", "ML-DSA-44", "ML-DSA-65", "ML-DSA-87"} /\ q.type \notin Curves
      /\ DOMAIN q = {"type", "alg", "r", "s", "x", "y", "zeros", "import"}
  BY OfOther DEF KeyTypes, Curves, MlDsa
<1>2. Jwk([q EXCEPT !.zeros = 0]) = Jwk(q)
  <2>1. PICK p : p = [q EXCEPT !.zeros = 0]
    OBVIOUS
  <2>2. p.type = q.type
    BY <1>1, <2>1
  <2>3. BackendSpki(p) = BackendSpki(q)
    BY <1>1, <2>2 DEF BackendSpki
  <2> QED
    BY <2>1, <2>3 DEF Jwk
<1>3. \A b : sign(q.alg, b) = {b}
  BY <1>1 DEF sign, Algs, alg_for_key, EcAlgs, RsaAlgs
<1> DEFINE b == BackendSignature(q)
<1>4. Verifies(q) <=> \E spki \in to_spki_der(Jwk(q)) : verify_with_spki(q.alg, spki, b, b)
  BY <1>3 DEF Verifies, Jwk
<1>5. b.len = IF q.type \in MlDsa THEN expected_sig_len(q.type) ELSE 64
  BY <1>1 DEF BackendSignature
<1> HIDE DEF b
<1>6. CASE q.type = "RSA"
  <2>1. Jwk(q) = [kty |-> "RSA", n |-> "modulus"]
    BY <1>6 DEF Jwk, from_public_key, BackendSpki, Spki, Curves, MlDsa
  <2>2. to_spki_der(Jwk(q)) = {Spki("RSA", 271, "modulus")}
    BY <2>1 DEF to_spki_der, rsa_to_spki_der
  <2>3. q.alg \in RsaAlgs /\ q.alg \notin MlDsa /\ q.alg \notin EcAlgs /\ AlgDer(q.alg) = q.alg
    BY <1>6 DEF Algs, RsaAlgs, MlDsa, EcAlgs, AlgDer
  <2>4. verify_signature(Spki("RSA", 271, "modulus"), q.alg, b, b)
    BY <2>3 DEF verify_signature, WellFormed, GoesWith, Spki, MlDsa
  <2>5. verify_with_spki(q.alg, Spki("RSA", 271, "modulus"), b, b)
    BY <2>3, <2>4 DEF verify_with_spki
  <2> QED
    BY <1>2, <1>4, <1>6, <2>2, <2>5
<1>7. CASE q.type \in {"Ed25519", "Ed448"}
  <2>1. PICK n \in {32, 57} : n = pub_len(q.type) /\ (n = 57 <=> q.type = "Ed448")
    BY <1>7 DEF pub_len
  <2>2. Jwk(q) = [kty |-> "OKP", crv |-> q.type, x |-> n]
    <3>1. BackendSpki(q) = Spki(q.type, 1 + n, n)
      BY <1>7, <2>1 DEF BackendSpki, Curves
    <3> QED
      BY <1>7, <3>1 DEF Jwk, from_public_key, Spki, Curves, MlDsa
  <2> DEFINE spki == Spki(q.type, IF q.type = "Ed25519" THEN 33 ELSE 57, n)
  <2>3. to_spki_der(Jwk(q)) = {spki}
    BY <2>1, <2>2 DEF to_spki_der, build_okp_spki
  <2>4. spki.type = q.type /\ spki.bits = (IF q.type = "Ed25519" THEN 33 ELSE 57) /\ spki.key = n
    BY DEF Spki
  <2> HIDE DEF spki
  <2>5. q.alg = "EdDSA" /\ q.alg \notin MlDsa /\ q.alg \notin EcAlgs /\ AlgDer(q.alg) = "Ed25519"
    BY <1>7 DEF Algs, alg_for_key, MlDsa, EcAlgs, AlgDer
  <2>6. WellFormed(spki) <=> q.type = "Ed25519"
    BY <1>7, <2>1, <2>4 DEF WellFormed
  <2>7. verify_signature(spki, "Ed25519", b, b) <=> q.type = "Ed25519"
    BY <2>4, <2>6 DEF verify_signature, GoesWith
  <2>8. verify_with_spki(q.alg, spki, b, b) <=> q.type = "Ed25519"
    BY <2>5, <2>7 DEF verify_with_spki
  <2> QED
    BY <1>2, <1>4, <1>7, <2>3, <2>8
<1>8. CASE q.type \in MlDsa
  <2>1. PICK n \in Nat : n = pub_len(q.type)
    BY <1>8 DEF pub_len, MlDsa
  <2>2. Jwk(q) = [kty |-> "AKP", alg |-> q.type, pub |-> n]
    <3>1. BackendSpki(q) = Spki(q.type, 1 + n, n)
      BY <1>8, <2>1 DEF BackendSpki, Curves, MlDsa
    <3> QED
      BY <1>8, <3>1 DEF Jwk, from_public_key, Spki, Curves, MlDsa
  <2> DEFINE spki == Spki(q.type, 1 + n, n)
  <2>3. to_spki_der(Jwk(q)) = {spki}
    BY <2>1, <2>2 DEF to_spki_der, build_ml_dsa_spki
  <2>4. spki.type = q.type /\ spki.bits = 1 + n /\ spki.key = n
    BY DEF Spki
  <2> HIDE DEF spki
  <2>5. q.alg = q.type
    BY <1>8 DEF Algs, alg_for_key, MlDsa
  <2>6. verify_signature(spki, q.alg, b, b)
    BY <1>8, <2>4, <2>5 DEF verify_signature, WellFormed, GoesWith, MlDsa
  <2>7. verify_with_spki(q.alg, spki, b, b)
    BY <1>5, <1>8, <2>5, <2>6 DEF verify_with_spki
  <2> QED
    BY <1>2, <1>4, <1>8, <2>3, <2>7 DEF MlDsa
<1> QED
  BY <1>1, <1>6, <1>7, <1>8 DEF MlDsa

LEMMA AnswersRight ==
    ASSUME NEW q \in JwsQuestions, q.alg \in Algs(q.type)
    PROVE  (Verifies(q) <=> q.type # "Ed448") /\ Jwk([q EXCEPT !.zeros = 0]) = Jwk(q)
<1>1. CASE q \in OtherQuestions
  BY <1>1, OthersVerify
<1>2. CASE \E c \in Curves : q \in CurveQuestions(c)
  <2>1. PICK c \in Curves : q \in CurveQuestions(c)
    BY <1>2
  <2>2. q.type # "Ed448"
    BY <2>1, OfCurve DEF Curves
  <2> QED
    BY <2>1, <2>2, CurvesVerify
<1>3. q \in UNION {CurveQuestions(c) : c \in Curves} \/ q \in OtherQuestions
  BY Zenon DEF JwsQuestions
<1>4. ASSUME q \in UNION {CurveQuestions(c) : c \in Curves} PROVE \E c \in Curves : q \in CurveQuestions(c)
  BY Zenon, <1>4
<1> QED
  BY Zenon, <1>1, <1>2, <1>3, <1>4

(* The answer that was given is the answer to the question.                  *)
JwsInv ==
    \/ checked = NotSigned
    \/ /\ checked.done /\ (checked.verified <=> signing.type # "Ed448")
       /\ checked.thumbprint = thumbprint(Jwk([signing EXCEPT !.zeros = 0]))
LEMMA JwsHolds == JwsSpec => []JwsInv
<1>1. JwsInit => JwsInv
  BY DEF JwsInit, JwsInv
<1>2. JwsInv /\ [JwsNext]_jwsVars => JwsInv'
  <2> SUFFICES ASSUME JwsInv, [JwsNext]_jwsVars PROVE JwsInv'
    OBVIOUS
  <2>1. CASE UNCHANGED jwsVars
    BY <2>1 DEF JwsInv, jwsVars
  <2>2. CASE JwsNext
    <3>1. PICK q \in JwsQuestions : SignAndVerify(q)
      BY <2>2 DEF JwsNext
    <3>2. PICK v \in BOOLEAN : v = Verifies(q)
      BY DEF Verifies
    <3>3. signing' = q /\ checked' = [done |-> TRUE, thumbprint |-> thumbprint(Jwk(q)), verified |-> v] /\ q.alg \in Algs(q.type)
      BY <3>1, <3>2 DEF SignAndVerify, Jwk
    <3>4. checked'.done = TRUE /\ checked'.verified = v /\ checked'.thumbprint = thumbprint(Jwk(q))
      BY <3>3
    <3>5. (v <=> q.type # "Ed448") /\ Jwk([q EXCEPT !.zeros = 0]) = Jwk(q)
      BY <3>2, <3>3, AnswersRight
    <3> QED
      BY <3>3, <3>4, <3>5 DEF JwsInv
  <2> QED
    BY <2>1, <2>2
<1> QED
  BY <1>1, <1>2, PTL DEF JwsSpec
LEMMA JwsRight == JwsInv => SignaturesVerify /\ ThumbprintsAgree
<1> SUFFICES ASSUME JwsInv PROVE SignaturesVerify /\ ThumbprintsAgree
  OBVIOUS
<1>1. CASE checked = NotSigned
  BY <1>1 DEF SignaturesVerify, ThumbprintsAgree, NotSigned
<1>2. CASE checked # NotSigned
  BY <1>2 DEF JwsInv, SignaturesVerify, ThumbprintsAgree, Jwk
<1> QED
  BY <1>1, <1>2

-----------------------------------------------------------------------------
(* Renewals: between two runs of the timer lie 23 to 25 hours, so the first  *)
(* run in the window comes within a day of its start and each failure costs  *)
(* one day more.                                                             *)
Opens == (lifetime * 2) \div 3
TimerInv ==
    /\ age \in Int /\ delay \in {0, 1} /\ failures \in Nat /\ lifetime \in Nat /\ renewed \in BOOLEAN
    /\ Opens > 0 => age < Opens + 25 * (IF renewed THEN failures + 1 ELSE failures)

LEMMA OpensIn == ASSUME NEW l \in Nat PROVE (l * 2) \div 3 \in Nat /\ 3 * ((l * 2) \div 3) <= 2 * l /\ (l >= 2 => (l * 2) \div 3 > 0)
  OBVIOUS

LEMMA RunKept == ASSUME TimerInv, NEW d \in {0, 1}, NEW ok \in BOOLEAN, RunTimer(d, ok) PROVE TimerInv'
<1>1. PICK hour \in Int : hour = (IF renewed THEN 0 ELSE age) + 24 + d - delay
  BY DEF TimerInv
<1>2. PICK open \in Nat : open = Opens
  BY OpensIn DEF Opens, TimerInv
<1>3. PICK failed \in Nat : failed = IF renewed THEN 0 ELSE failures
  BY DEF TimerInv
<1>4. check_ari_window(get_renewal_info(lifetime, hour), hour) <=> hour >= open
  <2>1. get_renewal_info(lifetime, hour).start = Max2(open, hour)
    BY <1>2 DEF get_renewal_info, Opens
  <2> QED
    BY <2>1 DEF check_ari_window, Max2
<1>5. open > 0 => hour < open + 25 * (failed + 1)
  BY <1>1, <1>2, <1>3 DEF TimerInv
<1> DEFINE due == hour >= open
<1>6. /\ delay' = d /\ age' = hour /\ lifetime' = lifetime /\ (due \/ ok)
      /\ renewed' = (due /\ ok)
      /\ IF due /\ ~ok THEN failures' = failed + 1 ELSE failures' = failed
  BY <1>1, <1>3, <1>4 DEF RunTimer
<1>7. Opens' = open
  BY <1>2, <1>6 DEF Opens
<1>8. open > 0 => hour < open + 25 * (IF renewed' THEN failures' + 1 ELSE failures')
  <2>1. CASE ~due
    BY <1>6, <2>1
  <2>2. CASE due /\ ok
    BY <1>5, <1>6, <2>2
  <2>3. CASE due /\ ~ok
    BY <1>5, <1>6, <2>3
  <2> QED
    BY <1>6, <2>1, <2>2, <2>3
<1>9. failures' \in Nat /\ renewed' \in BOOLEAN
  <2>1. failures' \in Nat
    BY <1>6
  <2>2. renewed' \in BOOLEAN
    BY <1>6
  <2> QED
    BY <2>1, <2>2
<1>10. lifetime' \in Nat
  BY <1>6 DEF TimerInv
<1> HIDE DEF due
<1> QED
  BY <1>6, <1>7, <1>8, <1>9, <1>10 DEF TimerInv

LEMMA InTime == TimerInv => RenewedInTime
<1> SUFFICES ASSUME TimerInv, lifetime - Opens >= 25 * (failures + 1) PROVE age < lifetime
  BY DEF RenewedInTime, Opens
<1>1. PICK open \in Nat : open = Opens
  BY OpensIn DEF Opens, TimerInv
<1>2. lifetime >= 2
  BY <1>1 DEF TimerInv
<1>3. open > 0
  BY <1>1, <1>2, OpensIn DEF Opens, TimerInv
<1> QED
  BY <1>1, <1>3 DEF TimerInv

-----------------------------------------------------------------------------
(* Dates.  A year is counted from March; Before is the days of the years     *)
(* before it and Month those of its months.                                  *)
MarchYear(y, m) == IF m <= 2 THEN y - 1 ELSE y
Before(yy) == 365 * yy + yy \div 4 - yy \div 100 + yy \div 400
Month(m) == <<306, 337, 0, 31, 61, 92, 122, 153, 184, 214, 245, 275>>[m]
Epoch(y, m) == Before(MarchYear(y, m)) + Month(m) - 719468
Years == 1970 .. 2399
Months == 1 .. 12
CalendarInv == year \in Years /\ month \in Months /\ days = Epoch(year, month)

LEMMA LeapsAgree == ASSUME NEW y \in Years PROVE y \in LeapYears <=> is_leap(y)
<1> USE DEF Years
<1>1. y % 4 = 0 <=> \E k \in 493 .. 600 : y = 4 * k
  <2>1. ASSUME y % 4 = 0 PROVE \E k \in 493 .. 600 : y = 4 * k
    <3>1. y \div 4 \in 493 .. 600 /\ y = 4 * (y \div 4)
      BY SMT, <2>1
    <3> QED
      BY SMT, <3>1
  <2>2. ASSUME NEW k \in 493 .. 600, y = 4 * k PROVE y % 4 = 0
    BY SMT, <2>2
  <2> QED
    BY SMT, <2>1, <2>2
<1>2. y % 100 = 0 <=> y \in {2000, 2100, 2200, 2300}
  BY SMT
<1>3. y % 400 = 0 <=> y = 2000
  BY SMT
<1>4. y \in {4 * k : k \in 493 .. 600} <=> y % 4 = 0
  BY SMT, <1>1
<1>5. y = 2000 => y % 4 = 0
  BY SMT
<1> QED
  BY SMT, <1>2, <1>3, <1>4, <1>5 DEF LeapYears, is_leap

LEMMA BeforeStep == ASSUME NEW y \in Years PROVE Before(y) \in Int /\ Before(y - 1) \in Int /\ Before(y) = Before(y - 1) + IF is_leap(y) THEN 366 ELSE 365
<1> USE DEF Years
<1>1. y \div 4 - (y - 1) \div 4 = IF y % 4 = 0 THEN 1 ELSE 0
  BY SMT
<1>2. y \div 100 - (y - 1) \div 100 = IF y % 100 = 0 THEN 1 ELSE 0
  BY SMT
<1>3. y \div 400 - (y - 1) \div 400 = IF y % 400 = 0 THEN 1 ELSE 0
  BY SMT
<1>4. y % 400 = 0 => y % 100 = 0
  BY SMT
<1>5. y % 100 = 0 => y % 4 = 0
  BY SMT
<1>6. PICK a4 \in Int, b4 \in Int, a1 \in Int, b1 \in Int, a3 \in Int, b3 \in Int :
          a4 = y \div 4 /\ b4 = (y - 1) \div 4 /\ a1 = y \div 100 /\ b1 = (y - 1) \div 100 /\ a3 = y \div 400 /\ b3 = (y - 1) \div 400
  BY SMT
<1>7. Before(y) = 365 * y + a4 - a1 + a3 /\ Before(y - 1) = 365 * (y - 1) + b4 - b1 + b3
  BY SMT, <1>6 DEF Before
<1>8. a4 - b4 = (IF y % 4 = 0 THEN 1 ELSE 0) /\ a1 - b1 = (IF y % 100 = 0 THEN 1 ELSE 0) /\ a3 - b3 = (IF y % 400 = 0 THEN 1 ELSE 0)
  BY SMT, <1>1, <1>2, <1>3, <1>6
<1> QED
  BY SMT, <1>4, <1>5, <1>7, <1>8 DEF is_leap

LEMMA LengthsAgree ==
    ASSUME NEW y \in Years, NEW m \in Months
    PROVE  max_day(y, m) = MonthLength(y, m) /\ MonthLength(y, m) \in 28 .. 31
<1>1. y \in LeapYears <=> is_leap(y)
  BY LeapsAgree
<1> USE DEF Years, Months
<1> QED
  BY SMT, <1>1 DEF max_day, MonthLength

LEMMA MonthsIn == ASSUME NEW m \in Months PROVE Month(m) \in 0 .. 337
  BY SMT DEF Month, Months

(* The first of the next month.                                              *)
LEMMA MonthStep ==
    ASSUME NEW y \in Years, NEW m \in Months
    PROVE  (IF m = 12 THEN Epoch(y + 1, 1) ELSE Epoch(y, m + 1)) = Epoch(y, m) + MonthLength(y, m)
<1>1. Before(y) \in Int /\ Before(y - 1) \in Int /\ Before(y) = Before(y - 1) + IF is_leap(y) THEN 366 ELSE 365
  BY Zenon, BeforeStep
<1>5. y \in LeapYears <=> is_leap(y)
  BY Zenon, LeapsAgree
<1> USE DEF Years, Months
<1>2. CASE m = 2
  <2>1. Epoch(y, 2) = Before(y - 1) + 337 - 719468 /\ Epoch(y, 3) = Before(y) + 0 - 719468
    BY SMT DEF Epoch, MarchYear, Month
  <2>2. MonthLength(y, 2) = IF is_leap(y) THEN 29 ELSE 28
    BY SMT, <1>5 DEF MonthLength
  <2> QED
    BY SMT, <1>1, <1>2, <2>1, <2>2
<1>3. CASE m = 12
  <2>1. Epoch(y, 12) = Before(y) + 275 - 719468 /\ Epoch(y + 1, 1) = Before(y) + 306 - 719468
    BY SMT DEF Epoch, MarchYear, Month
  <2>2. MonthLength(y, 12) = 31
    BY SMT DEF MonthLength
  <2> QED
    BY SMT, <1>1, <1>3, <2>1, <2>2
<1>4. CASE m \in (1 .. 12) \ {2, 12}
  <2>1. PICK b \in Int : b = Before(MarchYear(y, m))
    BY SMT, <1>1 DEF MarchYear
  <2>2. MarchYear(y, m + 1) = MarchYear(y, m)
    BY SMT, <1>4 DEF MarchYear
  <2>3. Month(m + 1) = Month(m) + MonthLength(y, m) /\ Month(m) \in Int /\ MonthLength(y, m) \in Int
    BY SMT, <1>4 DEF Month, MonthLength
  <2> QED
    BY SMT, <1>4, <2>1, <2>2, <2>3 DEF Epoch
<1> QED
  BY SMT, <1>2, <1>3, <1>4

(* The three formulas.                                                       *)
LEMMA Formulas ==
    ASSUME NEW y \in Years, NEW m \in Months, NEW d \in 1 .. 31, d <= MonthLength(y, m)
    PROVE  /\ days_since_epoch(y, m, d) = Epoch(y, m) + d - 1
           /\ parse_rfc3339_utc(y, m, d) = Epoch(y, m) + d - 1
           /\ fmt_http_date(y, m, d) = (4 + Epoch(y, m) + d - 1) % 7
<1>0. max_day(y, m) = MonthLength(y, m) /\ MonthLength(y, m) \in 28 .. 31
  BY Zenon, LengthsAgree
<1>4. PICK g \in 0 .. 337 : g = Month(m)
  BY Zenon, MonthsIn
<1> USE DEF Years, Months
<1>1. ValidDate(y, m, d)
  BY SMT, <1>0 DEF ValidDate
<1>2. PICK yy \in 1969 .. 2399 : yy = MarchYear(y, m)
  BY SMT DEF MarchYear
<1>3. PICK c \in Int : c = yy \div 4 - yy \div 100 + yy \div 400
  BY SMT
<1>5. Epoch(y, m) = 365 * yy + c + g - 719468
  <2>1. Before(yy) = 365 * yy + c
    BY SMT, <1>3 DEF Before
  <2> QED
    BY SMT, <1>2, <1>4, <2>1 DEF Epoch
<1>6. days_since_epoch(y, m, d) = Epoch(y, m) + d - 1
  <2>1. PICK mm \in 3 .. 14 : mm = IF m <= 2 THEN m + 12 ELSE m
    BY SMT
  <2>2. (153 * mm - 457) \div 5 = g
    BY SMT, <1>4, <2>1 DEF Month
  <2>3. days_since_epoch(y, m, d) = d + (153 * mm - 457) \div 5 + 365 * yy + yy \div 4 - yy \div 100 + yy \div 400 - 719469
    BY SMT, <1>1, <1>2, <2>1 DEF days_since_epoch, MarchYear
  <2> QED
    BY SMT, <1>3, <1>5, <2>2, <2>3
<1>7. parse_rfc3339_utc(y, m, d) = Epoch(y, m) + d - 1
  <2>1. PICK mm \in 0 .. 11 : mm = IF m <= 2 THEN m + 9 ELSE m - 3
    BY SMT
  <2>2. (153 * mm + 2) \div 5 = g
    BY SMT, <1>4, <2>1 DEF Month
  <2>3. parse_rfc3339_utc(y, m, d) = 365 * yy + yy \div 4 - yy \div 100 + yy \div 400 + (153 * mm + 2) \div 5 + d - 1 - 719468
    BY SMT, <1>1, <1>2, <2>1 DEF parse_rfc3339_utc, MarchYear
  <2> QED
    BY SMT, <1>3, <1>5, <2>2, <2>3
<1>8. fmt_http_date(y, m, d) = (4 + Epoch(y, m) + d - 1) % 7
  <2> DEFINE t == <<0, 3, 2, 5, 0, 3, 5, 1, 4, 6, 2, 4>>
  <2>1. PICK w \in 0 .. 6 : w = t[m]
    BY SMT
  <2>2. (g - 719465 - w) % 7 = 0
    BY SMT, <1>4, <2>1 DEF Month
  <2> DEFINE k == (g - 719465 - w) \div 7
  <2>3. k \in Int /\ g - 719465 = w + 7 * k
    BY SMT, <2>2
  <2> HIDE DEF k
  <2>4. fmt_http_date(y, m, d) = (yy + yy \div 4 - yy \div 100 + yy \div 400 + w + d) % 7
    BY SMT, <1>2, <2>1 DEF fmt_http_date, MarchYear
  <2>5. fmt_http_date(y, m, d) = (yy + c + w + d) % 7
    BY SMT, <1>3, <2>4
  <2>6. 4 + Epoch(y, m) + d - 1 = (yy + c + w + d) + 7 * (52 * yy + k)
    BY SMT, <1>5, <2>3
  <2>7. PICK a \in Int, b \in Int : a = yy + c + w + d /\ b = 52 * yy + k
    BY SMT, <2>3
  <2>8. (a + 7 * b) % 7 = a % 7
    BY SMT
  <2> QED
    BY SMT, <2>5, <2>6, <2>7, <2>8
<1> QED
  BY SMT, <1>6, <1>7, <1>8

LEMMA DatesRight == CalendarInv => DatesAgree
<1> SUFFICES ASSUME CalendarInv PROVE DatesAgree
  BY SMT
<1>0. year \in Years /\ month \in Months /\ days = Epoch(year, month)
  BY DEF CalendarInv
<1>1. PICK last \in 28 .. 31 : last = MonthLength(year, month) /\ max_day(year, month) = last
  BY Zenon, <1>0, LengthsAgree
<1>2. \A d \in {1, 15, last} : d \in 1 .. 31 /\ d <= MonthLength(year, month)
  BY SMT, <1>1
<1>3. \A d \in {1, 15, last} :
          /\ days_since_epoch(year, month, d) = days + d - 1
          /\ parse_rfc3339_utc(year, month, d) = days + d - 1
          /\ fmt_http_date(year, month, d) = (4 + days + d - 1) % 7
  <2> SUFFICES ASSUME NEW d \in {1, 15, last}
               PROVE  /\ days_since_epoch(year, month, d) = days + d - 1
                      /\ parse_rfc3339_utc(year, month, d) = days + d - 1
                      /\ fmt_http_date(year, month, d) = (4 + days + d - 1) % 7
    BY Zenon
  <2> QED
    BY Zenon, <1>0, <1>2, Formulas
<1>4. ~ValidDate(year, month, last + 1)
  BY SMT, <1>1 DEF ValidDate
<1> QED
  BY SMT, <1>1, <1>3, <1>4 DEF DatesAgree, days_since_epoch, parse_rfc3339_utc

-----------------------------------------------------------------------------
RenewalInv == TimerInv /\ CalendarInv
LEMMA RenewalHolds == RenewalSpec => []RenewalInv
<1> USE RenewalAssumption
<1>1. RenewalInit => RenewalInv
  <2> SUFFICES ASSUME RenewalInit PROVE RenewalInv
    BY SMT
  <2>1. lifetime \in Nat
    BY SMT DEF RenewalInit
  <2>2. TimerInv
    <3>1. Opens \in Nat
      BY SMT, <2>1, OpensIn DEF Opens
    <3> QED
      BY SMT, <2>1, <3>1 DEF RenewalInit, TimerInv
  <2>3. Epoch(1970, 1) = 0
    <3>1. 1969 \div 4 = 492 /\ 1969 \div 100 = 19 /\ 1969 \div 400 = 4
      BY SMT
    <3> QED
      BY SMT, <3>1 DEF Epoch, MarchYear, Before, Month
  <2> QED
    BY SMT, <2>2, <2>3 DEF RenewalInit, CalendarInv, RenewalInv, Years, Months
<1>2. RenewalInv /\ [RunNext \/ NextMonth]_renewalVars => RenewalInv'
  <2> SUFFICES ASSUME RenewalInv, [RunNext \/ NextMonth]_renewalVars PROVE RenewalInv'
    BY SMT
  <2>1. CASE UNCHANGED renewalVars
    BY SMT, <2>1 DEF RenewalInv, TimerInv, CalendarInv, Opens, renewalVars
  <2>2. CASE RunNext
    <3>1. PICK d \in {0, 1}, ok \in BOOLEAN : RunTimer(d, ok)
      BY SMT, <2>2 DEF RunNext
    <3>2. UNCHANGED <<year, month, days>>
      BY SMT, <3>1 DEF RunTimer
    <3> QED
      BY SMT, <3>1, <3>2, RunKept DEF RenewalInv, CalendarInv
  <2>3. CASE NextMonth
    <3>1. UNCHANGED <<age, delay, failures, lifetime, renewed>>
      BY SMT, <2>3 DEF NextMonth
    <3>2. TimerInv'
      BY SMT, <3>1 DEF RenewalInv, TimerInv, Opens
    <3>3. CalendarInv'
      <4>1. days' = IF month = 12 THEN Epoch(year + 1, 1) ELSE Epoch(year, month + 1)
        BY SMT, <2>3, MonthStep DEF RenewalInv, CalendarInv, NextMonth
      <4>2. CASE month = 12
        BY SMT, <2>3, <4>1, <4>2 DEF NextMonth, RenewalInv, CalendarInv, Years, Months
      <4>3. CASE month # 12
        BY SMT, <2>3, <4>1, <4>3 DEF NextMonth, RenewalInv, CalendarInv, Years, Months
      <4> QED
        BY SMT, <4>2, <4>3
    <3> QED
      BY SMT, <3>2, <3>3 DEF RenewalInv
  <2> QED
    BY SMT, <2>1, <2>2, <2>3
<1> QED
  BY <1>1, <1>2, PTL DEF RenewalSpec

-----------------------------------------------------------------------------
(* The installation.  Which command is at which step.                        *)
Issuing == {"check", "order", "present", "trigger", "poll", "pollOrder", "clean", "certKey", "finalize", "pollCert", "download", "writeCert", "writeRenewal"}
Naming == {"account", "saveUrl"}
Changing == {"keyChange", "changeKey", "writeKey"}
Leaving == {"deregister", "unlink"}
Importing == {"importUrl", "importChain", "importKey", "importRenewal"}
Solving == {"present", "trigger", "poll", "pollOrder", "clean"}
Steps == {"idle", "key"} \union Issuing \union Naming \union Changing \union Leaving \union Importing
Kinds == {"none", "issue", "register", "keyChange", "deregister", "import"}
Exits == {"none", "ok", "failed", "killed"}
Challenges == ChallengeTypes \union {"none"}
Certs == [key : Int, names : SUBSET CliNames, from : {"acme", "certbot"}]
Renewals == [account : Int, names : SUBSET CliNames, challenge : Challenges, delegation : BOOLEAN]
Cmds == [kind : Kinds, step : Steps, names : SUBSET CliNames, challenge : Challenges, delegation : BOOLEAN, account : Int, key : Int,
         todo : SUBSET CliNames, deferred : SUBSET CliNames, ok : BOOLEAN, cert : Certs, exit : Exits]
Disks == [akey : Int, newKey : Int, sidecar : Int, certKey : Int, cert : Certs, renewal : Renewals]
CliAccounts == [key : Int, active : BOOLEAN]
Authzs == UNION {[s -> {"pending", "processing", "valid", "invalid"}] : s \in SUBSET CliNames}
Orders == [account : Int, id : Int, challenge : Challenges, authz : Authzs, csr : Int, key : Int]
Servers == [accounts : Seq(CliAccounts), order : Orders]

CliTypes == disk \in Disks /\ cmd \in Cmds /\ srv \in Servers /\ keys \in Nat /\ commands \in Nat
KindInv ==
    /\ cmd.step \in Issuing => cmd.kind = "issue"
    /\ cmd.step \in Naming => cmd.kind \in {"issue", "register"}
    /\ cmd.step \in Changing => cmd.kind = "keyChange"
    /\ cmd.step \in Leaving => cmd.kind = "deregister"
    /\ cmd.step \in Importing => cmd.kind = "import"
    /\ cmd.step = "key" => cmd.kind # "none"
    /\ cmd.step # "idle" => cmd.exit = "none"

(* The key of the account whose URL is kept is in one of the two key files;  *)
(* what a command holds of it is what the files say.                         *)
KeyOf(a) == srv.accounts[a].key
AccountInv ==
    /\ \A a \in DOMAIN srv.accounts : KeyOf(a) > 0
    /\ disk.sidecar > 0 => disk.sidecar \in DOMAIN srv.accounts /\ KeyOf(disk.sidecar) \in {disk.akey, disk.newKey}
    /\ cmd.step = "account" => cmd.key = disk.akey /\ disk.akey > 0
    /\ cmd.step \in {"saveUrl", "importUrl"} => cmd.account \in DOMAIN srv.accounts /\ KeyOf(cmd.account) = disk.akey
    /\ cmd.step \in Changing => cmd.account = disk.sidecar /\ disk.sidecar > 0
    /\ cmd.step = "changeKey" => cmd.cert.key = disk.newKey /\ disk.newKey > 0
    /\ cmd.step = "writeKey" => cmd.cert.key = disk.newKey /\ KeyOf(disk.sidecar) = disk.newKey
    /\ cmd.exit = "ok" /\ cmd.kind \in {"keyChange", "register"} => disk.akey = KeyOf(disk.sidecar)

(* From the finalization on the order's certificate is for the key on disk.  *)
Ordered == [key |-> disk.certKey, names |-> cmd.names, from |-> "acme"]
CertInv ==
    /\ CertHasItsKey
    /\ cmd.step \in {"finalize", "pollCert", "download", "writeCert", "writeRenewal"} => disk.certKey > 0
    /\ cmd.step = "pollCert" => srv.order.csr = disk.certKey /\ srv.order.key \in {0, disk.certKey}
    /\ cmd.step \in {"download", "writeCert", "writeRenewal"} => srv.order.key = disk.certKey
    /\ cmd.step = "writeCert" => cmd.cert = Ordered
    /\ cmd.step = "writeRenewal" => disk.cert = Ordered
    /\ cmd.step = "importKey" => disk.cert.from = "certbot"
    /\ cmd.exit = "ok" /\ cmd.kind = "issue" =>
         /\ disk.cert = Ordered /\ disk.certKey > 0 /\ srv.order.key = disk.certKey
         /\ disk.renewal = [account |-> cmd.account, names |-> cmd.names, challenge |-> cmd.challenge, delegation |-> FALSE]

(* A record of the hook belongs to the order being solved or is abandoned.   *)
Hooked == {x \in records : x.by = "dns-hook"}
RecordInv == Hooked \subseteq abandoned \union (IF cmd.step \in Solving THEN OfOrder ELSE {})
CliInv == CliTypes /\ KindInv /\ AccountInv /\ CertInv /\ RecordInv

-----------------------------------------------------------------------------
(* What the ways to go on and to end leave in the command.                   *)
Rest(c) == c.kind = cmd.kind /\ c.names = cmd.names /\ c.challenge = cmd.challenge /\ c.delegation = cmd.delegation
LEMMA Goes ==
    ASSUME CliTypes, KindInv, NEW s \in Steps, Running, Go(s)
    PROVE  /\ cmd' \in Cmds /\ cmd'.step = s /\ Rest(cmd') /\ cmd'.account = cmd.account /\ cmd'.key = cmd.key /\ cmd'.cert = cmd.cert
           /\ cmd'.exit = "none"
<1>1. cmd \in Cmds /\ cmd.exit = "none"
  BY DEF CliTypes, KindInv, Running
<1>2. cmd' = [cmd EXCEPT !.step = s]
  BY DEF Go
<1> QED
  BY <1>1, <1>2 DEF Cmds, Rest
LEMMA Ends ==
    ASSUME CliTypes, NEW how \in Exits, Exit(how)
    PROVE  cmd' \in Cmds /\ cmd'.step = "idle" /\ Rest(cmd') /\ cmd'.account = cmd.account /\ cmd'.exit = how
<1>1. cmd \in Cmds
  BY DEF CliTypes
<1>2. cmd' = [kind |-> cmd.kind, step |-> "idle", names |-> cmd.names, challenge |-> cmd.challenge, delegation |-> cmd.delegation,
              account |-> cmd.account, key |-> 0, todo |-> {}, deferred |-> {}, ok |-> TRUE, cert |-> NoCert, exit |-> how]
  BY DEF Exit, Idle
<1>3. NoCert \in Certs
  BY DEF NoCert, Certs, Absent
<1> QED
  BY <1>1, <1>2, <1>3 DEF Cmds, Rest, Steps

(* Steps that leave a part of the invariant alone.                           *)
LEMMA KindKept ==
    ASSUME cmd'.kind = cmd.kind, KindInv,
           \/ cmd'.step = "idle"
           \/ cmd'.exit = "none" /\ \E s \in {Issuing, Naming, Changing, Leaving, Importing} : cmd.step \in s /\ cmd'.step \in s
    PROVE  KindInv'
<1>1. CASE cmd'.step = "idle"
  BY <1>1 DEF KindInv, Issuing, Naming, Changing, Leaving, Importing
<1>2. CASE cmd'.exit = "none" /\ \E s \in {Issuing, Naming, Changing, Leaving, Importing} : cmd.step \in s /\ cmd'.step \in s
  BY <1>2 DEF KindInv, Issuing, Naming, Changing, Leaving, Importing
<1> QED
  BY <1>1, <1>2
SameKeys == DOMAIN srv'.accounts = DOMAIN srv.accounts /\ \A a \in DOMAIN srv.accounts : srv'.accounts[a].key = srv.accounts[a].key
LEMMA AccountsAlone ==
    ASSUME AccountInv, SameKeys,
           disk'.akey = disk.akey, disk'.newKey = disk.newKey, disk'.sidecar = disk.sidecar,
           \/ cmd' = cmd /\ srv'.accounts = srv.accounts
           \/ cmd'.step \notin {"account", "saveUrl", "importUrl"} \union Changing /\ ~(cmd'.exit = "ok" /\ cmd'.kind \in {"keyChange", "register"})
    PROVE  AccountInv'
<1>1. /\ \A a \in DOMAIN srv'.accounts : srv'.accounts[a].key > 0
      /\ disk'.sidecar > 0 => disk'.sidecar \in DOMAIN srv'.accounts /\ srv'.accounts[disk'.sidecar].key \in {disk'.akey, disk'.newKey}
  BY DEF AccountInv, KeyOf, SameKeys
<1>2. CASE cmd' = cmd /\ srv'.accounts = srv.accounts
  BY <1>2 DEF AccountInv, KeyOf
<1>3. CASE cmd'.step \notin {"account", "saveUrl", "importUrl"} \union Changing /\ ~(cmd'.exit = "ok" /\ cmd'.kind \in {"keyChange", "register"})
  BY <1>1, <1>3 DEF AccountInv, KeyOf, Changing
<1> QED
  BY <1>2, <1>3
LEMMA CertsAlone ==
    ASSUME CertInv, disk'.cert = disk.cert, disk'.certKey = disk.certKey, disk'.renewal = disk.renewal,
           \/ cmd' = cmd /\ srv'.order.csr = srv.order.csr /\ srv'.order.key = srv.order.key
           \/ /\ cmd'.step \notin {"finalize", "pollCert", "download", "writeCert", "writeRenewal", "importKey"}
              /\ ~(cmd'.exit = "ok" /\ cmd'.kind = "issue")
    PROVE  CertInv'
<1>1. CertHasItsKey'
  BY DEF CertInv, CertHasItsKey
<1>2. CASE cmd' = cmd /\ srv'.order.csr = srv.order.csr /\ srv'.order.key = srv.order.key
  <2>1. Ordered' = Ordered
    BY <1>2 DEF Ordered
  <2> QED
    BY <1>1, <1>2, <2>1 DEF CertInv
<1>3. CASE /\ cmd'.step \notin {"finalize", "pollCert", "download", "writeCert", "writeRenewal", "importKey"}
           /\ ~(cmd'.exit = "ok" /\ cmd'.kind = "issue")
  BY <1>1, <1>3 DEF CertInv
<1> QED
  BY <1>2, <1>3
LEMMA RecordsAlone ==
    ASSUME RecordInv, records' = records, abandoned' = abandoned,
           \/ cmd.step \notin Solving
           \/ commands' = commands /\ cmd'.step \in Solving
    PROVE  RecordInv'
  BY DEF RecordInv, Hooked, OfOrder

Alone ==
    /\ SameKeys /\ disk'.akey = disk.akey /\ disk'.newKey = disk.newKey /\ disk'.sidecar = disk.sidecar
    /\ disk'.cert = disk.cert /\ disk'.certKey = disk.certKey /\ disk'.renewal = disk.renewal
Plain == {"idle", "key", "check", "order", "present", "trigger", "poll", "pollOrder", "clean", "certKey", "deregister", "unlink", "importChain", "importRenewal"}
(* A step that changes no file and no account, to a step that says nothing.  *)
LEMMA NothingNew ==
    ASSUME CliInv, Alone, cmd'.step \in Plain, cmd'.exit # "ok" PROVE AccountInv' /\ CertInv'
<1>1. AccountInv'
  BY AccountsAlone DEF CliInv, Alone, Plain, Changing
<1>2. CertInv'
  BY CertsAlone DEF CliInv, Alone, Plain
<1> QED
  BY <1>1, <1>2
(* A command that fails outside of the solving.                              *)
LEMMA Fails ==
    ASSUME CliInv, Alone, NEW how \in {"failed", "killed"}, Exit(how), disk' \in Disks, srv' \in Servers, keys' \in Nat, commands' = commands,
           RecordInv'
    PROVE  CliInv'
<1>1. cmd' \in Cmds /\ cmd'.step = "idle" /\ Rest(cmd') /\ cmd'.exit = how
  BY Ends DEF CliInv, Exits
<1>2. CliTypes'
  BY <1>1 DEF CliInv, CliTypes
<1>3. KindInv'
  BY <1>1, KindKept DEF CliInv, Rest
<1>4. AccountInv' /\ CertInv'
  BY <1>1, NothingNew DEF Plain
<1> QED
  BY <1>2, <1>3, <1>4 DEF CliInv
LEMMA Moves ==
    ASSUME CliInv, Alone, cmd' \in Cmds, cmd'.step \in Plain, cmd'.exit # "ok",
           disk' \in Disks, srv' \in Servers, keys' \in Nat, commands' \in Nat, KindInv', RecordInv'
    PROVE  CliInv'
<1>1. AccountInv' /\ CertInv'
  BY NothingNew
<1> QED
  BY <1>1 DEF CliInv, CliTypes
(* The same for one that stays within a command and looks only at the files. *)
LEMMA MovesOn ==
    ASSUME CliInv, UNCHANGED <<disk, srv, records, keys, commands, abandoned>>, cmd' \in Cmds, cmd'.kind = cmd.kind, cmd'.exit = "none",
           cmd.step \in Issuing, cmd'.step \in Issuing \intersect Plain, cmd.step \in Solving => cmd'.step \in Solving
    PROVE  CliInv'
<1>1. KindInv'
  BY KindKept DEF CliInv
<1>2. RecordInv'
  BY RecordsAlone DEF CliInv
<1>3. Alone
  BY DEF Alone, SameKeys
<1> QED
  BY <1>1, <1>2, <1>3, Moves DEF CliInv, CliTypes
LEMMA FailsNow ==
    ASSUME CliInv, NEW how \in {"failed", "killed"}, Exit(how), UNCHANGED <<disk, srv, records, keys, commands>>,
           abandoned' = abandoned \union LeftBehind
    PROVE  CliInv'
<1>1. RecordInv'
  <2>1. cmd'.step = "idle"
    BY Ends DEF CliInv, Exits
  <2>2. Hooked' = Hooked
    BY DEF Hooked
  <2> QED
    BY <2>1, <2>2 DEF CliInv, RecordInv, LeftBehind, Solving
<1>2. Alone
  BY DEF Alone, SameKeys
<1> QED
  BY <1>1, <1>2, Fails DEF CliInv, CliTypes
LEMMA FailsEarly ==
    ASSUME CliInv, NEW how \in {"failed", "killed"}, Exit(how), UNCHANGED <<disk, srv, records, keys, commands, abandoned>>, cmd.step \notin Solving
    PROVE  CliInv'
<1>1. abandoned' = abandoned \union LeftBehind
  BY DEF LeftBehind, Solving
<1> QED
  BY <1>1, FailsNow

LEMMA Fields ==
    ASSUME CliTypes
    PROVE  /\ disk.akey \in Int /\ disk.newKey \in Int /\ disk.sidecar \in Int /\ disk.certKey \in Int /\ disk.cert \in Certs /\ disk.renewal \in Renewals
           /\ disk.cert.key \in Int
           /\ cmd.step \in Steps /\ cmd.kind \in Kinds /\ cmd.account \in Int /\ cmd.key \in Int /\ cmd.cert \in Certs /\ cmd.cert.key \in Int
           /\ cmd.names \subseteq CliNames /\ cmd.challenge \in Challenges /\ cmd.delegation \in BOOLEAN /\ cmd.todo \subseteq CliNames
           /\ cmd.deferred \subseteq CliNames /\ cmd.ok \in BOOLEAN
           /\ srv.accounts \in Seq(CliAccounts) /\ srv.order \in Orders /\ srv.order.csr \in Int /\ srv.order.key \in Int /\ srv.order.authz \in Authzs
           /\ \A a \in DOMAIN srv.accounts : KeyOf(a) \in Int
<1>1. disk \in Disks /\ cmd \in Cmds /\ srv \in Servers
  BY DEF CliTypes
<1>2. /\ disk.akey \in Int /\ disk.newKey \in Int /\ disk.sidecar \in Int /\ disk.certKey \in Int /\ disk.cert \in Certs /\ disk.renewal \in Renewals
  BY <1>1 DEF Disks
<1>3. /\ cmd.step \in Steps /\ cmd.kind \in Kinds /\ cmd.account \in Int /\ cmd.key \in Int /\ cmd.cert \in Certs
      /\ cmd.names \subseteq CliNames /\ cmd.challenge \in Challenges /\ cmd.delegation \in BOOLEAN /\ cmd.todo \subseteq CliNames
      /\ cmd.deferred \subseteq CliNames /\ cmd.ok \in BOOLEAN
  BY <1>1 DEF Cmds
<1>4. srv.accounts \in Seq(CliAccounts) /\ srv.order \in Orders
  BY <1>1 DEF Servers
<1>5. srv.order.csr \in Int /\ srv.order.key \in Int /\ srv.order.authz \in Authzs
  BY <1>4 DEF Orders
<1>6. \A a \in DOMAIN srv.accounts : KeyOf(a) \in Int
  <2>1. \A a \in DOMAIN srv.accounts : srv.accounts[a] \in CliAccounts
    BY <1>4
  <2> QED
    BY <2>1 DEF KeyOf, CliAccounts
<1>7. disk.cert.key \in Int /\ cmd.cert.key \in Int
  BY <1>2, <1>3 DEF Certs
<1> QED
  BY <1>2, <1>3, <1>4, <1>5, <1>6, <1>7

-----------------------------------------------------------------------------
(* The commands, step by step.                                               *)
LEMMA StartKept ==
    ASSUME CliInv, NEW kind \in Kinds \ {"none"}, NEW q, q.names \subseteq CliNames, q.challenge \in Challenges, q.delegation \in BOOLEAN,
           NEW account \in Int, Start(kind, q, account)
    PROVE  CliInv'
<1>1. cmd' = [kind |-> kind, step |-> "key", names |-> q.names, challenge |-> q.challenge, delegation |-> q.delegation,
              account |-> account, key |-> 0, todo |-> {}, deferred |-> {}, ok |-> TRUE, cert |-> NoCert, exit |-> "none"]
  BY DEF Start, Idle
<1>2. NoCert \in Certs
  BY DEF NoCert, Certs, Absent
<1>3. cmd' \in Cmds /\ cmd'.step = "key" /\ cmd'.kind = kind /\ cmd'.exit = "none"
  BY <1>1, <1>2 DEF Cmds, Steps, Exits
<1>4. UNCHANGED <<disk, srv, records, keys, abandoned>> /\ commands' \in Nat /\ cmd.step = "idle"
  BY DEF Start, CliInv, CliTypes
<1>5. KindInv'
  BY <1>3 DEF KindInv, Issuing, Naming, Changing, Leaving, Importing
<1>6. RecordInv'
  BY <1>4, RecordsAlone DEF CliInv, Solving
<1>7. Alone
  BY <1>4 DEF Alone, SameKeys
<1> QED
  BY <1>3, <1>4, <1>5, <1>6, <1>7, Moves DEF Plain, CliInv, CliTypes

LEMMA StartsKept == ASSUME CliInv, CliStart PROVE CliInv'
<1> USE CliAssumption
<1>1. NoArgs.names \subseteq CliNames /\ NoArgs.challenge \in Challenges /\ NoArgs.delegation \in BOOLEAN
  BY DEF NoArgs, Challenges
<1>2. CASE cmd_register \/ cmd_key_change \/ cmd_deregister \/ cmd_import_certbot
  BY <1>1, <1>2, StartKept DEF cmd_register, cmd_key_change, cmd_deregister, cmd_import_certbot, Kinds
<1>3. CASE cmd_renew
  <2>1. disk.renewal \in Renewals
    BY Fields DEF CliInv
  <2>2. disk.renewal.names \subseteq CliNames /\ disk.renewal.challenge \in Challenges /\ disk.renewal.account \in Int
    BY <2>1 DEF Renewals
  <2>3. PICK q : q = [names |-> disk.renewal.names, challenge |-> disk.renewal.challenge, delegation |-> FALSE]
    OBVIOUS
  <2>4. q.names = disk.renewal.names /\ q.challenge = disk.renewal.challenge /\ q.delegation = FALSE
    BY <2>3
  <2>5. Start("issue", q, disk.renewal.account)
    BY <1>3, <2>3 DEF cmd_renew
  <2>6. "issue" \in Kinds \ {"none"}
    BY DEF Kinds
  <2> QED
    BY <2>2, <2>4, <2>5, <2>6, StartKept
<1>4. CASE cmd_issue
  <2>1. PICK q \in IssueArgs : Start("issue", q, 0)
    BY <1>4 DEF cmd_issue
  <2>2. q.names \subseteq CliNames /\ q.challenge \in Challenges /\ q.delegation \in BOOLEAN
    BY DEF Challenges
  <2> QED
    BY <2>1, <2>2, StartKept DEF Kinds
<1> QED
  BY <1>2, <1>3, <1>4 DEF CliStart

LEMMA LoadKeyKept == ASSUME CliInv, LoadKey PROVE CliInv'
<1>1. CliTypes /\ KindInv /\ AccountInv /\ CertInv /\ RecordInv
  BY DEF CliInv
<1>2. cmd.step = "key" /\ cmd.kind # "import" /\ UNCHANGED <<srv, records, commands, abandoned>>
  BY DEF LoadKey
<1>3. cmd \in Cmds /\ disk \in Disks /\ srv \in Servers /\ keys \in Nat /\ commands \in Nat /\ cmd.exit = "none" /\ cmd.step \notin Solving
  BY <1>1, <1>2 DEF CliTypes, KindInv, Solving
<1>4. CASE UNCHANGED <<disk, keys>> /\ Exit("failed")
  BY <1>2, <1>3, <1>4, FailsEarly
<1>5. ASSUME cmd.kind \in {"issue", "register"}, NEW k \in Int, k > 0, cmd' = [cmd EXCEPT !.key = k, !.step = "account"], keys' \in Nat,
             \/ disk' = disk /\ k = disk.akey
             \/ disk' = [disk EXCEPT !.akey = k] /\ disk.akey = Absent
      PROVE  CliInv'
  <2>1. cmd' \in Cmds /\ cmd'.step = "account" /\ cmd'.kind = cmd.kind /\ cmd'.exit = "none" /\ cmd'.key = k
    BY <1>3, <1>5 DEF Cmds, Steps, Naming
  <2>2. /\ disk' \in Disks /\ disk'.akey = k /\ disk'.newKey = disk.newKey /\ disk'.sidecar = disk.sidecar /\ disk'.cert = disk.cert
        /\ disk'.certKey = disk.certKey /\ disk'.renewal = disk.renewal /\ (disk.akey = k \/ disk.akey = 0)
    BY <1>3, <1>5 DEF Disks, Absent
  <2>3. KindInv'
    BY <1>5, <2>1 DEF KindInv, Issuing, Naming, Changing, Leaving, Importing
  <2>4. AccountInv'
    <3>1. disk.sidecar > 0 => KeyOf(disk.sidecar) \in {k, disk.newKey}
      BY <1>1, <2>2, Fields DEF AccountInv
    <3> QED
      BY <1>1, <1>2, <1>5, <2>1, <2>2, <3>1 DEF AccountInv, KeyOf, Changing
  <2>5. CertInv'
    BY <1>1, <1>2, <2>1, <2>2, CertsAlone
  <2>6. RecordInv'
    BY <1>1, <1>2, <1>3, RecordsAlone
  <2> QED
    BY <1>2, <1>3, <1>5, <2>1, <2>2, <2>3, <2>4, <2>5, <2>6 DEF CliInv, CliTypes
<1>6. CASE cmd.kind \in {"issue", "register"}
  <2>1. load_or_generate_key("account")
    BY <1>6 DEF LoadKey
  <2>2. CASE disk.akey > 0 /\ cmd' = [cmd EXCEPT !.key = disk.akey, !.step = "account"] /\ UNCHANGED <<disk, keys>>
    BY <1>1, <1>3, <1>5, <1>6, <2>2, Fields
  <2>3. CASE disk.akey = Torn /\ Exit("failed") /\ UNCHANGED <<disk, keys>>
    BY <1>4, <2>3
  <2>4. CASE disk.akey = Absent /\ keys' = NewKey /\ disk' = [disk EXCEPT !.akey = NewKey] /\ cmd' = [cmd EXCEPT !.key = NewKey, !.step = "account"]
    <3>1. NewKey \in Int /\ NewKey > 0 /\ keys' \in Nat
      BY <1>3, <2>4 DEF NewKey
    <3> QED
      BY <1>5, <1>6, <2>4, <3>1
  <2> QED
    BY <2>1, <2>2, <2>3, <2>4 DEF load_or_generate_key
<1>7. CASE cmd.kind \notin {"issue", "register"}
  <2>1. UNCHANGED <<disk, keys>>
    BY <1>7 DEF LoadKey
  <2>2. CASE disk.akey > 0 /\ disk.sidecar > 0
    <3>1. cmd' = [cmd EXCEPT !.key = disk.akey, !.account = disk.sidecar, !.step = cmd.kind]
      BY <1>7, <2>2 DEF LoadKey
    <3>2. cmd.kind \in {"keyChange", "deregister"}
      BY <1>1, <1>2, <1>3, <1>7 DEF KindInv, Cmds, Kinds
    <3>3. disk.akey \in Int /\ disk.sidecar \in Int
      BY <1>1, Fields
    <3>4. cmd' \in Cmds /\ cmd'.step = cmd.kind /\ cmd'.kind = cmd.kind /\ cmd'.exit = "none" /\ cmd'.account = disk.sidecar
      BY <1>3, <3>1, <3>2, <3>3 DEF Cmds, Steps, Changing, Leaving
    <3>5. KindInv'
      BY <3>2, <3>4 DEF KindInv, Issuing, Naming, Changing, Leaving, Importing
    <3>6. AccountInv'
      BY <1>1, <1>2, <2>1, <2>2, <3>2, <3>4 DEF AccountInv, KeyOf, Changing
    <3>7. CertInv'
      BY <1>1, <1>2, <2>1, <3>2, <3>4, CertsAlone
    <3>8. RecordInv'
      BY <1>1, <1>2, <1>3, RecordsAlone
    <3> QED
      BY <1>2, <1>3, <2>1, <3>4, <3>5, <3>6, <3>7, <3>8 DEF CliInv, CliTypes
  <2>3. CASE ~(disk.akey > 0 /\ disk.sidecar > 0)
    BY <1>4, <1>7, <2>1, <2>3 DEF LoadKey
  <2> QED
    BY <2>2, <2>3
<1> QED
  BY <1>6, <1>7

LEMMA UseAccountKept == ASSUME CliInv, UseAccount PROVE CliInv'
<1>1. cmd.step = "account" /\ cmd.kind = "issue" /\ UNCHANGED <<disk, srv, records, keys, commands, abandoned>>
  BY DEF UseAccount
<1>2. PICK a \in Int : cmd' = [cmd EXCEPT !.account = a, !.step = "check"]
  <2>1. cmd.account \in Int /\ disk.sidecar \in Int
    BY Fields DEF CliInv
  <2>2. cmd' = [cmd EXCEPT !.account = IF cmd.account # 0 THEN cmd.account ELSE disk.sidecar, !.step = "check"]
    BY DEF UseAccount
  <2> QED
    BY <2>1, <2>2
<1>3. cmd \in Cmds /\ cmd.exit = "none"
  BY <1>1 DEF CliInv, CliTypes, KindInv
<1>4. cmd' \in Cmds /\ cmd'.step = "check" /\ cmd'.kind = "issue" /\ cmd'.exit = "none"
  BY <1>1, <1>2, <1>3 DEF Cmds, Steps, Issuing
<1>5. KindInv'
  BY <1>4 DEF KindInv, Issuing, Naming, Changing, Leaving, Importing
<1>6. RecordInv'
  BY <1>1, RecordsAlone DEF CliInv, Solving
<1>7. Alone
  BY <1>1 DEF Alone, SameKeys
<1> QED
  BY <1>1, <1>4, <1>5, <1>6, <1>7, Moves DEF Plain, CliInv, CliTypes

LEMMA NewAccountKept == ASSUME CliInv, new_account PROVE CliInv'
<1>1. CliTypes /\ KindInv /\ AccountInv /\ CertInv /\ RecordInv
  BY DEF CliInv
<1>2. cmd.step = "account" /\ UNCHANGED <<disk, records, keys, commands, abandoned>>
  BY DEF new_account
<1>3. cmd \in Cmds /\ srv \in Servers /\ cmd.exit = "none" /\ cmd.kind \in {"issue", "register"} /\ cmd.key = disk.akey /\ disk.akey > 0 /\ cmd.key \in Int
  BY <1>1, <1>2, Fields DEF CliTypes, KindInv, Naming, AccountInv
<1>4. PICK a \in Int :
          /\ cmd' = [cmd EXCEPT !.account = a, !.step = "saveUrl"]
          /\ srv' \in Servers /\ srv'.order = srv.order /\ a \in DOMAIN srv'.accounts /\ srv'.accounts[a].key = disk.akey
          /\ \A b \in DOMAIN srv'.accounts : srv'.accounts[b].key > 0
          /\ \A b \in DOMAIN srv.accounts : b \in DOMAIN srv'.accounts /\ srv'.accounts[b] = srv.accounts[b]
  <2> DEFINE known == {a \in DOMAIN srv.accounts : srv.accounts[a].key = cmd.key}
  <2>1. CASE known # {}
    <3>1. srv' = srv /\ cmd' = [cmd EXCEPT !.account = CHOOSE a \in known : TRUE, !.step = "saveUrl"]
      BY <2>1 DEF new_account
    <3>2. PICK a : a = CHOOSE b \in known : TRUE
      OBVIOUS
    <3>3. a \in known
      BY <2>1, <3>2
    <3>4. a \in Int /\ a \in DOMAIN srv.accounts /\ srv.accounts[a].key = disk.akey
      BY <1>1, <1>3, <3>3, Fields
    <3> QED
      BY <1>1, <1>3, <3>1, <3>2, <3>4 DEF AccountInv, KeyOf
  <2>2. CASE known = {}
    <3> DEFINE new == [key |-> cmd.key, active |-> TRUE]
    <3>1. srv' = [srv EXCEPT !.accounts = Append(srv.accounts, new)] /\ cmd' = [cmd EXCEPT !.account = Len(srv.accounts) + 1, !.step = "saveUrl"]
      BY <2>2 DEF new_account
    <3>2. new \in CliAccounts /\ new.key = disk.akey /\ srv.accounts \in Seq(CliAccounts)
      BY <1>1, <1>3, Fields DEF CliAccounts
    <3> HIDE DEF new
    <3>3. srv' \in Servers /\ srv'.order = srv.order /\ srv'.accounts = Append(srv.accounts, new)
      <4>1. Append(srv.accounts, new) \in Seq(CliAccounts)
        BY <3>2
      <4> QED
        BY <1>3, <3>1, <4>1 DEF Servers
    <3>4. PICK n \in Nat : n = Len(srv.accounts)
      BY <3>2
    <3>5. DOMAIN srv.accounts = 1 .. n /\ DOMAIN srv'.accounts = 1 .. n + 1 /\ srv'.accounts[n + 1] = new
      BY <3>2, <3>3, <3>4
    <3>6. \A b \in 1 .. n : srv'.accounts[b] = srv.accounts[b]
      BY <3>2, <3>3, <3>4
    <3>7. \A b \in 1 .. n + 1 : srv'.accounts[b].key > 0
      BY <1>1, <1>3, <3>2, <3>5, <3>6 DEF AccountInv, KeyOf
    <3>8. PICK a \in Int : a = n + 1
      OBVIOUS
    <3>9. cmd' = [cmd EXCEPT !.account = a, !.step = "saveUrl"]
      BY <3>1, <3>4, <3>8
    <3>10. a \in DOMAIN srv'.accounts /\ srv'.accounts[a].key = disk.akey
      BY <3>2, <3>5, <3>8
    <3>11. \A b \in DOMAIN srv'.accounts : srv'.accounts[b].key > 0
      BY <3>5, <3>7
    <3>12. \A b \in DOMAIN srv.accounts : b \in DOMAIN srv'.accounts /\ srv'.accounts[b] = srv.accounts[b]
      BY <3>5, <3>6
    <3> QED
      BY <3>3, <3>9, <3>10, <3>11, <3>12
  <2> QED
    BY <2>1, <2>2
<1>5. cmd' \in Cmds /\ cmd'.step = "saveUrl" /\ cmd'.kind = cmd.kind /\ cmd'.exit = "none" /\ cmd'.account = a
  BY <1>3, <1>4 DEF Cmds, Steps, Naming
<1>6. KindInv'
  BY <1>2, <1>1, <1>5, KindKept DEF Naming
<1>7. AccountInv'
  BY <1>1, <1>2, <1>3, <1>4, <1>5 DEF AccountInv, KeyOf, Changing
<1>8. CertInv'
  BY <1>1, <1>2, <1>4, <1>5, CertsAlone
<1>9. RecordInv'
  BY <1>1, <1>2, RecordsAlone DEF Solving
<1> QED
  BY <1>1, <1>2, <1>4, <1>5, <1>6, <1>7, <1>8, <1>9 DEF CliInv, CliTypes

LEMMA SaveKept == ASSUME CliInv, save_account_url_for_ca PROVE CliInv'
<1>1. CliTypes /\ KindInv /\ AccountInv /\ CertInv /\ RecordInv
  BY DEF CliInv
<1>2. /\ cmd.step = "saveUrl" /\ UNCHANGED <<srv, records, keys, commands, abandoned>> /\ disk' = [disk EXCEPT !.sidecar = cmd.account]
      /\ IF cmd.kind = "register" THEN Exit("ok") ELSE Go("check")
  BY DEF save_account_url_for_ca
<1>3. cmd \in Cmds /\ disk \in Disks /\ cmd.kind \in {"issue", "register"} /\ cmd.account \in DOMAIN srv.accounts /\ KeyOf(cmd.account) = disk.akey /\ cmd.account \in Int
  BY <1>1, <1>2, Fields DEF CliTypes, KindInv, Naming, AccountInv
<1>4. /\ disk' \in Disks /\ disk'.sidecar = cmd.account /\ disk'.akey = disk.akey /\ disk'.newKey = disk.newKey /\ disk'.cert = disk.cert
      /\ disk'.certKey = disk.certKey /\ disk'.renewal = disk.renewal
  BY <1>2, <1>3 DEF Disks
<1>5. CASE cmd.kind = "register"
  <2>1. cmd' \in Cmds /\ cmd'.step = "idle" /\ cmd'.kind = "register"
    BY <1>1, <1>2, <1>5, Ends DEF Exits, Rest
  <2>2. KindInv'
    BY <1>1, <1>5, <2>1, KindKept
  <2>3. AccountInv'
    BY <1>1, <1>2, <1>3, <1>4, <2>1 DEF AccountInv, KeyOf, Changing
  <2>4. CertInv'
    BY <1>1, <1>2, <1>4, <2>1, CertsAlone
  <2>5. RecordInv'
    BY <1>1, <1>2, RecordsAlone DEF Solving
  <2> QED
    BY <1>1, <1>2, <1>4, <2>1, <2>2, <2>3, <2>4, <2>5 DEF CliInv, CliTypes
<1>6. CASE cmd.kind # "register"
  <2>1. cmd' \in Cmds /\ cmd'.step = "check" /\ cmd'.kind = "issue" /\ cmd'.exit = "none"
    BY <1>1, <1>2, <1>3, <1>6, Goes DEF Steps, Issuing, Rest, Running
  <2>2. KindInv'
    BY <2>1 DEF KindInv, Issuing, Naming, Changing, Leaving, Importing
  <2>3. AccountInv'
    BY <1>1, <1>2, <1>3, <1>4, <2>1 DEF AccountInv, KeyOf, Changing
  <2>4. CertInv'
    BY <1>1, <1>2, <1>4, <2>1, CertsAlone
  <2>5. RecordInv'
    BY <1>1, <1>2, RecordsAlone DEF Solving
  <2> QED
    BY <1>1, <1>2, <1>4, <2>1, <2>2, <2>3, <2>4, <2>5 DEF CliInv, CliTypes
<1> QED
  BY <1>5, <1>6
LEMMA CheckKept == ASSUME CliInv, check_arguments PROVE CliInv'
<1>1. cmd.step = "check" /\ UNCHANGED <<disk, srv, records, keys, commands, abandoned>> /\ (Exit("failed") \/ Go("order"))
  BY DEF check_arguments
<1>2. CASE Exit("failed")
  BY <1>1, <1>2, FailsEarly DEF Solving
<1>3. CASE Go("order")
  <2>1. cmd' \in Cmds /\ cmd'.step = "order" /\ cmd'.kind = cmd.kind /\ cmd'.exit = "none"
    BY <1>1, <1>3, Goes DEF Rest, Steps, Issuing, Running, CliInv
  <2> QED
    BY <1>1, <2>1, MovesOn DEF Issuing, Plain, Solving
<1> QED
  BY <1>1, <1>2, <1>3

(* The order's authorizations do not matter to the files.                    *)
LEMMA AuthzChanges ==
    ASSUME CliTypes, NEW f \in Authzs, srv' = [srv EXCEPT !.order.authz = f]
    PROVE  srv' \in Servers /\ srv'.accounts = srv.accounts /\ srv'.order.csr = srv.order.csr /\ srv'.order.key = srv.order.key
<1>1. srv \in Servers /\ srv.order \in Orders
  BY Fields DEF CliTypes
<1>2. PICK o : o = [srv.order EXCEPT !.authz = f]
  OBVIOUS
<1>3. o \in Orders /\ o.csr = srv.order.csr /\ o.key = srv.order.key
  BY <1>1, <1>2 DEF Orders
<1>4. srv' = [srv EXCEPT !.order = o]
  BY <1>1, <1>2 DEF Servers
<1> QED
  BY <1>1, <1>3, <1>4 DEF Servers
LEMMA TriggeredTyped ==
    ASSUME CliTypes, NEW ns, Triggered(ns)
    PROVE  srv' \in Servers /\ srv'.accounts = srv.accounts /\ srv'.order.csr = srv.order.csr /\ srv'.order.key = srv.order.key
<1> DEFINE a == srv.order.authz
           f == [n \in DOMAIN a |-> IF n \in ns /\ a[n] = "pending" THEN "processing" ELSE a[n]]
<1>1. a \in Authzs
  BY Fields
<1>2. PICK s \in SUBSET CliNames : a \in [s -> {"pending", "processing", "valid", "invalid"}]
  BY <1>1 DEF Authzs
<1>3. f \in [s -> {"pending", "processing", "valid", "invalid"}]
  BY <1>2
<1>4. f \in Authzs
  BY <1>3 DEF Authzs
<1>5. srv' = [srv EXCEPT !.order.authz = f]
  BY DEF Triggered
<1> HIDE DEF f
<1> QED
  BY <1>4, <1>5, AuthzChanges

LEMMA PlaceKept == ASSUME CliInv, NEW v \in SUBSET CliNames, place_order(v) PROVE CliInv'
<1>1. CliTypes /\ KindInv /\ RecordInv
  BY DEF CliInv
<1>2. cmd.step = "order" /\ UNCHANGED <<disk, records, keys, commands, abandoned>>
  BY DEF place_order
<1>3. cmd \in Cmds /\ srv \in Servers /\ cmd.exit = "none" /\ commands \in Nat /\ cmd.names \subseteq CliNames /\ cmd.account \in Int /\ cmd.challenge \in Challenges
  BY <1>1, <1>2, Fields DEF CliTypes, KindInv
<1>4. PICK t \in SUBSET CliNames : cmd' = [cmd EXCEPT !.step = "present", !.todo = t]
  BY <1>3 DEF place_order
<1>5. cmd' \in Cmds /\ cmd'.step = "present" /\ cmd'.kind = cmd.kind /\ cmd'.exit = "none"
  BY <1>3, <1>4 DEF Cmds, Steps, Issuing
<1>6. srv' \in Servers /\ srv'.accounts = srv.accounts
  <2> DEFINE s == IF cmd.delegation THEN {} ELSE cmd.names
             f == [n \in s |-> IF n \in v THEN "valid" ELSE "pending"]
             o == [account |-> cmd.account, id |-> commands, challenge |-> cmd.challenge, csr |-> 0, key |-> 0, authz |-> f]
  <2>1. srv' = [srv EXCEPT !.order = o]
    BY DEF place_order
  <2>2. s \in SUBSET CliNames
    BY <1>3
  <2>3. f \in [s -> {"pending", "processing", "valid", "invalid"}]
    OBVIOUS
  <2>4. f \in Authzs
    BY <2>2, <2>3 DEF Authzs
  <2> HIDE DEF f
  <2>5. o \in Orders
    BY <1>3, <2>4 DEF Orders
  <2> HIDE DEF o
  <2> QED
    BY <1>3, <2>1, <2>5 DEF Servers
<1>7. KindInv'
  BY <1>1, <1>2, <1>5, KindKept DEF Issuing
<1>8. RecordInv'
  BY <1>1, <1>2, RecordsAlone DEF Solving
<1>9. Alone
  BY <1>2, <1>6 DEF Alone, SameKeys
<1> QED
  BY <1>1, <1>2, <1>5, <1>6, <1>7, <1>8, <1>9, Moves DEF Plain, CliTypes

LEMMA PresentKept == ASSUME CliInv, NEW n \in CliNames, present(n) PROVE CliInv'
<1>1. CliTypes /\ KindInv /\ RecordInv
  BY DEF CliInv
<1>2. cmd.step = "present" /\ n \in cmd.todo /\ UNCHANGED <<disk, srv, keys, commands, abandoned>>
  BY DEF present, http_present, tls_alpn_present, deploy, place_by_hand, deploy_persist, build_onion_csr, fetch_authority_token, Presenting
<1>3. cmd \in Cmds /\ cmd.exit = "none" /\ cmd.todo \subseteq CliNames /\ cmd.deferred \subseteq CliNames
  BY <1>1, <1>2, Fields DEF CliTypes, KindInv
<1>4. cmd' \in Cmds /\ cmd'.kind = cmd.kind /\ cmd'.exit = "none" /\ cmd'.step \in {"present", "trigger"}
  <2>1. CASE ThenTrigger(n)
    BY <1>3, <2>1 DEF ThenTrigger, Cmds, Steps, Issuing
  <2>2. CASE place_by_hand(n)
    <3>1. cmd' = [cmd EXCEPT !.todo = cmd.todo \ {n}, !.deferred = cmd.deferred \union {n}]
      BY <1>3, <2>2 DEF place_by_hand, Cmds
    <3>2. cmd.todo \ {n} \in SUBSET CliNames /\ cmd.deferred \union {n} \in SUBSET CliNames
      BY <1>3
    <3> QED
      BY <1>2, <1>3, <3>1, <3>2 DEF Cmds
  <2> QED
    BY <2>1, <2>2 DEF present, http_present, tls_alpn_present, deploy, deploy_persist, build_onion_csr, fetch_authority_token
<1>5. RecordInv'
  <2>1. CASE records' = records
    BY <1>1, <1>2, <1>4, <2>1, RecordsAlone DEF Solving
  <2>2. CASE records' = records \union {Record(n)}
    <3>1. Record(n).by = "dns-hook" => Record(n).order = commands
      BY DEF Record
    <3> QED
      BY <1>1, <1>2, <1>4, <2>2, <3>1 DEF RecordInv, Hooked, OfOrder, Solving
  <2> QED
    BY <2>1, <2>2 DEF present, http_present, tls_alpn_present, deploy, place_by_hand, deploy_persist, build_onion_csr, fetch_authority_token
<1>6. KindInv'
  BY <1>1, <1>2, <1>4, KindKept DEF Issuing
<1>7. Alone
  BY <1>2 DEF Alone, SameKeys
<1> QED
  BY <1>1, <1>2, <1>4, <1>5, <1>6, <1>7, Moves DEF Plain, CliTypes

LEMMA TriggerKept == ASSUME CliInv, trigger_challenge \/ Phase2 PROVE CliInv'
<1>1. CliTypes /\ KindInv /\ RecordInv
  BY DEF CliInv
<1>2. cmd.step \in {"present", "trigger"} /\ UNCHANGED <<disk, records, keys, commands, abandoned>> /\ Triggered(cmd.deferred)
  BY DEF trigger_challenge, Phase2
<1>3. cmd \in Cmds /\ cmd.exit = "none" /\ cmd.todo \subseteq CliNames /\ cmd.deferred \subseteq CliNames
  BY <1>1, <1>2, Fields DEF CliTypes, KindInv
<1>4. PICK t \in SUBSET CliNames, s \in Solving : cmd' = [cmd EXCEPT !.todo = t, !.deferred = {}, !.step = s]
  <2>1. CASE trigger_challenge
    <3>1. cmd' = [cmd EXCEPT !.todo = cmd.todo \ cmd.deferred, !.deferred = {}, !.step = "present"]
      BY <1>3, <2>1 DEF trigger_challenge, Cmds
    <3> QED
      BY <1>3, <3>1 DEF Solving
  <2>2. CASE Phase2
    <3>1. PICK s \in {"clean", "poll"} : cmd' = [cmd EXCEPT !.deferred = {}, !.step = s]
      BY <2>2 DEF Phase2
    <3>2. cmd' = [cmd EXCEPT !.todo = cmd.todo, !.deferred = {}, !.step = s]
      BY <1>3, <3>1 DEF Cmds
    <3> QED
      BY <1>3, <3>2 DEF Solving
  <2> QED
    BY <2>1, <2>2
<1>5. cmd' \in Cmds /\ cmd'.kind = cmd.kind /\ cmd'.exit = "none" /\ cmd'.step \in Solving
  BY <1>3, <1>4 DEF Cmds, Steps, Issuing, Solving
<1>6. srv' \in Servers /\ srv'.accounts = srv.accounts
  BY <1>1, <1>2, TriggeredTyped
<1>7. KindInv'
  BY <1>1, <1>2, <1>5, KindKept DEF Issuing, Solving
<1>8. RecordInv'
  BY <1>1, <1>2, <1>5, RecordsAlone
<1>9. Alone
  BY <1>2, <1>6 DEF Alone, SameKeys
<1> QED
  BY <1>1, <1>2, <1>5, <1>6, <1>7, <1>8, <1>9, Moves DEF Plain, CliTypes, Solving

LEMMA PollKept == ASSUME CliInv, poll_authorization PROVE CliInv'
<1>1. cmd.step = "poll" /\ UNCHANGED <<disk, srv, records, keys, commands, abandoned>>
  BY DEF poll_authorization
<1>2. cmd \in Cmds /\ cmd.exit = "none"
  BY <1>1 DEF CliInv, CliTypes, KindInv
<1>3. cmd' = [cmd EXCEPT !.step = "pollOrder"] \/ cmd' = [cmd EXCEPT !.ok = FALSE, !.step = "clean"]
  BY DEF poll_authorization, Go
<1>4. cmd' \in Cmds /\ cmd'.kind = cmd.kind /\ cmd'.exit = "none" /\ cmd'.step \in {"pollOrder", "clean"}
  BY <1>2, <1>3 DEF Cmds, Steps, Issuing
<1> QED
  BY <1>1, <1>4, MovesOn DEF Issuing, Plain, Solving

LEMMA PollOrderKept == ASSUME CliInv, poll_order PROVE CliInv'
<1>1. CliTypes /\ KindInv /\ AccountInv /\ CertInv /\ RecordInv
  BY DEF CliInv
<1>2. UNCHANGED <<disk, srv, records, keys, commands, abandoned>>
  BY DEF poll_order
<1>3. CASE cmd.step = "pollOrder" /\ Go("clean")
  <2>1. cmd' \in Cmds /\ cmd'.step = "clean" /\ cmd'.kind = cmd.kind /\ cmd'.exit = "none"
    BY <1>1, <1>3, Goes DEF Rest, Steps, Issuing, Running
  <2> QED
    BY <1>2, <1>3, <2>1, MovesOn DEF Issuing, Plain, Solving
<1>4. CASE cmd.step = "pollCert" /\ Exit("failed")
  BY <1>2, <1>4, FailsEarly DEF Solving
<1>5. CASE cmd.step = "pollCert" /\ srv.order.key # 0 /\ Go("download")
  <2>1. cmd' \in Cmds /\ cmd'.step = "download" /\ cmd'.kind = cmd.kind /\ cmd'.exit = "none"
    BY <1>1, <1>5, Goes DEF Rest, Steps, Issuing, Running
  <2>2. KindInv'
    BY <1>1, <1>5, <2>1, KindKept DEF Issuing
  <2>3. AccountInv'
    BY <1>1, <1>2, <2>1, AccountsAlone DEF Changing, SameKeys
  <2>4. CertInv'
    BY <1>1, <1>2, <1>5, <2>1 DEF CertInv, CertHasItsKey
  <2>5. RecordInv'
    BY <1>1, <1>2, <1>5, RecordsAlone DEF Solving
  <2> QED
    BY <1>1, <1>2, <2>1, <2>2, <2>3, <2>4, <2>5 DEF CliInv, CliTypes
<1> QED
  BY <1>3, <1>4, <1>5 DEF poll_order

LEMMA CleanupKept == ASSUME CliInv, cleanup PROVE CliInv'
<1>1. CliTypes /\ KindInv /\ RecordInv
  BY DEF CliInv
<1>2. cmd.step = "clean" /\ UNCHANGED <<disk, srv, keys, commands>> /\ (Go("certKey") \/ Exit("failed"))
  BY DEF cleanup
<1>3. /\ cmd' \in Cmds /\ cmd'.kind = cmd.kind /\ cmd'.step \in {"idle", "certKey"} /\ cmd'.exit # "ok"
      /\ cmd'.step = "certKey" => cmd'.exit = "none"
  <2>1. CASE Go("certKey")
    BY <1>1, <1>2, <2>1, Goes DEF Rest, Steps, Issuing, Running
  <2>2. CASE Exit("failed")
    BY <1>1, <1>2, <2>2, Ends DEF Rest, Exits
  <2> QED
    BY <1>2, <2>1, <2>2
<1>4. KindInv'
  BY <1>1, <1>2, <1>3, KindKept DEF Issuing
<1>5. RecordInv'
  <2>1. Hooked \subseteq abandoned \union OfOrder
    BY <1>1, <1>2 DEF RecordInv, Solving
  <2>2. Hooked' \subseteq abandoned'
    BY <2>1 DEF cleanup, Hooked, OfOrder
  <2> QED
    BY <2>2 DEF RecordInv
<1>6. Alone
  BY <1>2 DEF Alone, SameKeys
<1> QED
  BY <1>1, <1>2, <1>3, <1>4, <1>5, <1>6, Moves DEF Plain, CliTypes

-----------------------------------------------------------------------------
(* The certificate.                                                          *)

(* A step that changes nothing about accounts, from outside of the solving.  *)
LEMMA CertSteps ==
    ASSUME CliInv, cmd.step \notin Solving, UNCHANGED <<records, commands, abandoned>>,
           cmd' \in Cmds, cmd'.kind = cmd.kind, cmd'.step \notin {"key", "account", "saveUrl", "importUrl"} \union Changing,
           cmd'.exit = "ok" => cmd'.kind \notin {"keyChange", "register"},
           disk' \in Disks, srv' \in Servers, keys' \in Nat, SameKeys,
           disk'.akey = disk.akey, disk'.newKey = disk.newKey, disk'.sidecar = disk.sidecar, KindInv', CertInv'
    PROVE  CliInv'
<1>1. AccountInv'
  BY AccountsAlone DEF CliInv
<1>2. RecordInv'
  BY RecordsAlone DEF CliInv
<1> QED
  BY <1>1, <1>2 DEF CliInv, CliTypes

LEMMA CertKeyKept == ASSUME CliInv, CertKey PROVE CliInv'
<1>1. CliTypes /\ KindInv /\ AccountInv /\ CertInv /\ RecordInv
  BY DEF CliInv
<1>2. cmd.step = "certKey" /\ UNCHANGED <<srv, records, commands, abandoned>>
  BY DEF CertKey
<1>3. CASE disk.certKey = Torn /\ Exit("failed") /\ UNCHANGED <<disk, keys>>
  BY <1>2, <1>3, FailsEarly DEF Solving
<1>4. ASSUME Go("finalize"), NEW k \in Int, k > 0, keys' \in Nat,
             \/ disk' = disk /\ k = disk.certKey
             \/ disk' = [disk EXCEPT !.certKey = k] /\ disk.certKey = Absent
      PROVE  CliInv'
  <2>1. cmd' \in Cmds /\ cmd'.step = "finalize" /\ cmd'.kind = cmd.kind /\ cmd'.exit = "none"
    BY <1>1, <1>2, <1>4, Goes DEF Rest, Steps, Issuing, Running
  <2>2. disk \in Disks
    BY <1>1 DEF CliTypes
  <2>3. /\ disk' \in Disks /\ disk'.akey = disk.akey /\ disk'.newKey = disk.newKey /\ disk'.sidecar = disk.sidecar /\ disk'.cert = disk.cert
        /\ disk'.certKey = k /\ (disk.certKey = k \/ disk.certKey = 0)
    BY <1>4, <2>2 DEF Disks, Absent
  <2>4. CertInv'
    <3>1. CertHasItsKey'
      BY <1>1, <2>3, Fields DEF CertInv, CertHasItsKey
    <3> QED
      BY <1>4, <2>1, <2>3, <3>1 DEF CertInv
  <2>5. KindInv'
    BY <1>1, <1>2, <2>1, KindKept DEF Issuing
  <2> QED
    BY <1>1, <1>2, <1>4, <2>1, <2>3, <2>4, <2>5, CertSteps DEF Solving, Changing, SameKeys, CliTypes
<1>5. CASE disk.certKey > 0 /\ Go("finalize") /\ UNCHANGED <<disk, keys>>
  BY <1>1, <1>4, <1>5, Fields DEF CliTypes
<1>6. CASE disk.certKey = Absent /\ keys' = NewKey /\ disk' = [disk EXCEPT !.certKey = NewKey] /\ Go("finalize")
  <2>1. NewKey \in Int /\ NewKey > 0 /\ keys' \in Nat
    BY <1>1, <1>6 DEF NewKey, CliTypes
  <2> QED
    BY <1>4, <1>6, <2>1
<1> QED
  BY <1>3, <1>5, <1>6 DEF CertKey

LEMMA OrderIssued ==
    ASSUME CliTypes, NEW c \in Int, NEW k \in Int, srv' = [srv EXCEPT !.order.csr = c, !.order.key = k]
    PROVE  srv' \in Servers /\ srv'.accounts = srv.accounts /\ srv'.order.csr = c /\ srv'.order.key = k
<1>1. srv \in Servers /\ srv.order \in Orders
  BY Fields DEF CliTypes
<1>2. PICK o : o = [srv.order EXCEPT !.csr = c, !.key = k]
  OBVIOUS
<1>3. o \in Orders /\ o.csr = c /\ o.key = k
  BY <1>1, <1>2 DEF Orders
<1>4. srv' = [srv EXCEPT !.order = o]
  BY <1>1, <1>2 DEF Servers, Orders
<1> QED
  BY <1>1, <1>3, <1>4 DEF Servers

LEMMA FinalizeKept == ASSUME CliInv, finalize PROVE CliInv'
<1>1. CliTypes /\ KindInv /\ AccountInv /\ CertInv /\ RecordInv
  BY DEF CliInv
<1>2. cmd.step = "finalize" /\ UNCHANGED <<disk, records, keys, commands, abandoned>>
  BY DEF finalize
<1>3. disk.certKey \in Int /\ disk.certKey > 0
  BY <1>1, <1>2, Fields DEF CertInv
<1>4. PICK s \in {"pollCert", "download"}, k \in {0, disk.certKey} :
          /\ Go(s) /\ srv' = [srv EXCEPT !.order.csr = disk.certKey, !.order.key = k]
          /\ s = "download" => k = disk.certKey
  <2>1. CASE cmd.delegation
    BY <2>1 DEF finalize
  <2>2. CASE ~cmd.delegation
    BY <2>2 DEF finalize
  <2> QED
    BY <2>1, <2>2
<1>5. cmd' \in Cmds /\ cmd'.step = s /\ cmd'.kind = cmd.kind /\ cmd'.exit = "none"
  BY <1>1, <1>2, <1>4, Goes DEF Rest, Steps, Issuing, Running
<1>6. srv' \in Servers /\ srv'.accounts = srv.accounts /\ srv'.order.csr = disk.certKey /\ srv'.order.key = k
  <2>1. k \in Int
    BY <1>3
  <2> QED
    BY <1>1, <1>3, <1>4, <2>1, OrderIssued
<1>7. CertInv'
  BY <1>1, <1>2, <1>3, <1>4, <1>5, <1>6 DEF CertInv, CertHasItsKey
<1>8. KindInv'
  BY <1>1, <1>2, <1>5, KindKept DEF Issuing
<1> QED
  BY <1>1, <1>2, <1>5, <1>6, <1>7, <1>8, CertSteps DEF Solving, Changing, SameKeys, CliTypes

LEMMA DownloadKept == ASSUME CliInv, download_certificate PROVE CliInv'
<1>1. CliTypes /\ KindInv /\ AccountInv /\ CertInv /\ RecordInv
  BY DEF CliInv
<1>2. cmd.step = "download" /\ UNCHANGED <<disk, srv, records, keys, commands, abandoned>>
  BY DEF download_certificate
<1>3. cmd \in Cmds /\ cmd.names \subseteq CliNames /\ cmd.exit = "none" /\ srv.order.key = disk.certKey /\ disk.certKey \in Int /\ disk.certKey > 0
  BY <1>1, <1>2, Fields DEF CliTypes, KindInv, CertInv
<1>4. Ordered \in Certs
  BY <1>3 DEF Ordered, Certs
<1>5. cmd' = [cmd EXCEPT !.cert = Ordered, !.step = "writeCert"]
  BY <1>3 DEF download_certificate, Ordered
<1>6. cmd' \in Cmds /\ cmd'.step = "writeCert" /\ cmd'.kind = cmd.kind /\ cmd'.exit = "none" /\ cmd'.cert = Ordered /\ cmd'.names = cmd.names
  BY <1>3, <1>4, <1>5 DEF Cmds, Steps, Issuing
<1>7. Ordered' = Ordered
  BY <1>2, <1>6 DEF Ordered
<1>8. CertInv'
  BY <1>1, <1>2, <1>3, <1>6, <1>7 DEF CertInv, CertHasItsKey
<1>9. KindInv'
  BY <1>1, <1>2, <1>6, KindKept DEF Issuing
<1> QED
  BY <1>1, <1>2, <1>6, <1>8, <1>9, CertSteps DEF Solving, Changing, SameKeys, CliTypes

LEMMA WriteCertKept == ASSUME CliInv, WriteCert PROVE CliInv'
<1>1. CliTypes /\ KindInv /\ AccountInv /\ CertInv /\ RecordInv
  BY DEF CliInv
<1>2. cmd.step = "writeCert" /\ UNCHANGED <<srv, records, keys, commands, abandoned>> /\ disk' = [disk EXCEPT !.cert = cmd.cert] /\ Go("writeRenewal")
  BY DEF WriteCert
<1>3. disk \in Disks /\ cmd.cert \in Certs /\ cmd.cert = Ordered /\ srv.order.key = disk.certKey /\ disk.certKey > 0
  BY <1>1, <1>2, Fields DEF CliTypes, CertInv
<1>4. cmd' \in Cmds /\ cmd'.step = "writeRenewal" /\ cmd'.kind = cmd.kind /\ cmd'.exit = "none" /\ cmd'.names = cmd.names
  BY <1>1, <1>2, Goes DEF Rest, Steps, Issuing, Running
<1>5. /\ disk' \in Disks /\ disk'.akey = disk.akey /\ disk'.newKey = disk.newKey /\ disk'.sidecar = disk.sidecar /\ disk'.cert = Ordered
      /\ disk'.certKey = disk.certKey
  BY <1>2, <1>3 DEF Disks
<1>6. Ordered' = Ordered /\ Ordered.key = disk.certKey
  BY <1>4, <1>5 DEF Ordered
<1>7. CertInv'
  BY <1>2, <1>3, <1>4, <1>5, <1>6 DEF CertInv, CertHasItsKey
<1>8. KindInv'
  BY <1>1, <1>2, <1>4, KindKept DEF Issuing
<1> QED
  BY <1>1, <1>2, <1>4, <1>5, <1>7, <1>8, CertSteps DEF Solving, Changing, SameKeys, CliTypes

LEMMA WriteRenewalKept == ASSUME CliInv, WriteRenewal PROVE CliInv'
<1>1. CliTypes /\ KindInv /\ AccountInv /\ CertInv /\ RecordInv
  BY DEF CliInv
<1> DEFINE r == [account |-> cmd.account, names |-> cmd.names, challenge |-> cmd.challenge, delegation |-> FALSE]
<1>2. cmd.step = "writeRenewal" /\ UNCHANGED <<srv, records, keys, commands, abandoned>> /\ disk' = [disk EXCEPT !.renewal = r] /\ Exit("ok")
  BY DEF WriteRenewal
<1>3. disk \in Disks /\ r \in Renewals /\ disk.cert = Ordered /\ srv.order.key = disk.certKey /\ disk.certKey > 0 /\ cmd.kind = "issue"
  BY <1>1, <1>2, Fields DEF CliTypes, CertInv, Renewals, KindInv, Issuing
<1>4. cmd' \in Cmds /\ cmd'.step = "idle" /\ Rest(cmd') /\ cmd'.account = cmd.account /\ cmd'.exit = "ok"
  BY <1>1, <1>2, Ends DEF Exits
<1>5. /\ disk' \in Disks /\ disk'.akey = disk.akey /\ disk'.newKey = disk.newKey /\ disk'.sidecar = disk.sidecar /\ disk'.cert = disk.cert
      /\ disk'.certKey = disk.certKey /\ disk'.renewal = r
  <2> HIDE DEF r
  <2> QED
    BY <1>2, <1>3 DEF Disks
<1>6. Ordered' = Ordered /\ r = [account |-> cmd'.account, names |-> cmd'.names, challenge |-> cmd'.challenge, delegation |-> FALSE]
  BY <1>4, <1>5 DEF Ordered, Rest
<1> HIDE DEF r
<1>7. CertInv'
  BY <1>1, <1>2, <1>3, <1>4, <1>5, <1>6 DEF CertInv, CertHasItsKey
<1>8. KindInv'
  BY <1>1, <1>4, KindKept DEF Rest
<1> QED
  BY <1>1, <1>2, <1>3, <1>4, <1>5, <1>7, <1>8, CertSteps DEF Solving, Changing, SameKeys, CliTypes, Rest

-----------------------------------------------------------------------------
(* The account's key.                                                        *)

(* A step that changes nothing about certificates, outside of the solving.   *)
LEMMA AccountSteps ==
    ASSUME CliInv, cmd.step \notin Solving, UNCHANGED <<records, commands, abandoned>>,
           cmd' \in Cmds, cmd'.step \notin {"finalize", "pollCert", "download", "writeCert", "writeRenewal", "importKey"},
           cmd'.exit = "ok" => cmd'.kind # "issue",
           disk' \in Disks, srv' \in Servers, keys' \in Nat,
           disk'.cert = disk.cert, disk'.certKey = disk.certKey, disk'.renewal = disk.renewal, KindInv', AccountInv'
    PROVE  CliInv'
<1>1. CertInv'
  BY CertsAlone DEF CliInv
<1>2. RecordInv'
  BY RecordsAlone DEF CliInv
<1> QED
  BY <1>1, <1>2 DEF CliInv, CliTypes

LEMMA LoadNewKept == ASSUME CliInv, LoadNewKey PROVE CliInv'
<1>1. CliTypes /\ KindInv /\ AccountInv /\ CertInv /\ RecordInv
  BY DEF CliInv
<1>2. cmd.step = "keyChange" /\ UNCHANGED <<srv, records, commands, abandoned>>
  BY DEF LoadNewKey
<1>3. CASE disk.newKey = Torn /\ Exit("failed") /\ UNCHANGED <<disk, keys>>
  BY <1>2, <1>3, FailsEarly DEF Solving
<1>4. ASSUME NEW k \in Int, k > 0, keys' \in Nat, cmd' = [cmd EXCEPT !.cert.key = k, !.step = "changeKey"],
             \/ disk' = disk /\ k = disk.newKey
             \/ disk' = [disk EXCEPT !.newKey = k] /\ disk.newKey = Absent
      PROVE  CliInv'
  <2>1. disk \in Disks /\ cmd \in Cmds /\ cmd.cert \in Certs /\ cmd.exit = "none" /\ cmd.account = disk.sidecar /\ disk.sidecar > 0
    BY <1>1, <1>2, Fields DEF CliTypes, KindInv, AccountInv, Changing
  <2>2. PICK c : c = [cmd.cert EXCEPT !.key = k]
    OBVIOUS
  <2>3. c \in Certs /\ c.key = k
    BY <2>1, <2>2 DEF Certs
  <2>4. cmd' = [cmd EXCEPT !.cert = c, !.step = "changeKey"]
    BY <1>4, <2>1, <2>2 DEF Cmds
  <2>5. cmd' \in Cmds /\ cmd'.step = "changeKey" /\ cmd'.kind = cmd.kind /\ cmd'.exit = "none" /\ cmd'.account = cmd.account /\ cmd'.cert.key = k
    BY <2>1, <2>3, <2>4 DEF Cmds, Steps, Changing
  <2>6. /\ disk' \in Disks /\ disk'.akey = disk.akey /\ disk'.newKey = k /\ disk'.sidecar = disk.sidecar /\ disk'.cert = disk.cert
        /\ disk'.certKey = disk.certKey /\ disk'.renewal = disk.renewal /\ (disk.newKey = k \/ disk.newKey = 0)
    BY <1>4, <2>1 DEF Disks, Absent
  <2>7. AccountInv'
    <3>1. disk.sidecar > 0 => KeyOf(disk.sidecar) \in {disk.akey, k}
      BY <1>1, <2>6, Fields DEF AccountInv
    <3> QED
      BY <1>1, <1>2, <1>4, <2>1, <2>5, <2>6, <3>1 DEF AccountInv, KeyOf, Changing
  <2>8. KindInv'
    BY <1>1, <1>2, <2>5, KindKept DEF Changing
  <2> QED
    BY <1>1, <1>2, <1>4, <2>5, <2>6, <2>7, <2>8, AccountSteps DEF Solving, CliTypes
<1>5. CASE disk.newKey > 0 /\ cmd' = [cmd EXCEPT !.cert.key = disk.newKey, !.step = "changeKey"] /\ UNCHANGED <<disk, keys>>
  BY <1>1, <1>4, <1>5, Fields DEF CliTypes
<1>6. CASE disk.newKey = Absent /\ keys' = NewKey /\ disk' = [disk EXCEPT !.newKey = NewKey] /\ cmd' = [cmd EXCEPT !.cert.key = NewKey, !.step = "changeKey"]
  <2>1. NewKey \in Int /\ NewKey > 0 /\ keys' \in Nat
    BY <1>1, <1>6 DEF NewKey, CliTypes
  <2> QED
    BY <1>4, <1>6, <2>1
<1> QED
  BY <1>3, <1>5, <1>6 DEF LoadNewKey

(* The server takes the new key for the account of the sidecar.              *)
LEMMA LoadedKept ==
    ASSUME CliTypes, AccountInv, cmd.step = "changeKey", srv' = [srv EXCEPT !.accounts[cmd.account].key = cmd.cert.key]
    PROVE  /\ srv' \in Servers /\ srv'.order = srv.order /\ DOMAIN srv'.accounts = DOMAIN srv.accounts
           /\ \A a \in DOMAIN srv'.accounts : srv'.accounts[a].key > 0
           /\ disk.sidecar \in DOMAIN srv.accounts /\ srv'.accounts[disk.sidecar].key = disk.newKey
<1>1. cmd.account = disk.sidecar /\ cmd.cert.key = disk.newKey /\ disk.newKey > 0 /\ disk.newKey \in Int /\ disk.sidecar \in DOMAIN srv.accounts
  BY Fields DEF AccountInv, Changing
<1>2. srv \in Servers /\ srv.accounts \in Seq(CliAccounts)
  BY Fields DEF CliTypes
<1>3. srv.accounts[disk.sidecar] \in CliAccounts
  BY <1>1, <1>2
<1>4. PICK x : x = [srv.accounts[disk.sidecar] EXCEPT !.key = disk.newKey]
  OBVIOUS
<1>5. x \in CliAccounts /\ x.key = disk.newKey
  BY <1>1, <1>3, <1>4 DEF CliAccounts
<1>6. PICK t : t = [srv.accounts EXCEPT ![disk.sidecar] = x]
  OBVIOUS
<1>7. t \in Seq(CliAccounts) /\ DOMAIN t = DOMAIN srv.accounts /\ t[disk.sidecar] = x /\ \A a \in DOMAIN srv.accounts : a # disk.sidecar => t[a] = srv.accounts[a]
  BY <1>1, <1>2, <1>5, <1>6
<1>8. srv' = [srv EXCEPT !.accounts = t]
  BY <1>1, <1>2, <1>4, <1>6 DEF Servers
<1>9. srv' \in Servers /\ srv'.order = srv.order /\ srv'.accounts = t
  BY <1>2, <1>7, <1>8 DEF Servers
<1> QED
  BY <1>1, <1>5, <1>7, <1>9 DEF AccountInv, KeyOf

LEMMA KeyChangeKept == ASSUME CliInv, key_change PROVE CliInv'
<1>1. CliTypes /\ KindInv /\ AccountInv /\ CertInv /\ RecordInv
  BY DEF CliInv
<1>2. cmd.step = "changeKey" /\ UNCHANGED <<disk, records, keys, commands, abandoned>> /\ srv' = [srv EXCEPT !.accounts[cmd.account].key = cmd.cert.key] /\ Go("writeKey")
  BY DEF key_change
<1>3. /\ srv' \in Servers /\ DOMAIN srv'.accounts = DOMAIN srv.accounts /\ \A a \in DOMAIN srv'.accounts : srv'.accounts[a].key > 0
      /\ disk.sidecar \in DOMAIN srv.accounts /\ srv'.accounts[disk.sidecar].key = disk.newKey
  BY <1>1, <1>2, LoadedKept
<1>4. cmd' \in Cmds /\ cmd'.step = "writeKey" /\ cmd'.kind = cmd.kind /\ cmd'.exit = "none" /\ cmd'.account = cmd.account /\ cmd'.cert = cmd.cert
  BY <1>1, <1>2, Goes DEF Rest, Steps, Changing, Running
<1>5. AccountInv'
  BY <1>1, <1>2, <1>3, <1>4 DEF AccountInv, KeyOf, Changing
<1>6. KindInv'
  BY <1>1, <1>2, <1>4, KindKept DEF Changing
<1> QED
  BY <1>1, <1>2, <1>3, <1>4, <1>5, <1>6, AccountSteps DEF Solving, CliTypes

LEMMA WriteKeyKept == ASSUME CliInv, WriteKey PROVE CliInv'
<1>1. CliTypes /\ KindInv /\ AccountInv /\ CertInv /\ RecordInv
  BY DEF CliInv
<1>2. cmd.step = "writeKey" /\ UNCHANGED <<srv, records, keys, commands, abandoned>> /\ disk' = [disk EXCEPT !.akey = cmd.cert.key] /\ Exit("ok")
  BY DEF WriteKey
<1>3. disk \in Disks /\ cmd.cert.key \in Int /\ cmd.cert.key = disk.newKey /\ KeyOf(disk.sidecar) = disk.newKey /\ cmd.kind = "keyChange"
  BY <1>1, <1>2, Fields DEF CliTypes, AccountInv, KindInv, Changing
<1>4. cmd' \in Cmds /\ cmd'.step = "idle" /\ cmd'.kind = cmd.kind /\ cmd'.exit = "ok"
  BY <1>1, <1>2, Ends DEF Rest, Exits
<1>5. /\ disk' \in Disks /\ disk'.akey = disk.newKey /\ disk'.newKey = disk.newKey /\ disk'.sidecar = disk.sidecar /\ disk'.cert = disk.cert
      /\ disk'.certKey = disk.certKey /\ disk'.renewal = disk.renewal
  BY <1>2, <1>3 DEF Disks
<1>6. AccountInv'
  BY <1>1, <1>2, <1>3, <1>4, <1>5 DEF AccountInv, KeyOf, Changing
<1>7. KindInv'
  BY <1>1, <1>4, KindKept
<1> QED
  BY <1>1, <1>2, <1>3, <1>4, <1>5, <1>6, <1>7, AccountSteps DEF Solving, CliTypes

LEMMA DeactivateKept == ASSUME CliInv, deactivate_account PROVE CliInv'
<1>1. CliTypes /\ KindInv /\ AccountInv /\ CertInv /\ RecordInv
  BY DEF CliInv
<1>2. /\ cmd.step = "deregister" /\ UNCHANGED <<disk, records, keys, commands, abandoned>> /\ Go("unlink") /\ cmd.account \in DOMAIN srv.accounts
      /\ srv' = [srv EXCEPT !.accounts[cmd.account].active = FALSE]
  BY DEF deactivate_account, Accepted
<1>3. srv' \in Servers /\ SameKeys
  <2>1. srv \in Servers /\ srv.accounts \in Seq(CliAccounts) /\ srv.accounts[cmd.account] \in CliAccounts
    BY <1>1, <1>2, Fields DEF CliTypes
  <2>2. PICK x : x = [srv.accounts[cmd.account] EXCEPT !.active = FALSE]
    OBVIOUS
  <2>3. x \in CliAccounts /\ x.key = srv.accounts[cmd.account].key
    BY <2>1, <2>2 DEF CliAccounts
  <2>4. PICK t : t = [srv.accounts EXCEPT ![cmd.account] = x]
    OBVIOUS
  <2>5. t \in Seq(CliAccounts) /\ DOMAIN t = DOMAIN srv.accounts /\ t[cmd.account] = x /\ \A a \in DOMAIN srv.accounts : a # cmd.account => t[a] = srv.accounts[a]
    BY <1>2, <2>1, <2>3, <2>4
  <2>6. srv' = [srv EXCEPT !.accounts = t]
    BY <1>2, <2>1, <2>2, <2>4 DEF Servers
  <2>7. srv' \in Servers /\ srv'.accounts = t
    BY <2>1, <2>5, <2>6 DEF Servers
  <2> QED
    BY <2>3, <2>5, <2>7 DEF SameKeys
<1>4. cmd' \in Cmds /\ cmd'.step = "unlink" /\ cmd'.kind = cmd.kind /\ cmd'.exit = "none"
  BY <1>1, <1>2, Goes DEF Rest, Steps, Leaving, Running
<1>5. KindInv'
  BY <1>1, <1>2, <1>4, KindKept DEF Leaving
<1>6. RecordInv'
  BY <1>1, <1>2, RecordsAlone DEF Solving
<1>7. Alone
  BY <1>2, <1>3 DEF Alone
<1> QED
  BY <1>1, <1>2, <1>3, <1>4, <1>5, <1>6, <1>7, Moves DEF Plain, CliTypes

LEMMA RemoveKept == ASSUME CliInv, RemoveSidecar PROVE CliInv'
<1>1. CliTypes /\ KindInv /\ AccountInv /\ CertInv /\ RecordInv
  BY DEF CliInv
<1>2. cmd.step = "unlink" /\ UNCHANGED <<srv, records, keys, commands, abandoned>> /\ disk' = [disk EXCEPT !.sidecar = Absent] /\ Exit("ok")
  BY DEF RemoveSidecar
<1>3. disk \in Disks /\ cmd.kind = "deregister"
  BY <1>1, <1>2 DEF CliTypes, KindInv, Leaving
<1>4. cmd' \in Cmds /\ cmd'.step = "idle" /\ cmd'.kind = cmd.kind
  BY <1>1, <1>2, Ends DEF Rest, Exits
<1>5. /\ disk' \in Disks /\ disk'.akey = disk.akey /\ disk'.newKey = disk.newKey /\ disk'.sidecar = 0 /\ disk'.cert = disk.cert
      /\ disk'.certKey = disk.certKey /\ disk'.renewal = disk.renewal
  BY <1>2, <1>3 DEF Disks, Absent
<1>6. AccountInv'
  BY <1>1, <1>2, <1>3, <1>4, <1>5 DEF AccountInv, KeyOf, Changing
<1>7. KindInv'
  BY <1>1, <1>4, KindKept
<1> QED
  BY <1>1, <1>2, <1>3, <1>4, <1>5, <1>6, <1>7, AccountSteps DEF Solving, CliTypes

-----------------------------------------------------------------------------
(* The import.                                                               *)
LEMMA ImportKeyKept == ASSUME CliInv, ImportKey PROVE CliInv'
<1>1. CliTypes /\ KindInv /\ AccountInv /\ CertInv /\ RecordInv
  BY DEF CliInv
<1>2. cmd.step = "key" /\ cmd.kind = "import" /\ UNCHANGED <<records, commands, abandoned>>
  BY DEF ImportKey
<1>3. CASE disk.akey # Absent \/ keys = MaxKeys
  <2>1. Exit("failed") /\ UNCHANGED <<disk, keys, srv>>
    BY <1>3 DEF ImportKey
  <2> QED
    BY <1>2, <2>1, FailsEarly DEF Solving
<1>4. CASE ~(disk.akey # Absent \/ keys = MaxKeys)
  <2> DEFINE new == [key |-> NewKey, active |-> TRUE]
  <2>1. /\ disk.akey = 0 /\ keys' = NewKey /\ srv' = [srv EXCEPT !.accounts = Append(srv.accounts, new)]
        /\ disk' = [disk EXCEPT !.akey = NewKey] /\ cmd' = [cmd EXCEPT !.account = Len(srv.accounts) + 1, !.step = "importUrl"]
    BY <1>4 DEF ImportKey, Absent
  <2>2. PICK k \in Nat : k = NewKey /\ k > 0
    BY <1>1 DEF NewKey, CliTypes
  <2>3. new \in CliAccounts /\ new.key = k /\ srv.accounts \in Seq(CliAccounts) /\ srv \in Servers /\ disk \in Disks /\ cmd \in Cmds /\ cmd.exit = "none"
    BY <1>1, <1>2, <2>2, Fields DEF CliAccounts, CliTypes, KindInv
  <2> HIDE DEF new
  <2>4. srv' \in Servers /\ srv'.accounts = Append(srv.accounts, new)
    <3>1. Append(srv.accounts, new) \in Seq(CliAccounts)
      BY <2>3
    <3> QED
      BY <2>1, <2>3, <3>1 DEF Servers
  <2>5. PICK n \in Nat : n = Len(srv.accounts)
    BY <2>3
  <2>6. DOMAIN srv.accounts = 1 .. n /\ DOMAIN srv'.accounts = 1 .. n + 1 /\ srv'.accounts[n + 1] = new
    BY <2>3, <2>4, <2>5
  <2>7. \A b \in 1 .. n : srv'.accounts[b] = srv.accounts[b]
    BY <2>3, <2>4, <2>5
  <2>8. /\ disk' \in Disks /\ disk'.akey = k /\ disk'.newKey = disk.newKey /\ disk'.sidecar = disk.sidecar /\ disk'.cert = disk.cert
        /\ disk'.certKey = disk.certKey /\ disk'.renewal = disk.renewal
    BY <2>1, <2>2, <2>3 DEF Disks
  <2>9. cmd' \in Cmds /\ cmd'.step = "importUrl" /\ cmd'.kind = cmd.kind /\ cmd'.exit = "none" /\ cmd'.account = n + 1
    <3>1. PICK a \in Int : a = n + 1
      OBVIOUS
    <3>2. cmd' = [cmd EXCEPT !.account = a, !.step = "importUrl"]
      BY <2>1, <2>5, <3>1
    <3> QED
      BY <2>3, <3>1, <3>2 DEF Cmds, Steps, Importing
  <2>10. AccountInv'
    <3>1. \A b \in 1 .. n + 1 : srv'.accounts[b].key > 0
      BY <1>1, <2>2, <2>3, <2>6, <2>7 DEF AccountInv, KeyOf
    <3>2. disk.sidecar > 0 => disk.sidecar \in 1 .. n /\ srv'.accounts[disk.sidecar].key = disk.newKey
      BY <1>1, <2>1, <2>6, <2>7 DEF AccountInv, KeyOf
    <3> QED
      BY <2>3, <2>6, <2>8, <2>9, <3>1, <3>2 DEF AccountInv, KeyOf, Changing
  <2>11. KindInv'
    BY <1>2, <2>9 DEF KindInv, Issuing, Naming, Changing, Leaving, Importing
  <2> QED
    BY <1>2, <2>1, <2>2, <2>4, <2>8, <2>9, <2>10, <2>11, AccountSteps DEF Solving
<1> QED
  BY <1>3, <1>4

LEMMA ImportUrlKept == ASSUME CliInv, ImportUrl PROVE CliInv'
<1>1. CliTypes /\ KindInv /\ AccountInv /\ CertInv /\ RecordInv
  BY DEF CliInv
<1>2. cmd.step = "importUrl" /\ UNCHANGED <<keys, srv, records, commands, abandoned>> /\ disk' = [disk EXCEPT !.sidecar = cmd.account] /\ Go("importChain")
  BY DEF ImportUrl
<1>3. disk \in Disks /\ cmd.account \in Int /\ cmd.account \in DOMAIN srv.accounts /\ KeyOf(cmd.account) = disk.akey
  BY <1>1, <1>2, Fields DEF CliTypes, AccountInv
<1>4. cmd' \in Cmds /\ cmd'.step = "importChain" /\ cmd'.kind = cmd.kind /\ cmd'.exit = "none"
  BY <1>1, <1>2, Goes DEF Rest, Steps, Importing, Running
<1>5. /\ disk' \in Disks /\ disk'.akey = disk.akey /\ disk'.newKey = disk.newKey /\ disk'.sidecar = cmd.account /\ disk'.cert = disk.cert
      /\ disk'.certKey = disk.certKey /\ disk'.renewal = disk.renewal
  BY <1>2, <1>3 DEF Disks
<1>6. AccountInv'
  BY <1>1, <1>2, <1>3, <1>4, <1>5 DEF AccountInv, KeyOf, Changing
<1>7. KindInv'
  BY <1>1, <1>2, <1>4, KindKept DEF Importing
<1> QED
  BY <1>1, <1>2, <1>4, <1>5, <1>6, <1>7, AccountSteps DEF Solving, CliTypes

LEMMA ImportChainKept == ASSUME CliInv, ImportChain PROVE CliInv'
<1>1. CliTypes /\ KindInv /\ AccountInv /\ CertInv /\ RecordInv
  BY DEF CliInv
<1> DEFINE c == [key |-> NewKey, names |-> CliNames \ Wildcards, from |-> "certbot"]
<1>2. cmd.step = "importChain" /\ UNCHANGED <<srv, records, commands, abandoned>> /\ keys' = NewKey /\ disk' = [disk EXCEPT !.cert = c] /\ Go("importKey")
  BY DEF ImportChain
<1>3. disk \in Disks /\ NewKey \in Nat
  BY <1>1 DEF CliTypes, NewKey
<1>4. c \in Certs /\ c.from = "certbot"
  BY <1>3 DEF Certs
<1> HIDE DEF c
<1>5. cmd' \in Cmds /\ cmd'.step = "importKey" /\ cmd'.kind = cmd.kind /\ cmd'.exit = "none"
  BY <1>1, <1>2, Goes DEF Rest, Steps, Importing, Running
<1>6. disk' \in Disks /\ disk'.akey = disk.akey /\ disk'.newKey = disk.newKey /\ disk'.sidecar = disk.sidecar /\ disk'.cert = c
  BY <1>2, <1>3, <1>4 DEF Disks
<1>7. CertInv'
  BY <1>4, <1>5, <1>6 DEF CertInv, CertHasItsKey
<1>8. KindInv'
  BY <1>1, <1>2, <1>5, KindKept DEF Importing
<1> QED
  BY <1>1, <1>2, <1>3, <1>5, <1>6, <1>7, <1>8, CertSteps DEF Solving, Changing, SameKeys, CliTypes

LEMMA CopyKept == ASSUME CliInv, copy_private_file PROVE CliInv'
<1>1. CliTypes /\ KindInv /\ AccountInv /\ CertInv /\ RecordInv
  BY DEF CliInv
<1>2. cmd.step = "importKey" /\ UNCHANGED <<keys, srv, records, commands, abandoned>> /\ disk' = [disk EXCEPT !.certKey = disk.cert.key] /\ Go("importRenewal")
  BY DEF copy_private_file
<1>3. disk \in Disks /\ disk.cert.key \in Int /\ disk.cert.from = "certbot"
  BY <1>1, <1>2, Fields DEF CliTypes, CertInv
<1>4. cmd' \in Cmds /\ cmd'.step = "importRenewal" /\ cmd'.kind = cmd.kind /\ cmd'.exit = "none"
  BY <1>1, <1>2, Goes DEF Rest, Steps, Importing, Running
<1>5. disk' \in Disks /\ disk'.akey = disk.akey /\ disk'.newKey = disk.newKey /\ disk'.sidecar = disk.sidecar /\ disk'.cert = disk.cert
  BY <1>2, <1>3 DEF Disks
<1>6. CertInv'
  BY <1>3, <1>4, <1>5 DEF CertInv, CertHasItsKey
<1>7. KindInv'
  BY <1>1, <1>2, <1>4, KindKept DEF Importing
<1> QED
  BY <1>1, <1>2, <1>4, <1>5, <1>6, <1>7, CertSteps DEF Solving, Changing, SameKeys, CliTypes

LEMMA ImportRenewalKept == ASSUME CliInv, build_renewal_config PROVE CliInv'
<1>1. CliTypes /\ KindInv /\ AccountInv /\ CertInv /\ RecordInv
  BY DEF CliInv
<1> DEFINE r == [account |-> cmd.account, names |-> CliNames \ Wildcards, challenge |-> "http-01", delegation |-> FALSE]
<1>2. cmd.step = "importRenewal" /\ UNCHANGED <<keys, srv, records, commands, abandoned>> /\ disk' = [disk EXCEPT !.renewal = r] /\ Exit("ok")
  BY DEF build_renewal_config
<1>3. disk \in Disks /\ r \in Renewals /\ cmd.kind = "import"
  BY <1>1, <1>2, Fields DEF CliTypes, Renewals, KindInv, Importing, Challenges, ChallengeTypes
<1> HIDE DEF r
<1>4. cmd' \in Cmds /\ cmd'.step = "idle" /\ cmd'.kind = cmd.kind
  BY <1>1, <1>2, Ends DEF Rest, Exits
<1>5. /\ disk' \in Disks /\ disk'.akey = disk.akey /\ disk'.newKey = disk.newKey /\ disk'.sidecar = disk.sidecar /\ disk'.cert = disk.cert
      /\ disk'.certKey = disk.certKey
  BY <1>2, <1>3 DEF Disks
<1>6. CertInv'
  BY <1>1, <1>3, <1>4, <1>5 DEF CertInv, CertHasItsKey
<1>7. KindInv'
  BY <1>1, <1>4, KindKept
<1> QED
  BY <1>1, <1>2, <1>3, <1>4, <1>5, <1>6, <1>7, CertSteps DEF Solving, Changing, SameKeys, CliTypes

-----------------------------------------------------------------------------
(* What goes wrong.                                                          *)

(* A torn file is one that held nothing yet, whose contents another file has *)
(* too, or that the command was about to replace.                            *)
Tore(d) ==
    /\ d.akey = disk.akey \/ (d.akey = Torn /\ (disk.akey = Absent \/ cmd.step = "writeKey"))
    /\ d.sidecar = disk.sidecar \/ d.sidecar = Torn
    /\ d.newKey = disk.newKey \/ (d.newKey = Torn /\ disk.newKey = Absent)
    /\ d.certKey = disk.certKey \/ (d.certKey = Torn /\ (disk.certKey = Absent \/ cmd.step = "importKey"))
    /\ d.cert = disk.cert \/ d.cert.key = Torn
    /\ d.renewal = disk.renewal
LEMMA Interruptions == ASSUME CliTypes PROVE Interrupted \in Disks /\ Tore(Interrupted)
<1>1. disk \in Disks /\ Torn \in Int
  BY DEF CliTypes, Torn
<1>2. Writing \in {"none", "cert", "akey", "sidecar", "newKey", "certKey"}
  BY DEF Writing
<1>3. Writing = "akey" => disk.akey = Absent \/ cmd.step = "writeKey"
  BY DEF Writing
<1>4. Writing = "certKey" => disk.certKey = Absent \/ cmd.step = "importKey"
  BY DEF Writing
<1>5. Writing = "newKey" => disk.newKey = Absent
  BY DEF Writing
<1>6. PICK w \in {"none", "cert", "akey", "sidecar", "newKey", "certKey"} : w = Writing
  BY <1>2
<1>7. CASE w = "none"
  <2>1. Interrupted = disk
    BY <1>6, <1>7 DEF Interrupted
  <2> QED
    BY <1>1, <2>1 DEF Tore
<1>8. CASE w = "cert"
  <2>1. PICK c : c = [NoCert EXCEPT !.key = Torn]
    OBVIOUS
  <2>2. c \in Certs /\ c.key = Torn
    BY <1>1, <2>1 DEF NoCert, Certs
  <2>3. Interrupted = [disk EXCEPT !.cert = c]
    BY <1>6, <1>8, <2>1 DEF Interrupted
  <2> QED
    BY <1>1, <2>2, <2>3 DEF Tore, Disks
<1>9. CASE w = "akey"
  <2>1. Interrupted = [disk EXCEPT !.akey = Torn]
    BY <1>6, <1>9 DEF Interrupted
  <2> QED
    BY <1>1, <1>3, <1>6, <1>9, <2>1 DEF Tore, Disks
<1>10. CASE w = "sidecar"
  <2>1. Interrupted = [disk EXCEPT !.sidecar = Torn]
    BY <1>6, <1>10 DEF Interrupted
  <2> QED
    BY <1>1, <2>1 DEF Tore, Disks
<1>11. CASE w = "newKey"
  <2>1. Interrupted = [disk EXCEPT !.newKey = Torn]
    BY <1>6, <1>11 DEF Interrupted
  <2> QED
    BY <1>1, <1>5, <1>6, <1>11, <2>1 DEF Tore, Disks
<1>12. CASE w = "certKey"
  <2>1. Interrupted = [disk EXCEPT !.certKey = Torn]
    BY <1>6, <1>12 DEF Interrupted
  <2> QED
    BY <1>1, <1>4, <1>6, <1>12, <2>1 DEF Tore, Disks
<1> QED
  BY <1>7, <1>8, <1>9, <1>10, <1>11, <1>12

LEMMA KillKept == ASSUME CliInv, Kill PROVE CliInv'
<1>1. CliTypes /\ KindInv /\ AccountInv /\ CertInv /\ RecordInv
  BY DEF CliInv
<1>2. Exit("killed") /\ UNCHANGED <<srv, records, keys, commands>> /\ abandoned' = abandoned \union LeftBehind /\ disk' \in {disk, Interrupted}
  BY DEF Kill
<1>3. disk' \in Disks /\ Tore(disk')
  BY <1>1, <1>2, Interruptions DEF CliTypes, Tore
<1>4. cmd' \in Cmds /\ cmd'.step = "idle" /\ cmd'.kind = cmd.kind /\ cmd'.exit = "killed"
  BY <1>1, <1>2, Ends DEF Rest, Exits
<1>5. RecordInv'
  BY <1>1, <1>2, <1>4 DEF RecordInv, Hooked, LeftBehind, Solving
<1>6. AccountInv'
  <2>1. disk'.sidecar > 0 => disk'.sidecar = disk.sidecar
    BY <1>3 DEF Tore, Torn
  <2>2. disk.sidecar > 0 => KeyOf(disk.sidecar) \in {disk'.akey, disk'.newKey}
    <3> SUFFICES ASSUME disk.sidecar > 0 PROVE KeyOf(disk.sidecar) \in {disk'.akey, disk'.newKey}
      OBVIOUS
    <3>1. PICK k \in Int : k = KeyOf(disk.sidecar) /\ k > 0 /\ k \in {disk.akey, disk.newKey}
      BY <1>1, Fields DEF AccountInv
    <3>2. cmd.step = "writeKey" => k = disk.newKey
      BY <1>1, <3>1 DEF AccountInv
    <3> QED
      BY <1>3, <3>1, <3>2 DEF Tore, Absent
  <2> QED
    BY <1>1, <1>2, <1>4, <2>1, <2>2 DEF AccountInv, KeyOf, Changing
<1>7. CertInv'
  <2>1. CertHasItsKey'
    <3>1. PICK c \in Int : c = disk.cert.key
      BY <1>1, Fields
    <3>2. CASE disk'.cert = disk.cert
      BY <1>1, <1>3, <3>1, <3>2 DEF CertInv, CertHasItsKey, Tore, Absent
    <3>3. CASE disk'.cert.key = Torn
      BY <3>3 DEF CertHasItsKey, Torn
    <3> QED
      BY <1>3, <3>2, <3>3 DEF Tore
  <2> QED
    BY <1>4, <2>1 DEF CertInv
<1>8. KindInv'
  BY <1>1, <1>4, KindKept
<1> QED
  BY <1>1, <1>2, <1>3, <1>4, <1>5, <1>6, <1>7, <1>8 DEF CliInv, CliTypes

LEMMA RefusedKept == ASSUME CliInv, Refused \/ LostRequest PROVE CliInv'
<1>1. Exit("failed") /\ UNCHANGED <<disk, srv, records, keys, commands>> /\ abandoned' = abandoned \union LeftBehind
  BY DEF Refused, LostRequest
<1> QED
  BY <1>1, FailsNow

LEMMA LostAnswerKept == ASSUME CliInv, LostAnswer PROVE CliInv'
<1>1. CliTypes /\ KindInv /\ AccountInv /\ CertInv /\ RecordInv
  BY DEF CliInv
<1>2. cmd.step \in {"changeKey", "finalize"} /\ Exit("failed") /\ UNCHANGED <<disk, records, keys, commands, abandoned>>
  BY DEF LostAnswer
<1>3. cmd' \in Cmds /\ cmd'.step = "idle" /\ cmd'.kind = cmd.kind /\ cmd'.exit = "failed"
  BY <1>1, <1>2, Ends DEF Rest, Exits
<1>4. KindInv'
  BY <1>1, <1>3, KindKept
<1>5. CASE cmd.step = "finalize"
  <2>1. srv' = [srv EXCEPT !.order.csr = disk.certKey, !.order.key = disk.certKey] /\ disk.certKey \in Int
    BY <1>1, <1>5, Fields DEF LostAnswer
  <2>2. srv' \in Servers /\ srv'.accounts = srv.accounts
    BY <1>1, <2>1, OrderIssued
  <2>3. CertInv'
    BY <1>1, <1>2, <1>3, CertsAlone
  <2> QED
    BY <1>1, <1>2, <1>3, <1>4, <1>5, <2>2, <2>3, CertSteps DEF Solving, Changing, SameKeys, CliTypes
<1>6. CASE cmd.step = "changeKey"
  <2>1. srv' = [srv EXCEPT !.accounts[cmd.account].key = cmd.cert.key]
    BY <1>6 DEF LostAnswer
  <2>2. /\ srv' \in Servers /\ DOMAIN srv'.accounts = DOMAIN srv.accounts /\ \A a \in DOMAIN srv'.accounts : srv'.accounts[a].key > 0
        /\ disk.sidecar \in DOMAIN srv.accounts /\ srv'.accounts[disk.sidecar].key = disk.newKey
    BY <1>1, <1>6, <2>1, LoadedKept
  <2>3. AccountInv'
    BY <1>2, <1>3, <2>2 DEF AccountInv, KeyOf, Changing
  <2> QED
    BY <1>1, <1>2, <1>3, <1>4, <1>6, <2>2, <2>3, AccountSteps DEF Solving, CliTypes
<1> QED
  BY <1>2, <1>5, <1>6

LEMMA ValidateKept == ASSUME CliInv, NEW n \in CliNames, Validate(n) PROVE CliInv'
<1>1. CliTypes /\ KindInv /\ AccountInv /\ CertInv /\ RecordInv
  BY DEF CliInv
<1>2. UNCHANGED <<disk, cmd, records, keys, commands, abandoned>> /\ n \in DOMAIN srv.order.authz
  BY DEF Validate
<1>3. srv' \in Servers /\ srv'.accounts = srv.accounts /\ srv'.order.csr = srv.order.csr /\ srv'.order.key = srv.order.key
  <2>1. PICK v \in {"valid", "invalid"} : srv' = [srv EXCEPT !.order.authz[n] = v]
    BY DEF Validate
  <2>2. PICK f : f = [srv.order.authz EXCEPT ![n] = v]
    OBVIOUS
  <2>3. f \in Authzs
    <3>1. PICK s \in SUBSET CliNames : srv.order.authz \in [s -> {"pending", "processing", "valid", "invalid"}]
      BY <1>1, Fields DEF Authzs
    <3>2. f \in [s -> {"pending", "processing", "valid", "invalid"}]
      BY <2>2, <3>1
    <3> QED
      BY <3>2 DEF Authzs
  <2>4. srv \in Servers /\ srv.order \in Orders
    BY <1>1, Fields DEF CliTypes
  <2>5. srv' = [srv EXCEPT !.order.authz = f]
    BY <2>1, <2>2, <2>4 DEF Servers, Orders
  <2> QED
    BY <1>1, <2>3, <2>5, AuthzChanges
<1>4. AccountInv'
  BY <1>1, <1>2, <1>3, AccountsAlone DEF SameKeys
<1>5. CertInv'
  BY <1>1, <1>2, <1>3, CertsAlone
<1>6. RecordInv' /\ KindInv'
  BY <1>1, <1>2 DEF RecordInv, Hooked, OfOrder, KindInv
<1> QED
  BY <1>1, <1>2, <1>3, <1>4, <1>5, <1>6 DEF CliInv, CliTypes

LEMMA UpstreamKept == ASSUME CliInv, UpstreamIssues PROVE CliInv'
<1>1. CliTypes /\ KindInv /\ AccountInv /\ CertInv /\ RecordInv
  BY DEF CliInv
<1>2. UNCHANGED <<disk, cmd, records, keys, commands, abandoned>> /\ srv.order.key = 0 /\ srv' = [srv EXCEPT !.order.key = srv.order.csr]
  BY DEF UpstreamIssues
<1>3. srv' \in Servers /\ srv'.accounts = srv.accounts /\ srv'.order.csr = srv.order.csr /\ srv'.order.key = srv.order.csr
  <2>1. srv \in Servers /\ srv.order \in Orders /\ srv.order.csr \in Int
    BY <1>1, Fields DEF CliTypes
  <2>2. PICK o : o = [srv.order EXCEPT !.key = srv.order.csr]
    OBVIOUS
  <2>3. o \in Orders /\ o.csr = srv.order.csr /\ o.key = srv.order.csr
    BY <2>1, <2>2 DEF Orders
  <2>4. srv' = [srv EXCEPT !.order = o]
    BY <1>2, <2>1, <2>2 DEF Servers
  <2> QED
    BY <2>1, <2>3, <2>4 DEF Servers
<1>4. AccountInv'
  BY <1>1, <1>2, <1>3, AccountsAlone DEF SameKeys
<1>5. CertInv'
  <2>1. Ordered' = Ordered
    BY <1>2 DEF Ordered
  <2>2. CertHasItsKey'
    BY <1>1, <1>2 DEF CertInv, CertHasItsKey
  <2>3. cmd.step \notin {"download", "writeCert", "writeRenewal"} /\ ~(cmd.exit = "ok" /\ cmd.kind = "issue")
    BY <1>1, <1>2 DEF CertInv
  <2> QED
    BY <1>1, <1>2, <1>3, <2>1, <2>2, <2>3 DEF CertInv
<1>6. RecordInv' /\ KindInv'
  BY <1>1, <1>2 DEF RecordInv, Hooked, OfOrder, KindInv
<1> QED
  BY <1>1, <1>2, <1>3, <1>4, <1>5, <1>6 DEF CliInv, CliTypes

-----------------------------------------------------------------------------
LEMMA CliHolds == CliSpec => []CliInv
<1>1. CliInit => CliInv
  <2> SUFFICES ASSUME CliInit PROVE CliInv
    OBVIOUS
  <2>1. NoCert \in Certs /\ NoRenewal \in Renewals
    BY DEF NoCert, NoRenewal, Certs, Renewals, Challenges, Absent
  <2>2. disk \in Disks
    BY <2>1 DEF CliInit, Disks, Absent
  <2>3. cmd \in Cmds /\ cmd.step = "idle" /\ cmd.exit = "none"
    BY <2>1 DEF CliInit, Idle, Cmds, Kinds, Steps, Challenges, Exits
  <2>4. srv \in Servers /\ srv.accounts = <<>>
    <3>1. [n \in {} |-> "pending"] \in [{} -> {"pending", "processing", "valid", "invalid"}]
      OBVIOUS
    <3>2. [n \in {} |-> "pending"] \in Authzs
      BY <3>1 DEF Authzs
    <3>3. NoOrder \in Orders
      BY <3>2 DEF NoOrder, Orders, Challenges
    <3> QED
      BY <3>3 DEF CliInit, Servers
  <2>5. CliTypes
    BY <2>2, <2>3, <2>4 DEF CliTypes, CliInit
  <2>6. KindInv
    BY <2>3 DEF KindInv, Issuing, Naming, Changing, Leaving, Importing
  <2>7. AccountInv
    BY <2>3, <2>4 DEF AccountInv, CliInit, Absent, Changing
  <2>8. CertInv
    BY <2>3 DEF CertInv, CliInit, CertHasItsKey, NoCert, Absent
  <2>9. RecordInv
    BY DEF RecordInv, Hooked, CliInit
  <2> QED
    BY <2>5, <2>6, <2>7, <2>8, <2>9 DEF CliInv
<1>2. CliInv /\ [CliNext]_cliVars => CliInv'
  <2> SUFFICES ASSUME CliInv, [CliNext]_cliVars PROVE CliInv'
    OBVIOUS
  <2>1. CASE UNCHANGED cliVars
    <3>1. UNCHANGED <<disk, cmd, srv, records, keys, commands, abandoned>>
      BY <2>1 DEF cliVars
    <3>2. CliTypes' /\ KindInv' /\ RecordInv'
      BY <3>1 DEF CliInv, CliTypes, KindInv, RecordInv, Hooked, OfOrder
    <3>3. AccountInv'
      BY <3>1, AccountsAlone DEF CliInv, SameKeys
    <3>4. CertInv'
      BY <3>1, CertsAlone DEF CliInv
    <3> QED
      BY <3>2, <3>3, <3>4 DEF CliInv
  <2>2. CASE CliStart
    BY <2>2, StartsKept
  <2>3. CASE CliStep
    <3>1. CASE LoadKey \/ UseAccount \/ new_account \/ save_account_url_for_ca
      BY <3>1, LoadKeyKept, UseAccountKept, NewAccountKept, SaveKept
    <3>2. CASE check_arguments \/ (\E v \in SUBSET CliNames : place_order(v)) \/ (\E n \in CliNames : present(n)) \/ trigger_challenge \/ Phase2
      BY <3>2, CheckKept, PlaceKept, PresentKept, TriggerKept
    <3>3. CASE poll_authorization \/ poll_order \/ cleanup \/ CertKey \/ finalize \/ download_certificate \/ WriteCert \/ WriteRenewal
      BY <3>3, PollKept, PollOrderKept, CleanupKept, CertKeyKept, FinalizeKept, DownloadKept, WriteCertKept, WriteRenewalKept
    <3>4. CASE LoadNewKey \/ key_change \/ WriteKey \/ deactivate_account \/ RemoveSidecar
      BY <3>4, LoadNewKept, KeyChangeKept, WriteKeyKept, DeactivateKept, RemoveKept
    <3>5. CASE ImportKey \/ ImportUrl \/ ImportChain \/ copy_private_file \/ build_renewal_config
      BY <3>5, ImportKeyKept, ImportUrlKept, ImportChainKept, CopyKept, ImportRenewalKept
    <3> QED
      BY <2>3, <3>1, <3>2, <3>3, <3>4, <3>5 DEF CliStep
  <2>4. CASE CliFault
    BY <2>4, KillKept, RefusedKept, LostAnswerKept DEF CliFault
  <2>5. CASE (\E n \in CliNames : Validate(n)) \/ UpstreamIssues
    BY <2>5, ValidateKept, UpstreamKept
  <2> QED
    BY <2>1, <2>2, <2>3, <2>4, <2>5 DEF CliNext
<1> QED
  BY <1>1, <1>2, PTL DEF CliSpec

LEMMA CliRight == CliInv => CertHasItsKey /\ AccountKeyKept /\ SuccessIsInstalled /\ ResponsesWithdrawn
<1> SUFFICES ASSUME CliInv PROVE CertHasItsKey /\ AccountKeyKept /\ SuccessIsInstalled /\ ResponsesWithdrawn
  OBVIOUS
<1>1. CertHasItsKey
  BY DEF CliInv, CertInv
<1>2. AccountKeyKept
  BY DEF CliInv, AccountInv, KeyOf, AccountKeyKept
<1>3. SuccessIsInstalled
  BY DEF CliInv, CertInv, AccountInv, KeyOf, Ordered, SuccessIsInstalled
<1>4. ResponsesWithdrawn
  BY DEF CliInv, RecordInv, Hooked, Solving, ResponsesWithdrawn
<1> QED
  BY <1>1, <1>2, <1>3, <1>4

-----------------------------------------------------------------------------
(* For any names, arguments, challenges and hooks, any number of commands,   *)
(* kills, refused requests and lost answers, any lifetime of a certificate,  *)
(* any sizes of the numbers in a key or a signature and every day from 1970  *)
(* to the last year modelled, the client's installation fits together:       *)
(* CertHasItsKey, AccountKeyKept, SuccessIsInstalled, ResponsesWithdrawn     *)
(* (akamu-cli), RenewedInTime and DatesAgree (the timer and the three date   *)
(* conversions), SignaturesVerify and ThumbprintsAgree (akamu-jose).         *)
THEOREM InstallationKeeps == CliSpec /\ RenewalSpec /\ JwsSpec => []InstallationHolds
<1>1. CliInv /\ RenewalInv /\ JwsInv => InstallationHolds
  BY CliRight, InTime, DatesRight, JwsRight DEF RenewalInv, InstallationHolds
<1> QED
  BY <1>1, CliHolds, RenewalHolds, JwsHolds, PTL
=============================================================================
