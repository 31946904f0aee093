-------------------------------- MODULE Star --------------------------------
(***************************************************************************)
(* Short-term automatically renewed certificates, RFC 8739 (src/src/star.rs*)
(* and the auto-renewal parts of routes/order.rs, routes/star_cert.rs and  *)
(* db/orders.rs).  One renewal task polls the active orders and re-issues; *)
(* it lists them once, then signs and persists one order after another     *)
(* while subscribers cancel.                                               *)
(***************************************************************************)
EXTENDS Integers, Sequences

CONSTANTS
    StarOrders,   \* orders with auto-renewal
    StarTerms,    \* requested terms: lifetime, adjust, end, get
    FirstWindow,  \* validity periods of the certificate finalize issues
    StarMinLife,  \* star_min_lifetime_secs
    StarMaxSpan,  \* star_max_duration_secs
    MaxLag,       \* bound: time between two rounds of the renewal task
    MaxStarTime   \* bound: the clock

ASSUME StarAssumption ==
    /\ {StarMinLife, StarMaxSpan, MaxLag, MaxStarTime} \subseteq Nat /\ MaxLag > 0
    /\ FirstWindow \subseteq Nat
    /\ \A t \in StarTerms : t.lifetime \in Nat /\ t.adjust \in Int /\ t.end \in Nat

VARIABLES
    sclock,     \* unix_now
    sorder,     \* the order rows: terms and star_canceled_at
    scerts,     \* the certificates of each order, in the order they were created
    round,      \* the renewal task: the rows it listed, its clock, what it signed
    lastRound,  \* when the last round began
    unlucky     \* ghost: orders with a round that failed or was cut short

starVars == <<sclock, sorder, scerts, round, lastRound, unlucky>>

NoOrder == [placed |-> FALSE]
IdleRound == [pc |-> "idle"]

StarInit ==
    /\ sclock = 0 /\ lastRound = 0 /\ unlucky = {}
    /\ sorder = [o \in StarOrders |-> NoOrder]
    /\ scerts = [o \in StarOrders |-> <<>>]
    /\ round = IdleRound

-----------------------------------------------------------------------------
(* The auto-renewal object of a new order: the end date is compared with   *)
(* the clock only through the longest span, the adjustment with nothing.   *)
ParseAutoRenewal(t) ==
    /\ t.lifetime # 0 /\ t.lifetime >= StarMinLife
    /\ (IF t.end > sclock THEN t.end - sclock ELSE 0) <= StarMaxSpan

(* The order is placed and finalized; finalize issues with the profile's   *)
(* validity, whatever the terms.                                           *)
NewStarOrder(o, t, w) ==
    /\ ~sorder[o].placed /\ ParseAutoRenewal(t)
    /\ sorder' = [sorder EXCEPT ![o] = [placed |-> TRUE, terms |-> t, canceled |-> FALSE]]
    /\ scerts' = [scerts EXCEPT ![o] = <<[nb |-> sclock, na |-> sclock + w]>>]
    /\ UNCHANGED <<sclock, round, lastRound, unlucky>>

(* POST to the order with status canceled.                                 *)
cancel_star(o) ==
    /\ sorder[o].placed /\ ~sorder[o].canceled
    /\ sorder' = [sorder EXCEPT ![o].canceled = TRUE]
    /\ UNCHANGED <<sclock, scerts, round, lastRound, unlucky>>

-----------------------------------------------------------------------------
list_active_star == {o \in StarOrders : sorder[o].placed /\ ~sorder[o].canceled}
get_latest_for_order(o) == scerts[o][Len(scerts[o])]

(* A round begins: the rows are listed and the clock is read once.         *)
BeginRound ==
    /\ round.pc = "idle" /\ sclock > lastRound
    /\ round' = [pc |-> "next", todo |-> list_active_star, now |-> sclock, rows |-> sorder]
    /\ lastRound' = sclock
    /\ UNCHANGED <<sclock, sorder, scerts, unlucky>>

(* Renewal is due from half a lifetime before the latest certificate ends. *)
(* Mutant: only when it has ended.                                         *)
MutDue(o, now, t) == now < t.end /\ now >= get_latest_for_order(o).na
Due(o, now, t) ==
    /\ now < t.end
    /\ now >= get_latest_for_order(o).na - t.lifetime \div 2

(* The next certificate starts now, or the adjustment before the end of    *)
(* the previous one, and never ends after the order.                       *)
RenewalWindow(o, now, t) ==
    LET nb == IF t.adjust > 0 THEN get_latest_for_order(o).na - t.adjust ELSE now
    IN  [nb |-> nb, na |-> IF nb + t.lifetime < t.end THEN nb + t.lifetime ELSE t.end]

(* One listed order: skipped, failed, or signed.                           *)
RenewOne(o, ok) ==
    /\ round.pc = "next" /\ o \in round.todo
    /\ LET t == round.rows[o].terms
           rest == [round EXCEPT !.todo = @ \ {o}]
       IN  IF Due(o, round.now, t) /\ ok
           THEN /\ round' = [pc |-> "persist", todo |-> rest.todo, now |-> round.now,
                             rows |-> round.rows, order |-> o,
                             cert |-> RenewalWindow(o, round.now, t)]
                /\ UNCHANGED unlucky
           ELSE /\ round' = rest
                /\ ok \/ Due(o, round.now, t)
                /\ unlucky' = IF ok THEN unlucky ELSE unlucky \union {o}
    /\ UNCHANGED <<sclock, sorder, scerts, lastRound>>

(* update_star_certificate: the row may have been canceled since it was    *)
(* listed; then the transaction is rolled back, the certificate with it.   *)
StillActive(o) == sorder[o].placed /\ ~sorder[o].canceled

PersistRenewal(ok) ==
    /\ round.pc = "persist"
    /\ LET o == round.order IN
       /\ scerts' = IF ok /\ StillActive(o)
                    THEN [scerts EXCEPT ![o] = Append(@, round.cert)] ELSE scerts
       /\ unlucky' = IF ok THEN unlucky ELSE unlucky \union {o}
    /\ round' = [pc |-> "next", todo |-> round.todo, now |-> round.now, rows |-> round.rows]
    /\ UNCHANGED <<sclock, sorder, lastRound>>

EndRound ==
    /\ round.pc = "next" /\ round.todo = {} /\ round' = IdleRound
    /\ UNCHANGED <<sclock, sorder, scerts, lastRound, unlucky>>

(* A restart cuts a round short.                                           *)
StarCrash ==
    /\ round.pc # "idle" /\ round' = IdleRound
    /\ unlucky' = unlucky \union round.todo \union
                     (IF round.pc = "persist" THEN {round.order} ELSE {})
    /\ UNCHANGED <<sclock, sorder, scerts, lastRound>>

(* A round that is due, and its work, take less than MaxLag.               *)
StarTick ==
    /\ sclock < MaxStarTime /\ sclock - lastRound < MaxLag
    /\ round.pc # "idle" => sclock + 1 - round.now < MaxLag
    /\ sclock' = sclock + 1
    /\ UNCHANGED <<sorder, scerts, round, lastRound, unlucky>>

StarNext ==
    \/ \E o \in StarOrders, t \in StarTerms, w \in FirstWindow : NewStarOrder(o, t, w)
    \/ \E o \in StarOrders : cancel_star(o)
    \/ BeginRound \/ EndRound
    \/ \E o \in StarOrders, ok \in BOOLEAN : RenewOne(o, ok)
    \/ \E ok \in BOOLEAN : PersistRenewal(ok)
    \/ StarCrash \/ StarTick
StarSpec == StarInit /\ [][StarNext]_starVars

-----------------------------------------------------------------------------
(* star_cert_get and star_cert_post: what the certificate URL answers.     *)
star_cert_get(o) == sorder[o].placed /\ sorder[o].terms.get
serve_star_cert(o) ==
    IF sorder[o].canceled THEN "autoRenewalCanceled"
    ELSE IF sclock >= sorder[o].terms.end THEN "ended" ELSE "certificate"

Valid(c) == c.nb <= sclock /\ sclock < c.na

(* No renewal outlives the order's end date (run_once); the certificate    *)
(* finalize issued may.                                                    *)
RenewalsEndInTime ==
    \A o \in StarOrders : \A i \in 2..Len(scerts[o]) : scerts[o][i].na <= sorder[o].terms.end

(* Without an adjustment, while rounds begin and end early enough within   *)
(* half a lifetime and none has failed, the certificate URL answers with a *)
(* certificate that is valid now, whatever validity finalize gave the      *)
(* first one (serve_star_cert, run_once).                                  *)
StarUnbroken ==
    \A o \in StarOrders \ unlucky :
        /\ sorder[o].placed /\ serve_star_cert(o) = "certificate"
        /\ sorder[o].terms.adjust <= 0
        /\ \A w \in FirstWindow : w >= 2 * MaxLag
        /\ sorder[o].terms.lifetime \div 2 > 2 * MaxLag - 2
        => Valid(get_latest_for_order(o))

(* Renewals follow each other without a gap and stop in time.              *)
RenewalsInTerm == RenewalsEndInTime /\ StarUnbroken
=============================================================================
