---------------------------- MODULE OrderPromise ----------------------------
(***************************************************************************)
(* What CreateOrder promises about an idempotency key, whatever fails: the *)
(* key belongs to the first request stored under it, money is taken for it *)
(* at most once and given back at most once, and whoever is told "ok" got  *)
(* an order that is paid, has a driver, and is never refunded afterwards.  *)
(* It says nothing of orders, statements, retries or crashes.              *)
(***************************************************************************)
EXTENDS Naturals

CONSTANTS Calls, Keys, Payloads, None

VARIABLES
  asked,   \* asked[c]: the request call c made
  owner,   \* owner[k]: the payload key k is bound to
  charges, \* charges[k]: how often money was taken for k
  refunds, \* refunds[k]: how often it was given back
  driven,  \* keys whose order has a driver
  oks      \* calls that were told their order succeeded

vars == <<asked, owner, charges, refunds, driven, oks>>

Request == [key : Keys, payload : Payloads]

Init ==
  /\ asked = [c \in Calls |-> None]
  /\ owner = [k \in Keys |-> None]
  /\ charges = [k \in Keys |-> 0]
  /\ refunds = [k \in Keys |-> 0]
  /\ driven = {}
  /\ oks = {}

Ask(c, r) ==
  /\ asked[c] = None
  /\ asked' = [asked EXCEPT ![c] = r]
  /\ UNCHANGED <<owner, charges, refunds, driven, oks>>

\* A key is bound once, to the payload of a call that asked for it.
Bind(c) ==
  /\ asked[c] # None
  /\ owner[asked[c].key] = None
  /\ owner' = [owner EXCEPT ![asked[c].key] = asked[c].payload]
  /\ UNCHANGED <<asked, charges, refunds, driven, oks>>

Charge(k) ==
  /\ owner[k] # None
  /\ charges[k] = 0
  /\ charges' = [charges EXCEPT ![k] = 1]
  /\ UNCHANGED <<asked, owner, refunds, driven, oks>>

\* Only an order nobody was told succeeded is paid back.
Refund(k) ==
  /\ refunds[k] < charges[k]
  /\ \A c \in oks : asked[c].key # k
  /\ refunds' = [refunds EXCEPT ![k] = @ + 1]
  /\ UNCHANGED <<asked, owner, charges, driven, oks>>

\* A driver is only ever sent out for money that was taken.
Drive(k) ==
  /\ charges[k] = 1
  /\ driven' = driven \cup {k}
  /\ UNCHANGED <<asked, owner, charges, refunds, oks>>

TellOk(c) ==
  /\ asked[c] # None
  /\ owner[asked[c].key] = asked[c].payload
  /\ charges[asked[c].key] = 1 /\ refunds[asked[c].key] = 0
  /\ asked[c].key \in driven
  /\ oks' = oks \cup {c}
  /\ UNCHANGED <<asked, owner, charges, refunds, driven>>

Next ==
  \/ \E c \in Calls : Bind(c) \/ TellOk(c) \/ \E r \in Request : Ask(c, r)
  \/ \E k \in Keys : Charge(k) \/ Refund(k) \/ Drive(k)

Spec == Init /\ [][Next]_vars
=============================================================================
