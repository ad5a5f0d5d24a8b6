-------------------------- MODULE OrderRefinement --------------------------
(***************************************************************************)
(* OrderService keeps the promise of OrderPromise: the row of a key in     *)
(* order_sagas says who owns it, and the payments and assignments of all   *)
(* orders asked for under the key count, the owner's or not.               *)
(***************************************************************************)
EXTENDS OrderService

OrderOf(k)  == CHOOSE o \in Calls : HasRow(o) /\ sagas[o].key = k
OrdersOf(k) == {o \in Calls : req[o] # None /\ req[o].key = k}

\* The payload a key is bound to is the one in its row.
Owner == [k \in Keys |-> IF KeyTaken(k) THEN sagas[OrderOf(k)].payload ELSE None]

Charges == [k \in Keys |-> Cardinality({o \in OrdersOf(k) : payments[o] # "none"})]
Refunds == [k \in Keys |-> Cardinality({o \in OrdersOf(k) : payments[o] = "refunded"})]

Driven == {k \in Keys : \E o \in OrdersOf(k) : assignments[o] # None}
Oks    == {c \in Calls : reply[c].code = "ok"}

Promise == INSTANCE OrderPromise WITH
  asked <- req, owner <- Owner, charges <- Charges, refunds <- Refunds,
  driven <- Driven, oks <- Oks

\* Every step CreateOrder, its retries, its crashes or Postgres take is a
\* step of the promise, or changes nothing the promise speaks of
\* (order.go:63-111 with saga_store.go, postgres_payment.go, driver_store.go).
KeepsPromise == Promise!Spec
=============================================================================
