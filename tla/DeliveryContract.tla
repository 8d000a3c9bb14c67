--------------------------- MODULE DeliveryContract ---------------------------
(***************************************************************************)
(* What the payment service promises about an order, whatever its handlers *)
(* do: goods are delivered only for an order that the gateway was paid for *)
(* in full, and no order is delivered twice.                               *)
(***************************************************************************)
EXTENDS Naturals

CONSTANT Orders

VARIABLES paid,       \* the orders paid for
          delivered   \* how often each order was delivered

vars == <<paid, delivered>>

Init == /\ paid = {}
        /\ delivered = [o \in Orders |-> 0]

Pay(o) == /\ o \notin paid
          /\ paid' = paid \cup {o}
          /\ UNCHANGED delivered

Deliver(o) == /\ o \in paid
              /\ delivered[o] = 0
              /\ delivered' = [delivered EXCEPT ![o] = 1]
              /\ UNCHANGED paid

Next == \E o \in Orders : Pay(o) \/ Deliver(o)

Spec == Init /\ [][Next]_vars
===============================================================================
