-------------------------- MODULE OpenRouterMeter --------------------------
(***************************************************************************)
(* The loopback proxy that meters one engine call routed through           *)
(* OpenRouter.  Every request the agent sends costs one unit; the provider *)
(* names it in a receipt, and the receipts are added up when the agent has *)
(* exited.  A proxy is a record, its events are operators on it.           *)
(***************************************************************************)
EXTENDS Naturals

CONSTANT MaxRequests   \* requests an agent makes in one call

ASSUME RequestsAssumption == MaxRequests \in Nat \ {0}

\* active: forwarded and not answered; receipts: answered with a generation id
\* of its own; blind: answered, or failed, without one.
Proxy == [active: 0..MaxRequests, receipts: 0..MaxRequests, blind: 0..MaxRequests,
          anomaly: BOOLEAN]

NewProxy == [active |-> 0, receipts |-> 0, blind |-> 0, anomaly |-> FALSE]

\* Every forwarded request is on record before the provider sees it.
Sent(x) == x.active + x.receipts + x.blind

Forwarded(x) == [x EXCEPT !.active = @ + 1]

\* Wrong path, unknown capability, a model that is not on the list.
Refused(x) == [x EXCEPT !.anomaly = TRUE]

\* forwardResponse: the answer reaches the agent whole, or either end cuts it short.
Relayed(x) == {x, [x EXCEPT !.anomaly = TRUE]}

\* The answer to an active request: a receipt of its own; no receipt, or one seen
\* before; no answer at all.
Answers(x) ==
  LET y == [x EXCEPT !.active = @ - 1] IN
  Relayed([y EXCEPT !.receipts = @ + 1]) \cup {[y EXCEPT !.blind = @ + 1, !.anomaly = TRUE]}

\* closeServer: in the grace period, or by destroying what is left.
Closed(x) == {x, [x EXCEPT !.anomaly = TRUE]}

\* lookupReceiptWithRetry: how many receipts can be had; the provider may still be
\* without some when the attempts run out.
Reconciled(x) == 0..x.receipts

\* finalize(), when `found` of the receipts could be looked up: what is known of
\* the call's cost, and whether that is all of it.
Accounting(x, found) ==
  [known |-> found,
   exact |-> ~x.anomaly /\ x.active = 0 /\ x.blind = 0 /\ found = x.receipts]
====
