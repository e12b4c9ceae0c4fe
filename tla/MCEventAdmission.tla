--------------------------- MODULE MCEventAdmission ---------------------------
(* Values of the constants of EventAdmission for TLC. *)
EXTENDS EventAdmission

\* Two subscribers of one plain event, and a chain of three events that
\* would come back to the first.
MCEventOf == <<"plain", "plain", "order", "stock", "last">>
MCEmitsOf == <<"none", "none", "stock", "last", "order">>

Delivery(n, e, p, c) == [id |-> n, event |-> e, payload |-> p, channel |-> c]

\* An identity that arrives with two payloads; the start of the chain; a
\* callback that its provider delivers again.
MCDeliverySets ==
  {{Delivery(1, "plain", 1, "event"), Delivery(1, "plain", 2, "event")},
   {Delivery(1, "order", 1, "event")},
   {Delivery(1, "plain", 1, "whatsapp")}}

MCRedelivery == {{Delivery(1, "plain", 1, "whatsapp")}}
===============================================================================
