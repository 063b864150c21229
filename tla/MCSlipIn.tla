------------------------------ MODULE MCSlipIn ------------------------------
(* One device: messages with and without escaped bytes, a damaged one with  *)
(* sound ones behind it and one that is too large.                          *)
EXTENDS SlipIn

CONSTANT d1

Sent(escaped, ok) == [text |-> FALSE, ok |-> ok, escaped |-> escaped]
Debug(escaped)    == [text |-> TRUE, ok |-> TRUE, escaped |-> escaped]

MCTraffic ==
  [d \in {d1} |-> << Sent(<<FALSE, TRUE>>, TRUE), Sent(<<FALSE>>, FALSE),
                     Sent(<<FALSE, FALSE, FALSE, TRUE>>, TRUE), Debug(<<TRUE, FALSE>>) >>]
=============================================================================
