------------------------- MODULE MCSqliteEventLedger -------------------------
(***************************************************************************)
(* Two processes share a database file and one decision.  Content has a    *)
(* plain event, a batch that writes one stream twice, and a batch whose    *)
(* second event is rejected by validation.                                 *)
(***************************************************************************)
EXTENDS SqliteEventLedger

CONSTANTS c1, c2, d1

MCClient == {c1, c2}
MCDecision == {d1}
MCStream == {"s", "t", "bad"}
MCMalformed == {"bad"}
MCContent == {<<"s">>, <<"t", "t">>, <<"s", "bad">>}
==============================================================================
