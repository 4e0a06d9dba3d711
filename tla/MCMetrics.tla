----------------------------- MODULE MCMetrics -----------------------------
(***************************************************************************)
(* Two streams of one sensor, of which one has no location code.           *)
(***************************************************************************)
EXTENDS Metrics

MCStreams == {<<"UU", "A", "HHZ", "">>, <<"UU", "A", "HHZ", "01">>}
============================================================================
