--------------------------- MODULE MCEventLedger ---------------------------
(* Instances of EventLedger for TLC. *)
EXTENDS EventLedger, TLC

CONSTANTS s1, s2, d1, d2, east, west

\* Two dates, each in a zone of its own: an event that moves leaves both.
TwoDays == {<<d1, east>>, <<d2, west>>}

\* Nothing tells one source from another.
SourceSymmetry == Permutations(Sources)

=============================================================================
