--------------------------- MODULE MCAgentMemory ---------------------------
(* Instances of AgentMemory for TLC. *)
EXTENDS AgentMemory

CONSTANTS k1, k2, k3, a, b, events, revisions

Says(k, kind, text, target, offline, g) ==
  [key |-> k, kind |-> kind, text |-> text, target |-> target, offline |-> offline,
   grant |-> g]

\* An event, two texts of which compete for one key; two revisions that compete for
\* its head, one by way of feedback; and two other calls under the key of that.
Story == {Says(k1, "event", a, 0, TRUE, events),
          Says(k1, "event", b, 0, FALSE, events),
          Says(k2, "revision", a, 1, FALSE, revisions),
          Says(k3, "correct", a, 1, TRUE, revisions),
          Says(k3, "block", a, 1, FALSE, events),
          Says(k3, "note", a, 0, TRUE, events)}

=============================================================================
