-------------------------- MODULE MCSyncSimulation --------------------------
(* Instances of SyncSimulation for TLC. *)
EXTENDS SyncSimulation, TLC

CONSTANTS a, b, v, f, x, y, k

Revision(base, value) ==
  [op |-> "append_revision", object |-> v, base |-> base,
   changes |-> {<<f, value>>}, required |-> {}]
Tombstone == [op |-> "tombstone", object |-> v, base |-> 0, changes |-> {},
              required |-> Peers]
Revocation(d) == [op |-> "grant_revocation", object |-> d, base |-> 0, changes |-> {},
                  required |-> {}]

Says(p, content, version, shared) ==
  [peer |-> p, content |-> content, schema |-> version, keys |-> shared]

\* What a says: revisions of two generations, the deletion of the event, both
\* under a key that may be in use, a revision in a schema only a knows.  What b
\* says: a competing revision under that key, and the revocation of a.
Story == {Says(a, Revision(0, x), 1, {}), Says(a, Revision(1, y), 1, {k}),
          Says(a, Tombstone, 1, {k}), Says(a, Revision(0, x), 2, {}),
          Says(b, Revision(0, y), 1, {k}), Says(b, Revocation(a), 1, {})}

Stray(n, elsewhere, content) ==
  [device |-> a, seq |-> n, foreign |-> elsewhere, schema |-> 1, key |-> <<a, n>>,
   content |-> content]

\* An envelope of a that its outbox does not hold: it claims a sequence that a
\* has used otherwise.
Reused == {Stray(2, FALSE, Revision(1, x))}

\* An envelope of a from another space.
Elsewhere == {Stray(1, TRUE, Revision(0, y))}

\* One peer knows the second schema, the other does not.
OneUpgraded == (a :> {1, 2}) @@ (b :> {1})

TwoAndOne == (a :> 2) @@ (b :> 1)

\* b holds an authorization of a that expires.
Lapse == {<<b, a>>}

=============================================================================
