--------------------------- MODULE ScopedRuntime ---------------------------
(***************************************************************************)
(* The AI reference: create_candidate and the runtime it shares with the   *)
(* batch queue.  The runtime keeps provider answers and queued tickets     *)
(* under the scope (space and purpose) and the policy and revocation       *)
(* generations of the context they came with, and remembers the evidence   *)
(* deleted in a space or revoked for a scope.                              *)
(*                                                                         *)
(* Callers bring contexts: snapshots of an authorization, of any age.  The *)
(* code calls out once, to the provider's generate, and while it waits     *)
(* others use the same runtime.  Texts, versions that never change and     *)
(* what the observer records are left out.                                 *)
(***************************************************************************)
EXTENDS Integers, FiniteSets

CONSTANTS
  Callers,   \* those who may wait for a provider at one time
  Spaces, Purposes, Evidence, Policies, Revocations,
  Bundles,   \* the sets of evidence that requests are about
  Contexts,  \* the snapshots that callers hold
  MaxBudget, \* bound: the largest budget of a context
  MaxKept    \* bound: answers in the cache, and tickets in the queue

ASSUME ContextsAssumption ==
  /\ MaxBudget \in Nat
  /\ Bundles \subseteq SUBSET Evidence
  /\ Contexts \subseteq
       [space : Spaces, purpose : Purposes, policy : Policies, revocation : Revocations,
        deleted : SUBSET Evidence, revoked : SUBSET Evidence,
        budget : 0..MaxBudget, permits : BOOLEAN]

VARIABLES
  cache,    \* provider answers, each with what it is bound to
  batch,    \* queued tickets, likewise
  deleted,  \* pairs of a space and evidence deleted in it
  revoked,  \* pairs of a scope and evidence revoked for it
  spent,    \* provider calls charged to a scope and policy
  asking,   \* requests that a provider works on, one of a caller at most
  asked,    \* provider calls made for a scope and policy
  result    \* what the last call returned

vars == <<cache, batch, deleted, revoked, spent, asking, asked, result>>

Scope(x) == <<x.space, x.purpose>>
BudgetScope(ctx) == <<Scope(ctx), ctx.policy>>
Scopes == Spaces \X Purposes

Nothing == [route |-> "none"]

\* An answer or a ticket for this evidence under this context.  The key it is
\* kept under is a digest of the same fields.
Bound(ctx, evidence) ==
  [space |-> ctx.space, purpose |-> ctx.purpose, policy |-> ctx.policy,
   revocation |-> ctx.revocation, evidence |-> evidence]

Draft(route, ctx, evidence, waited) ==
  [route |-> route, space |-> ctx.space, purpose |-> ctx.purpose,
   evidence |-> evidence, waited |-> waited]

Init ==
  /\ cache = {} /\ batch = {}
  /\ deleted = {} /\ revoked = {}
  /\ spent = [b \in Scopes \X Policies |-> 0]
  /\ asking = {}
  /\ asked = [b \in Scopes \X Policies |-> 0]
  /\ result = Nothing

----------------------------------------------------------------------------
\* del and rev are the deletions and revocations the runtime remembers.
Forbidden(ctx, del, rev) ==
  {e \in Evidence : \/ e \in ctx.deleted \/ <<ctx.space, e>> \in del
                    \/ e \in ctx.revoked \/ <<Scope(ctx), e>> \in rev}

Allowed(ctx, evidence, del, rev) == evidence \cap Forbidden(ctx, del, rev) = {}

\* Mutant of Fresh: the revocations of the context may have moved on.
FreshForPolicy(b, ctx, del, rev) ==
  /\ Scope(b) = Scope(ctx)
  /\ b.policy = ctx.policy
  /\ Allowed(ctx, b.evidence, del, rev)

Fresh(b, ctx, del, rev) ==
  /\ Scope(b) = Scope(ctx)
  /\ b.policy = ctx.policy
  /\ b.revocation = ctx.revocation
  /\ Allowed(ctx, b.evidence, del, rev)

\* What is kept when evidence is deleted in a space and revoked for a scope:
\* a deletion reaches every purpose of its space.
Surviving(kept, ctx, del, rev) ==
  {b \in kept : /\ b.space = ctx.space => b.evidence \cap del = {}
                /\ Scope(b) = Scope(ctx) => b.evidence \cap rev = {}}

Forget(ctx, del, rev) ==
  /\ deleted' = deleted \cup ({ctx.space} \X del)
  /\ revoked' = revoked \cup ({Scope(ctx)} \X rev)

InvalidateEvidence(ctx, del, rev) ==
  /\ Forget(ctx, del, rev)
  /\ cache' = Surviving(cache, ctx, del, rev)
  /\ batch' = Surviving(batch, ctx, del, rev)
  /\ result' = Nothing
  /\ UNCHANGED <<spent, asking, asked>>

EnqueueBatch(ctx, evidence) ==
  /\ Allowed(ctx, evidence, deleted, revoked)
  /\ Cardinality(batch \cup {Bound(ctx, evidence)}) <= MaxKept
  /\ batch' = batch \cup {Bound(ctx, evidence)}
  /\ result' = Nothing
  /\ UNCHANGED <<cache, deleted, revoked, spent, asking, asked>>

\* A drain empties the queue of its scope, and hands out the tickets that are
\* still good.
DrainBatch(ctx) ==
  /\ Forget(ctx, ctx.deleted, ctx.revoked)
  /\ cache' = Surviving(cache, ctx, ctx.deleted, ctx.revoked)
  /\ LET left == Surviving(batch, ctx, ctx.deleted, ctx.revoked)
         queued == {b \in left : Scope(b) = Scope(ctx)}
     IN  /\ batch' = left \ queued
         /\ result' = [route |-> "drained", by |-> Bound(ctx, {}),
                       tickets |-> {b \in queued : Fresh(b, ctx, deleted', revoked')}]
  /\ UNCHANGED <<spent, asking, asked>>

----------------------------------------------------------------------------
(***************************************************************************)
(* create_candidate up to the provider: the context's withdrawals are      *)
(* remembered first, whatever comes of the request.                        *)
(***************************************************************************)
\* The task, the space, the purpose, the evidence or the observations are not
\* what they must be.  The data of an observation may be at fault at any time.
Refuse(ctx) == InvalidateEvidence(ctx, ctx.deleted, ctx.revoked)

\* Mutant of Admit: only the caller's own context is asked.
AdmitBySnapshot(ctx, evidence, kept) ==
  /\ Forget(ctx, ctx.deleted, ctx.revoked)
  /\ Allowed(ctx, evidence, {}, {})
  /\ cache' = kept
  /\ batch' = Surviving(batch, ctx, ctx.deleted, ctx.revoked)

\* What every request that is let in does; kept is what is left in the cache.
Admit(ctx, evidence, kept) ==
  /\ Forget(ctx, ctx.deleted, ctx.revoked)
  /\ Allowed(ctx, evidence, deleted', revoked')
  /\ cache' = kept
  /\ batch' = Surviving(batch, ctx, ctx.deleted, ctx.revoked)

Kept(ctx) == Surviving(cache, ctx, ctx.deleted, ctx.revoked)
Found(ctx, evidence) == {b \in Kept(ctx) : b = Bound(ctx, evidence)}

\* No provider: the draft of the rules.
DraftByRules(ctx, evidence) ==
  /\ Admit(ctx, evidence, Kept(ctx))
  /\ result' = Draft("deterministic_r0", ctx, evidence, FALSE)
  /\ UNCHANGED <<spent, asking, asked>>

\* The context allows no provider, or has no budget at all.
GateClosed(ctx) == ~ctx.permits \/ ctx.budget <= 0

FallBackAtGate(ctx, evidence) ==
  /\ GateClosed(ctx)
  /\ Admit(ctx, evidence, Kept(ctx))
  /\ result' = Draft("fallback_r0", ctx, evidence, FALSE)
  /\ UNCHANGED <<spent, asking, asked>>

\* Found, and still good under what is known now.
Usable(ctx, evidence) == {b \in Found(ctx, evidence) : Fresh(b, ctx, deleted', revoked')}

AnswerFromCache(ctx, evidence) ==
  /\ ~GateClosed(ctx)
  /\ Admit(ctx, evidence, Kept(ctx))
  /\ Usable(ctx, evidence) # {}
  /\ result' = Draft("provider_cache", ctx, evidence, FALSE)
  /\ UNCHANGED <<spent, asking, asked>>

\* A miss drops what was found and is no longer good.
Miss(ctx, evidence) ==
  /\ ~GateClosed(ctx)
  /\ Admit(ctx, evidence, Kept(ctx) \ Found(ctx, evidence))
  /\ Usable(ctx, evidence) = {}

\* Mutant of Affordable: one call too many.
AffordableOnceMore(ctx) == spent[BudgetScope(ctx)] <= ctx.budget

Affordable(ctx) == spent[BudgetScope(ctx)] < ctx.budget

FallBackOnBudget(ctx, evidence) ==
  /\ Miss(ctx, evidence)
  /\ ~Affordable(ctx)
  /\ result' = Draft("fallback_r0", ctx, evidence, FALSE)
  /\ UNCHANGED <<spent, asking, asked>>

\* The call is charged before the provider is asked.
Charged(ctx) == [spent EXCEPT ![BudgetScope(ctx)] = @ + 1]

AskProvider(c, ctx, evidence) ==
  /\ Miss(ctx, evidence)
  /\ Affordable(ctx)
  /\ spent' = Charged(ctx)
  /\ asking' = asking \cup {[caller |-> c, ctx |-> ctx, evidence |-> evidence]}
  /\ asked' = [asked EXCEPT ![BudgetScope(ctx)] = @ + 1]
  /\ result' = Nothing

\* The guard keeps a caller to one request at a time.
CreateCandidate(c, ctx, evidence) ==
  /\ \A r \in asking : r.caller # c
  /\ \/ Refuse(ctx)
     \/ DraftByRules(ctx, evidence)
     \/ FallBackAtGate(ctx, evidence)
     \/ AnswerFromCache(ctx, evidence)
     \/ FallBackOnBudget(ctx, evidence)
     \/ AskProvider(c, ctx, evidence)

----------------------------------------------------------------------------
(***************************************************************************)
(* create_candidate from the provider's answer on, with the context it     *)
(* began with.                                                             *)
(***************************************************************************)
\* Mutant of CachePut: what was allowed when the provider was asked is stored.
CachePutUnchecked(r) == cache' = cache \cup {Bound(r.ctx, r.evidence)}

\* The draft is valid: it is stored, if its evidence is still allowed.
CachePut(r) ==
  /\ Allowed(r.ctx, r.evidence, deleted, revoked)
  /\ cache' = cache \cup {Bound(r.ctx, r.evidence)}

Accept(r) ==
  /\ Cardinality(cache \cup {Bound(r.ctx, r.evidence)}) <= MaxKept
  /\ CachePut(r)
  /\ result' = Draft("provider_generate", r.ctx, r.evidence, TRUE)

\* The provider refuses, or its candidate is not valid: the draft of the rules,
\* made before the provider was asked.
FallBackAfterProvider(r) ==
  /\ result' = Draft("fallback_r0", r.ctx, r.evidence, TRUE)
  /\ UNCHANGED cache

\* The evidence is no longer allowed, or the provider breaks.
Fail ==
  /\ result' = Nothing
  /\ UNCHANGED cache

ProviderReturns(r) ==
  /\ asking' = asking \ {r}
  /\ \/ Accept(r)
     \/ FallBackAfterProvider(r)
     \/ Fail
  /\ UNCHANGED <<batch, deleted, revoked, spent, asked>>

Next ==
  \/ \E ctx \in Contexts :
       \/ \E e \in Evidence : \/ InvalidateEvidence(ctx, {e}, {})
                              \/ InvalidateEvidence(ctx, {}, {e})
       \/ DrainBatch(ctx)
       \/ \E evidence \in Bundles :
            \/ EnqueueBatch(ctx, evidence)
            \/ \E c \in Callers : CreateCandidate(c, ctx, evidence)
  \/ \E r \in asking : ProviderReturns(r)

Spec == Init /\ [][Next]_vars

----------------------------------------------------------------------------
Bindings == [space : Spaces, purpose : Purposes, policy : Policies,
             revocation : Revocations, evidence : Bundles]

\* The variables have their types, and a caller waits for one provider.
TypeOK ==
  /\ cache \subseteq Bindings /\ batch \subseteq Bindings
  /\ deleted \subseteq Spaces \X Evidence
  /\ revoked \subseteq Scopes \X Evidence
  /\ spent \in [Scopes \X Policies -> Nat]
  /\ asking \subseteq [caller : Callers, ctx : Contexts, evidence : Bundles]
  /\ asked \in [Scopes \X Policies -> Nat]
  /\ \A r, s \in asking : r.caller = s.caller => r = s

\* What was deleted in a space, or revoked for a scope, by anyone's context.
Withdrawn(x) ==
  {e \in Evidence : <<x.space, e>> \in deleted \/ <<Scope(x), e>> \in revoked}

\* Nothing that rests on withdrawn evidence is kept, for any purpose of the
\* space, even when its provider was asked before the withdrawal and answers
\* after it (the second check of cache_put).
NothingForbiddenIsKept ==
  \A b \in cache \cup batch : b.evidence \cap Withdrawn(b) = {}

\* No draft rests on evidence that was withdrawn before it was returned,
\* however old the context of its caller, unless its provider failed it.
DraftIsRightful ==
  result.route \in {"deterministic_r0", "provider_cache", "provider_generate", "fallback_r0"} =>
    \/ result.route = "fallback_r0" /\ result.waited
    \/ result.evidence \cap Withdrawn(result) = {}

\* A drain hands out what was queued in its own scope under its own
\* generations, and of no withdrawn evidence, and leaves nothing of the scope.
DrainIsCurrent ==
  result.route = "drained" =>
    /\ \A b \in result.tickets : /\ Scope(b) = Scope(result.by)
                                 /\ b.policy = result.by.policy
                                 /\ b.revocation = result.by.revocation
                                 /\ b.evidence \cap Withdrawn(b) = {}
    /\ \A b \in batch : Scope(b) # Scope(result.by)

\* A scope makes no more provider calls under a policy than the largest budget
\* of its contexts, however many callers ask at one time.
BudgetIsKept ==
  \A b \in Scopes \X Policies :
    \E n \in {0} \cup {ctx.budget : ctx \in {x \in Contexts : BudgetScope(x) = b}} : asked[b] <= n

=============================================================================
