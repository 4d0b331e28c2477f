------------------------ MODULE ScopedRuntime_proofs ------------------------
(* Proofs about ScopedRuntime, for any contexts, callers and evidence. *)
EXTENDS ScopedRuntime, TLAPS

\* None of these answers or tickets rests on evidence deleted or revoked by then.
Clean(kept, del, rev) ==
  \A b \in kept : \A e \in b.evidence :
    e \in Evidence => <<b.space, e>> \notin del /\ <<Scope(b), e>> \notin rev

\* Forgetting evidence in the record and in what is kept leaves nothing behind.
LEMMA SurvivingIsClean ==
  ASSUME NEW kept, NEW D, NEW R, Clean(kept, D, R), NEW ctx, NEW del, NEW rev
  PROVE  Clean(Surviving(kept, ctx, del, rev),
               D \cup ({ctx.space} \X del), R \cup ({Scope(ctx)} \X rev))
<1> SUFFICES ASSUME NEW b \in Surviving(kept, ctx, del, rev),
                    NEW e \in b.evidence, e \in Evidence
             PROVE  /\ <<b.space, e>> \notin D \cup ({ctx.space} \X del)
                    /\ <<Scope(b), e>> \notin R \cup ({Scope(ctx)} \X rev)
  BY DEF Clean
<1>1. /\ b \in kept
      /\ b.space = ctx.space => b.evidence \cap del = {}
      /\ Scope(b) = Scope(ctx) => b.evidence \cap rev = {}
  BY DEF Surviving
<1>2. <<b.space, e>> \notin D /\ <<Scope(b), e>> \notin R
  BY <1>1 DEF Clean
<1>3. <<b.space, e>> \notin {ctx.space} \X del
  BY <1>1
<1>4. <<Scope(b), e>> \notin {Scope(ctx)} \X rev
  BY <1>1
<1> QED
  BY <1>2, <1>3, <1>4

\* Allowed evidence may be kept.
LEMMA BoundIsClean ==
  ASSUME NEW kept, NEW D, NEW R, Clean(kept, D, R), NEW ctx, NEW evidence,
         Allowed(ctx, evidence, D, R)
  PROVE  Clean(kept \cup {Bound(ctx, evidence)}, D, R)
  BY DEF Clean, Allowed, Forbidden, Bound, Scope

\* Initially nothing is kept.
LEMMA InitKept == Init => NothingForbiddenIsKept
  BY DEF Init, NothingForbiddenIsKept

\* The invariant is that both the cache and the queue are clean.
LEMMA KeptIsClean ==
  NothingForbiddenIsKept <=>
    Clean(cache, deleted, revoked) /\ Clean(batch, deleted, revoked)
  BY DEF NothingForbiddenIsKept, Clean, Withdrawn

\* What every request that is let in does keeps the cache and the queue clean.
LEMMA AdmitKeeps ==
  ASSUME NothingForbiddenIsKept, NEW ctx, NEW evidence,
         NEW STATE kept, kept \subseteq Kept(ctx), Admit(ctx, evidence, kept)
  PROVE  NothingForbiddenIsKept'
<1>1. /\ deleted' = deleted \cup ({ctx.space} \X ctx.deleted)
      /\ revoked' = revoked \cup ({Scope(ctx)} \X ctx.revoked)
  BY DEF Admit, Forget
<1>2. Clean(Kept(ctx), deleted', revoked')
  BY <1>1, KeptIsClean, SurvivingIsClean DEF Kept
<1>3. Clean(cache', deleted', revoked')
  BY <1>2 DEF Admit, Clean
<1>4. Clean(batch', deleted', revoked')
  BY <1>1, KeptIsClean, SurvivingIsClean DEF Admit
<1> QED
  BY <1>3, <1>4 DEF NothingForbiddenIsKept, Clean, Withdrawn


\* Every step keeps the cache and the queue clean.
LEMMA StepKeeps == NothingForbiddenIsKept /\ [Next]_vars => NothingForbiddenIsKept'
<1> SUFFICES ASSUME NothingForbiddenIsKept, [Next]_vars PROVE NothingForbiddenIsKept'
  OBVIOUS
<1>0. ASSUME NEW ctx, NEW del, NEW rev, InvalidateEvidence(ctx, del, rev)
      PROVE  NothingForbiddenIsKept'
  <2>1. Clean(cache', deleted', revoked')
    BY <1>0, KeptIsClean, SurvivingIsClean DEF InvalidateEvidence, Forget
  <2>2. Clean(batch', deleted', revoked')
    BY <1>0, KeptIsClean, SurvivingIsClean DEF InvalidateEvidence, Forget
  <2> QED
    BY <2>1, <2>2 DEF NothingForbiddenIsKept, Clean, Withdrawn
<1>1. ASSUME NEW ctx \in Contexts, DrainBatch(ctx) PROVE NothingForbiddenIsKept'
  <2> DEFINE left == Surviving(batch, ctx, ctx.deleted, ctx.revoked)
  <2>1. Clean(cache', deleted', revoked')
    BY <1>1, KeptIsClean, SurvivingIsClean DEF DrainBatch, Forget
  <2>2. Clean(left, deleted', revoked')
    BY <1>1, KeptIsClean, SurvivingIsClean DEF DrainBatch, Forget
  <2>3. batch' \subseteq left
    BY <1>1 DEF DrainBatch
  <2> QED
    BY <2>1, <2>2, <2>3 DEF NothingForbiddenIsKept, Clean, Withdrawn
<1>2. ASSUME NEW ctx \in Contexts, NEW evidence \in Bundles, EnqueueBatch(ctx, evidence)
      PROVE  NothingForbiddenIsKept'
  <2>1. Clean(cache, deleted, revoked) /\ Clean(batch, deleted, revoked)
    BY KeptIsClean
  <2>2. Clean(batch', deleted, revoked)
    BY <1>2, <2>1, BoundIsClean DEF EnqueueBatch
  <2> QED
    BY <1>2, <2>1, <2>2 DEF EnqueueBatch, NothingForbiddenIsKept, Clean, Withdrawn
<1>3. ASSUME NEW ctx \in Contexts, NEW evidence \in Bundles, NEW c \in Callers,
             CreateCandidate(c, ctx, evidence)
      PROVE  NothingForbiddenIsKept'
  <2>1. CASE Refuse(ctx)
    BY <1>0, <2>1 DEF Refuse
  <2>2. CASE Admit(ctx, evidence, Kept(ctx))
    BY <2>2, AdmitKeeps
  <2>3. CASE Admit(ctx, evidence, Kept(ctx) \ Found(ctx, evidence))
    <3>1. Kept(ctx) \ Found(ctx, evidence) \subseteq Kept(ctx)
      OBVIOUS
    <3> QED
      BY <2>3, <3>1, AdmitKeeps
  <2> QED
    BY <1>3, <2>1, <2>2, <2>3
    DEF CreateCandidate, DraftByRules, FallBackAtGate, AnswerFromCache,
        FallBackOnBudget, AskProvider, Miss
<1>4. ASSUME NEW r \in asking, ProviderReturns(r) PROVE NothingForbiddenIsKept'
  <2>1. CASE Accept(r)
    <3>1. Clean(cache, deleted, revoked) /\ Clean(batch, deleted, revoked)
      BY KeptIsClean
    <3>2. Clean(cache', deleted, revoked)
      BY <2>1, <3>1, BoundIsClean DEF Accept, CachePut
    <3> QED
      BY <1>4, <3>1, <3>2 DEF ProviderReturns, NothingForbiddenIsKept, Clean, Withdrawn
  <2>2. CASE UNCHANGED cache
    BY <1>4, <2>2 DEF ProviderReturns, NothingForbiddenIsKept, Withdrawn
  <2> QED
    BY <1>4, <2>1, <2>2 DEF ProviderReturns, FallBackAfterProvider, Fail
<1>5. CASE UNCHANGED vars
  BY <1>5 DEF vars, NothingForbiddenIsKept, Withdrawn
<1> QED
  BY <1>0, <1>1, <1>2, <1>3, <1>4, <1>5 DEF Next

\* NothingForbiddenIsKept holds in every reachable state: nothing that rests on
\* evidence deleted in its space or revoked for its scope stays in the cache or
\* in the queue, even when a provider answers after the withdrawal (cache_put).
THEOREM KeptIsRightful == Spec => []NothingForbiddenIsKept
  BY InitKept, StepKeeps, PTL DEF Spec


----------------------------------------------------------------------------
\* What makes the budget inductive: every provider call has been charged.
ChargesAgree ==
  /\ spent \in [Scopes \X Policies -> Nat]
  /\ asked = spent
  /\ BudgetIsKept

\* Initially nothing is charged.
LEMMA InitCharges == Init => ChargesAgree
<1> SUFFICES ASSUME Init PROVE ChargesAgree
  OBVIOUS
<1>1. \A b \in Scopes \X Policies : asked[b] <= 0
  BY DEF Init
<1> QED
  BY <1>1 DEF Init, ChargesAgree, BudgetIsKept

\* A call that is charged was within the budget of its context.
LEMMA ChargeStep ==
  ASSUME ChargesAgree, NEW ctx \in Contexts, Affordable(ctx), spent' = Charged(ctx),
         asked' = [asked EXCEPT ![BudgetScope(ctx)] = @ + 1]
  PROVE  ChargesAgree'
<1>1. /\ BudgetScope(ctx) \in Scopes \X Policies
      /\ ctx.budget \in Nat
  BY ContextsAssumption DEF BudgetScope, Scopes, Scope
<1>2. /\ spent' \in [Scopes \X Policies -> Nat]
      /\ asked' = spent'
  BY <1>1 DEF ChargesAgree, Charged
<1>3. ASSUME NEW b \in Scopes \X Policies
      PROVE  \E n \in {0} \cup {x.budget : x \in {y \in Contexts : BudgetScope(y) = b}} :
               asked'[b] <= n
  <2>1. CASE b = BudgetScope(ctx)
    <3>1. asked'[b] = spent[b] + 1
      BY <1>1, <2>1 DEF ChargesAgree
    <3>2. spent[b] \in Nat /\ spent[b] < ctx.budget
      BY <2>1 DEF ChargesAgree, Affordable
    <3>3. asked'[b] <= ctx.budget
      BY <1>1, <3>1, <3>2
    <3> QED
      BY <2>1, <3>3
  <2>2. CASE b # BudgetScope(ctx)
    <3>1. asked'[b] = asked[b]
      BY <2>2 DEF ChargesAgree
    <3> QED
      BY <3>1 DEF ChargesAgree, BudgetIsKept
  <2> QED
    BY <2>1, <2>2
<1> QED
  BY <1>2, <1>3 DEF ChargesAgree, BudgetIsKept

\* Every step keeps the charges.
LEMMA StepCharges == ChargesAgree /\ [Next]_vars => ChargesAgree'
<1> SUFFICES ASSUME ChargesAgree, [Next]_vars PROVE ChargesAgree'
  OBVIOUS
<1>1. CASE UNCHANGED <<spent, asked>>
  BY <1>1 DEF ChargesAgree, BudgetIsKept
<1>2. ASSUME NEW ctx \in Contexts, NEW evidence \in Bundles, NEW c \in Callers,
             AskProvider(c, ctx, evidence)
      PROVE  ChargesAgree'
  BY <1>2, ChargeStep DEF AskProvider
<1> QED
  BY <1>1, <1>2
  DEF Next, vars, InvalidateEvidence, DrainBatch, EnqueueBatch, CreateCandidate, Refuse,
      DraftByRules, FallBackAtGate, AnswerFromCache, FallBackOnBudget, ProviderReturns

\* BudgetIsKept holds in every reachable state: a scope makes no more provider
\* calls under a policy than its largest budget (reserve_provider_budget).
THEOREM BudgetHolds == Spec => []BudgetIsKept
<1>1. ChargesAgree => BudgetIsKept
  BY DEF ChargesAgree
<1> QED
  BY <1>1, InitCharges, StepCharges, PTL DEF Spec

----------------------------------------------------------------------------
\* A draft of allowed evidence rests on nothing withdrawn.
LEMMA AllowedIsRightful ==
  ASSUME NEW route, NEW ctx, NEW evidence, NEW waited,
         Allowed(ctx, evidence, deleted', revoked'),
         result' = Draft(route, ctx, evidence, waited)
  PROVE  DraftIsRightful'
  BY DEF Allowed, Forbidden, Draft, DraftIsRightful, Withdrawn, Scope

\* What a step returns is rightful whatever the state it was taken in.
LEMMA StepReturnsRightful == Next => DraftIsRightful'
<1> SUFFICES ASSUME Next PROVE DraftIsRightful'
  OBVIOUS
<1>1. CASE result' = Nothing
  BY <1>1 DEF Nothing, DraftIsRightful
<1>2. ASSUME NEW ctx \in Contexts, DrainBatch(ctx) PROVE DraftIsRightful'
  BY <1>2 DEF DrainBatch, DraftIsRightful
<1>3. ASSUME NEW ctx \in Contexts, NEW evidence \in Bundles, NEW c \in Callers,
             CreateCandidate(c, ctx, evidence)
      PROVE  DraftIsRightful'
  BY <1>1, <1>3, AllowedIsRightful
  DEF CreateCandidate, Refuse, InvalidateEvidence, DraftByRules, FallBackAtGate,
      AnswerFromCache, FallBackOnBudget, AskProvider, Miss, Admit
<1>4. ASSUME NEW r \in asking, ProviderReturns(r) PROVE DraftIsRightful'
  <2>1. CASE Accept(r)
    <3>1. Allowed(r.ctx, r.evidence, deleted', revoked')
      BY <1>4, <2>1 DEF ProviderReturns, Accept, CachePut
    <3> QED
      BY <2>1, <3>1, AllowedIsRightful DEF Accept
  <2>2. CASE FallBackAfterProvider(r)
    BY <2>2 DEF FallBackAfterProvider, Draft, DraftIsRightful
  <2>3. CASE Fail
    BY <1>1, <2>3 DEF Fail
  <2> QED
    BY <1>4, <2>1, <2>2, <2>3 DEF ProviderReturns
<1> QED
  BY <1>1, <1>2, <1>3, <1>4 DEF Next, InvalidateEvidence, EnqueueBatch

\* DraftIsRightful holds in every reachable state: an old context cannot bring
\* back evidence that was withdrawn (ensure_evidence_allowed, cache_put).
THEOREM DraftsAreRightful == Spec => []DraftIsRightful
<1>1. Init => DraftIsRightful
  BY DEF Init, Nothing, DraftIsRightful
<1>2. DraftIsRightful /\ UNCHANGED vars => DraftIsRightful'
  BY DEF vars, DraftIsRightful, Withdrawn
<1> QED
  BY <1>1, <1>2, StepReturnsRightful, PTL DEF Spec


----------------------------------------------------------------------------
\* What a drain hands out is current, and it leaves nothing of its scope.
LEMMA DrainStep ==
  ASSUME NEW ctx \in Contexts, DrainBatch(ctx)
  PROVE  DrainIsCurrent'
<1> DEFINE queued == {b \in Surviving(batch, ctx, ctx.deleted, ctx.revoked) :
                        Scope(b) = Scope(ctx)}
<1>1. /\ result'.by = Bound(ctx, {})
      /\ result'.tickets = {b \in queued : Fresh(b, ctx, deleted', revoked')}
      /\ batch' = Surviving(batch, ctx, ctx.deleted, ctx.revoked) \ queued
  BY DEF DrainBatch
<1>2. /\ Scope(result'.by) = Scope(ctx)
      /\ result'.by.policy = ctx.policy
      /\ result'.by.revocation = ctx.revocation
  BY <1>1 DEF Bound, Scope
<1>3. ASSUME NEW b \in result'.tickets
      PROVE  /\ Scope(b) = Scope(ctx)
             /\ b.policy = ctx.policy
             /\ b.revocation = ctx.revocation
             /\ b.evidence \cap Withdrawn(b)' = {}
  <2>1. Fresh(b, ctx, deleted', revoked')
    BY <1>1, <1>3
  <2>2. b.space = ctx.space
    BY <2>1 DEF Fresh, Scope
  <2> QED
    BY <2>1, <2>2 DEF Fresh, Allowed, Forbidden, Withdrawn
<1>4. \A b \in batch' : Scope(b) # Scope(ctx)
  BY <1>1
<1> QED
  BY <1>2, <1>3, <1>4 DEF DrainIsCurrent, Scope

\* Every other step returns no tickets.
LEMMA StepDrains == Next => DrainIsCurrent'
<1> SUFFICES ASSUME Next PROVE DrainIsCurrent'
  OBVIOUS
<1>1. CASE result' = Nothing
  BY <1>1 DEF Nothing, DrainIsCurrent
<1>2. ASSUME NEW route \in {"deterministic_r0", "fallback_r0", "provider_cache",
                            "provider_generate"},
             NEW ctx, NEW evidence, NEW waited, result' = Draft(route, ctx, evidence, waited)
      PROVE  DrainIsCurrent'
  BY <1>2 DEF Draft, DrainIsCurrent
<1>3. ASSUME NEW ctx \in Contexts, NEW evidence \in Bundles, NEW c \in Callers,
             CreateCandidate(c, ctx, evidence)
      PROVE  DrainIsCurrent'
  BY <1>1, <1>2, <1>3
  DEF CreateCandidate, Refuse, InvalidateEvidence, DraftByRules, FallBackAtGate,
      AnswerFromCache, FallBackOnBudget, AskProvider
<1>4. ASSUME NEW r \in asking, ProviderReturns(r) PROVE DrainIsCurrent'
  BY <1>1, <1>2, <1>4 DEF ProviderReturns, Accept, FallBackAfterProvider, Fail
<1> QED
  BY <1>1, <1>3, <1>4, DrainStep DEF Next, InvalidateEvidence, EnqueueBatch

\* DrainIsCurrent holds in every reachable state: a ticket is handed out only to
\* its own scope under the generations it was queued with (drain_batch).
THEOREM DrainsAreCurrent == Spec => []DrainIsCurrent
<1>1. Init => DrainIsCurrent
  BY DEF Init, Nothing, DrainIsCurrent
<1>2. DrainIsCurrent /\ UNCHANGED vars => DrainIsCurrent'
  BY DEF vars, DrainIsCurrent, Withdrawn
<1> QED
  BY <1>1, <1>2, StepDrains, PTL DEF Spec

----------------------------------------------------------------------------
\* Contexts are what they are assumed to be.
LEMMA ContextTypes ==
  ASSUME NEW ctx \in Contexts
  PROVE  /\ ctx.space \in Spaces /\ Scope(ctx) \in Scopes
         /\ BudgetScope(ctx) \in Scopes \X Policies
         /\ ctx.deleted \subseteq Evidence /\ ctx.revoked \subseteq Evidence
         /\ \A evidence \in Bundles : Bound(ctx, evidence) \in Bindings
  BY ContextsAssumption DEF Scope, Scopes, BudgetScope, Bound, Bindings

\* What survives was kept before.
LEMMA SurvivingIsKept ==
  ASSUME NEW kept, NEW ctx, NEW del, NEW rev
  PROVE  Surviving(kept, ctx, del, rev) \subseteq kept
  BY DEF Surviving

\* The records of withdrawn evidence keep their types.
LEMMA ForgetTypes ==
  ASSUME TypeOK, NEW ctx \in Contexts, NEW del \in SUBSET Evidence,
         NEW rev \in SUBSET Evidence, Forget(ctx, del, rev)
  PROVE  deleted' \subseteq Spaces \X Evidence /\ revoked' \subseteq Scopes \X Evidence
  BY ContextTypes DEF TypeOK, Forget

\* A call is charged to a scope and policy there is.
LEMMA ChargeTypes ==
  ASSUME NEW f \in [Scopes \X Policies -> Nat], NEW ctx \in Contexts
  PROVE  [f EXCEPT ![BudgetScope(ctx)] = @ + 1] \in [Scopes \X Policies -> Nat]
<1>1. f[BudgetScope(ctx)] + 1 \in Nat
  BY ContextTypes
<1> QED
  BY <1>1

\* Every step keeps the types.
LEMMA StepTypes == TypeOK /\ [Next]_vars => TypeOK'
<1> SUFFICES ASSUME TypeOK, [Next]_vars PROVE TypeOK'
  OBVIOUS
<1>1. ASSUME NEW ctx \in Contexts, NEW del \in SUBSET Evidence,
             NEW rev \in SUBSET Evidence, InvalidateEvidence(ctx, del, rev)
      PROVE  TypeOK'
  <2>1. deleted' \subseteq Spaces \X Evidence /\ revoked' \subseteq Scopes \X Evidence
    BY <1>1, ForgetTypes DEF InvalidateEvidence
  <2>2. cache' \subseteq Bindings /\ batch' \subseteq Bindings
    BY <1>1, SurvivingIsKept DEF InvalidateEvidence, TypeOK
  <2> QED
    BY <1>1, <2>1, <2>2 DEF InvalidateEvidence, TypeOK
<1>2. ASSUME NEW ctx \in Contexts, DrainBatch(ctx) PROVE TypeOK'
  <2>1. deleted' \subseteq Spaces \X Evidence /\ revoked' \subseteq Scopes \X Evidence
    BY <1>2, ForgetTypes, ContextTypes DEF DrainBatch
  <2>2. cache' \subseteq Bindings /\ batch' \subseteq Bindings
    BY <1>2, SurvivingIsKept DEF DrainBatch, TypeOK
  <2> QED
    BY <1>2, <2>1, <2>2 DEF DrainBatch, TypeOK
<1>3. ASSUME NEW ctx \in Contexts, NEW evidence \in Bundles, EnqueueBatch(ctx, evidence)
      PROVE  TypeOK'
  <2>1. batch' \subseteq Bindings
    BY <1>3, ContextTypes DEF EnqueueBatch, TypeOK
  <2> QED
    BY <1>3, <2>1 DEF EnqueueBatch, TypeOK
<1>4. ASSUME NEW ctx \in Contexts, NEW evidence \in Bundles, NEW kept,
             kept \subseteq Kept(ctx), Admit(ctx, evidence, kept)
      PROVE  /\ deleted' \subseteq Spaces \X Evidence /\ revoked' \subseteq Scopes \X Evidence
             /\ cache' \subseteq Bindings /\ batch' \subseteq Bindings
  <2>1. deleted' \subseteq Spaces \X Evidence /\ revoked' \subseteq Scopes \X Evidence
    BY <1>4, ForgetTypes, ContextTypes DEF Admit
  <2>2. cache' \subseteq Bindings /\ batch' \subseteq Bindings
    BY <1>4, SurvivingIsKept DEF Admit, Kept, TypeOK
  <2> QED
    BY <2>1, <2>2
<1>5. ASSUME NEW c \in Callers, NEW ctx \in Contexts, NEW evidence \in Bundles,
             CreateCandidate(c, ctx, evidence)
      PROVE  TypeOK'
  <2>1. CASE Refuse(ctx)
    BY <1>1, <2>1, ContextTypes DEF Refuse
  <2>2. Kept(ctx) \ Found(ctx, evidence) \subseteq Kept(ctx)
    OBVIOUS
  <2>3. CASE AskProvider(c, ctx, evidence)
    <3>1. /\ deleted' \subseteq Spaces \X Evidence /\ revoked' \subseteq Scopes \X Evidence
          /\ cache' \subseteq Bindings /\ batch' \subseteq Bindings
      BY <1>4, <2>2, <2>3 DEF AskProvider, Miss
    <3>2. spent' \in [Scopes \X Policies -> Nat] /\ asked' \in [Scopes \X Policies -> Nat]
      BY <2>3, ChargeTypes DEF AskProvider, Charged, TypeOK
    <3>3. /\ asking' = asking \cup {[caller |-> c, ctx |-> ctx, evidence |-> evidence]}
          /\ \A r \in asking : r.caller # c
      BY <1>5, <2>3 DEF AskProvider, CreateCandidate
    <3>4. asking' \subseteq [caller : Callers, ctx : Contexts, evidence : Bundles]
      BY <3>3 DEF TypeOK
    <3>5. ASSUME NEW r \in asking', NEW s \in asking', r.caller = s.caller PROVE r = s
      BY <3>3, <3>5 DEF TypeOK
    <3> QED
      BY <3>1, <3>2, <3>4, <3>5 DEF TypeOK
  <2>4. CASE UNCHANGED <<spent, asking, asked>>
             /\ (Admit(ctx, evidence, Kept(ctx))
                 \/ Admit(ctx, evidence, Kept(ctx) \ Found(ctx, evidence)))
    BY <1>4, <2>2, <2>4 DEF TypeOK
  <2> QED
    BY <1>5, <2>1, <2>3, <2>4
    DEF CreateCandidate, DraftByRules, FallBackAtGate, AnswerFromCache, FallBackOnBudget, Miss
<1>6. ASSUME NEW r \in asking, ProviderReturns(r) PROVE TypeOK'
  <2>1. r.ctx \in Contexts /\ r.evidence \in Bundles
    BY DEF TypeOK
  <2>2. Bound(r.ctx, r.evidence) \in Bindings
    BY <2>1, ContextTypes
  <2>3. CASE Accept(r)
    BY <1>6, <2>2, <2>3 DEF ProviderReturns, Accept, CachePut, TypeOK
  <2>4. CASE UNCHANGED cache
    BY <1>6, <2>4 DEF ProviderReturns, TypeOK
  <2> QED
    BY <1>6, <2>3, <2>4 DEF ProviderReturns, FallBackAfterProvider, Fail
<1>7. CASE UNCHANGED vars
  BY <1>7 DEF vars, TypeOK
<1>8. ASSUME NEW ctx \in Contexts, NEW e \in Evidence,
             InvalidateEvidence(ctx, {e}, {}) \/ InvalidateEvidence(ctx, {}, {e})
      PROVE  TypeOK'
  <2>1. {e} \in SUBSET Evidence /\ {} \in SUBSET Evidence
    OBVIOUS
  <2> QED
    BY <1>1, <1>8, <2>1
<1> QED
  BY <1>2, <1>3, <1>5, <1>6, <1>7, <1>8 DEF Next

\* TypeOK holds in every reachable state: what is kept is bound to a space, a
\* purpose and generations there are, and a caller waits for one provider at most.
THEOREM TypesHold == Spec => []TypeOK
<1>1. Init => TypeOK
  BY DEF Init, TypeOK
<1> QED
  BY <1>1, StepTypes, PTL DEF Spec

================================================================================
