---------------------------- MODULE MCBudgetGuard ----------------------------
(***************************************************************************)
(* Small instances of BudgetGuard for TLC.                                 *)
(***************************************************************************)
EXTENDS BudgetGuard, TLC

CONSTANTS g1, g2, t1, t2, t3, pool, otherPool, good, unknown

OneIdentity == [f \in Profiles |-> f]

\* Calls of the qualified profile use at most 2 tokens.
BoundTwo == [f \in Profiles |-> IF f = unknown THEN Undefined ELSE 2]

OneGuard == (t1 :> g1) @@ (t2 :> g1)
TwoGuards == (t1 :> g1) @@ (t2 :> g1) @@ (t3 :> g2)

\* What a finished dispatch returned is read by nobody: only a dispatch that
\* is about to release its hold still needs its result.
Relevant ==
    <<store, doubt, pc, job, usage, inflight, reports, review, used, sent, consumed,
      [t \in Tasks |-> IF pc[t] = "release" THEN result[t] ELSE Undefined]>>

LimitThree ==
    [kind |-> "configure", pool |-> pool,
     schedule |-> [limit |-> 3, periodMs |-> 2, anchorMs |-> 0,
                   version |-> "v1"]]

AttemptOf(context, permitted, profile, id) ==
    [context |-> context, tenant |-> CHOOSE x \in Tenants : TRUE,
     pool |-> pool, correlation |-> CHOOSE x \in Correlations : TRUE,
     permittedPool |-> permitted, profile |-> profile, id |-> id]

\* Calls that supply the ID, as a retry does.
GivenAttempts == {AttemptOf("valid", pool, good, i) : i \in Ids}

\* The same, a call that lets the guard choose the ID, and one that is
\* refused at once.
MixedAttempts ==
    GivenAttempts \cup {AttemptOf("valid", pool, good, Undefined),
                        AttemptOf("valid", otherPool, good, Undefined)}

=============================================================================
