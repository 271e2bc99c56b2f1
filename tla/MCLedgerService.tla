--------------------------- MODULE MCLedgerService ---------------------------
(***************************************************************************)
(* Small instances of LedgerService for TLC.                               *)
(***************************************************************************)
EXTENDS LedgerService, TLC

OneIdentity == [f \in Profiles |-> "provider/model/version"]

Tenant == CHOOSE t \in Tenants : TRUE
Pool == CHOOSE p \in Pools : TRUE
FirstId == CHOOSE i \in Ids : TRUE
Correlation == CHOOSE x \in Correlations : TRUE

ReserveOf(id, profile, bound, at) ==
    [kind |-> "reserve", id |-> id, tenant |-> Tenant, pool |-> Pool,
     correlation |-> Correlation, profile |-> profile, qualified |-> TRUE,
     upperBound |-> bound, at |-> at]

ConfigureOf(limit, period, anchor) ==
    [kind |-> "configure", pool |-> Pool,
     schedule |-> [limit |-> limit, periodMs |-> period, anchorMs |-> anchor,
                   version |-> "v1"]]

SettleOf(id, input, output) ==
    [kind |-> "settle", id |-> id,
     usage |-> [inputTokens |-> input, outputTokens |-> output]]

\* Counters the metering cannot trust.
SettleUnknown ==
    [kind |-> "settle", id |-> FirstId, usage |-> Undefined]

TransitionOf(limit, period, anchor, version, at) ==
    [kind |-> "transition", pool |-> Pool, at |-> at,
     change |-> [limit |-> limit, periodMs |-> period, anchorMs |-> anchor,
                 version |-> version]]

\* Two reservations of 2 against a limit of 3: the second is refused unless
\* the first is released or settled low.
RacingRequests ==
    {ConfigureOf(3, 2, 0)}
      \cup {ReserveOf(i, f, 2, 1) : i \in Ids, f \in Profiles}
      \cup [kind: {"fence", "release"}, id: {FirstId}]
      \cup {SettleOf(FirstId, a, 1) : a \in {0, 3}}

\* Edits made at the first instant of an epoch and inside it, and
\* reservations of that epoch and of the next.
EditRequests ==
    {ConfigureOf(2, 3, 0)}
      \cup {TransitionOf(Undefined, 2, Undefined, "v2", at) : at \in {0, 2}}
      \cup {ReserveOf(i, f, 1, IF i = FirstId THEN 1 ELSE 3) :
              i \in Ids, f \in Profiles}

\* Configurations that contend for a pool, edits of every shape, a settlement
\* with unusable counters, and a reservation at the last clock value, which
\* has no representable epoch end.
ContendingRequests ==
    {ConfigureOf(2, 2, 1), ConfigureOf(1, 3, 0), SettleUnknown}
      \cup {TransitionOf(Undefined, 3, Undefined, "v2", at) : at \in {0, 3, 4}}
      \cup {TransitionOf(3, Undefined, anchor, "v3", 2) : anchor \in {2, 5}}
      \cup {ReserveOf(FirstId, f, 1, MaxSafe) : f \in Profiles}

-----------------------------------------------------------------------------
(* The callers of a behaviour make the calls of one workload.              *)

Workloads == {RacingRequests, EditRequests, ContendingRequests}
AllRequests == UNION Workloads

VARIABLE workload

MCInit == Init /\ workload \in Workloads

MCNext ==
    /\ Next
    /\ \A c \in Clients : call'[c] \in workload \cup {NoCall}
    /\ UNCHANGED workload

MCSpec == MCInit /\ [][MCNext]_<<vars, workload>> /\ Fairness

=============================================================================
