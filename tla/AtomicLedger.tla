---------------------------- MODULE AtomicLedger ----------------------------
(***************************************************************************)
(* What the ledger service promises its callers: every call either takes   *)
(* effect in one indivisible step between its invocation and its answer,   *)
(* or fails without effect, or answers ambiguous-commit, in which case the *)
(* effect may still happen, once the answer is out, or never.  A crashed   *)
(* caller's call is ambiguous too.                                         *)
(*                                                                         *)
(* The object is a parameter: InitialState and Effect(state, call), the    *)
(* Applied value of ledger.ts.  LedgerService is shown to implement this   *)
(* specification.                                                          *)
(***************************************************************************)
CONSTANTS Clients, Requests, Idle, NoAnswer,
          InitialState, Effect(_, _), Early(_), NoEarly

VARIABLES
    state,      \* the ledger
    call,       \* call[c]: the call client c waits for, or Idle
    answer,     \* answer[c]: the last answer c received
    doubt       \* calls answered ambiguous-commit that may still take effect

vars == <<state, call, answer, doubt>>

Answer(c, value) ==
    /\ call' = [call EXCEPT ![c] = Idle]
    /\ answer' = [answer EXCEPT ![c] = value]

Init ==
    /\ state = InitialState
    /\ call = [c \in Clients |-> Idle]
    /\ answer = [c \in Clients |-> NoAnswer]
    /\ doubt = {}

Invoke(c, request) ==
    /\ call[c] = Idle
    /\ Early(request) = NoEarly
    /\ call' = [call EXCEPT ![c] = request]
    /\ answer' = [answer EXCEPT ![c] = NoAnswer]
    /\ UNCHANGED <<state, doubt>>

\* A call refused on its arguments alone.
Refuse(c, request) ==
    /\ call[c] = Idle
    /\ Early(request) # NoEarly
    /\ answer' = [answer EXCEPT ![c] = Early(request)]
    /\ UNCHANGED <<state, call, doubt>>

\* The call takes effect and answers.
Perform(c) ==
    /\ call[c] # Idle
    /\ state' = Effect(state, call[c]).next
    /\ Answer(c, Effect(state, call[c]).value)
    /\ UNCHANGED doubt

\* The call has no effect and says so.
Fail(c) ==
    /\ call[c] # Idle
    /\ Answer(c, [outcome |-> "unavailable", reason |-> "storage-unavailable"])
    /\ UNCHANGED <<state, doubt>>

\* The caller cannot tell whether the call takes effect.
Ambiguous(c) ==
    /\ call[c] # Idle
    /\ Answer(c, [outcome |-> "unavailable", reason |-> "ambiguous-commit"])
    /\ doubt' = doubt \cup {call[c]}
    /\ UNCHANGED state

Crash(c) ==
    /\ Answer(c, NoAnswer)
    /\ \/ UNCHANGED doubt
       \/ call[c] # Idle /\ doubt' = doubt \cup {call[c]}
    /\ UNCHANGED state

\* A doubtful call takes effect after all; some doubts may be settled.
TakeEffect(request) ==
    /\ state' = Effect(state, request).next
    /\ doubt' \in SUBSET doubt
    /\ UNCHANGED <<call, answer>>

Dissolve ==
    /\ doubt' \in SUBSET doubt
    /\ UNCHANGED <<state, call, answer>>

Next ==
    \/ \E c \in Clients :
          \/ \E request \in Requests : Invoke(c, request) \/ Refuse(c, request)
          \/ Perform(c) \/ Fail(c) \/ Ambiguous(c) \/ Crash(c)
    \/ \E request \in doubt : TakeEffect(request)
    \/ Dissolve

Spec == Init /\ [][Next]_vars

=============================================================================
