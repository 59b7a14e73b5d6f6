----------------------------- MODULE RpcCircuit -----------------------------
(***************************************************************************)
(* The circuit of one RPC endpoint, src/rpc-circuit-state.ts, with the two *)
(* kinds of callers that share it:                                         *)
(*   - RpcCircuitBreaker.execute(): one request raced against a timeout;   *)
(*   - the proxy of createRpcServer() in src/soroban.ts, whose requests go *)
(*     through withRetry() of src/with-retry.ts.                           *)
(*                                                                         *)
(* Time is only what the code compares: `cooldown` is cooldownUntil minus  *)
(* Date.now(), in ticks, 0 once it is over.  A scope without an entry is a *)
(* closed circuit with no failures, which behaves as one with an entry.    *)
(***************************************************************************)
EXTENDS Naturals, FiniteSets

CONSTANTS
    BreakerCall,         \* concurrent execute() calls
    ProxyCall,           \* concurrent calls through createRpcServer()
    BreakerThreshold,    \* options.failureThreshold
    ProxyThreshold,      \* DEFAULT_THRESHOLD
    MaxRetries,          \* maxRetries of the proxy
    CooldownTicks        \* cooldownMs

Call == BreakerCall \cup ProxyCall

ASSUME CircuitAssumption ==
    /\ BreakerThreshold \in Nat \ {0}
    /\ ProxyThreshold \in Nat \ {0}
    /\ MaxRetries \in Nat
    /\ CooldownTicks \in Nat \ {0}
    /\ BreakerCall \cap ProxyCall = {}

\* failureCount is only ever compared with a threshold, so it stops counting
\* at the larger one.
Cap == IF BreakerThreshold > ProxyThreshold THEN BreakerThreshold ELSE ProxyThreshold
Low == IF BreakerThreshold > ProxyThreshold THEN ProxyThreshold ELSE BreakerThreshold

VARIABLES
    state, failureCount, cooldown,  \* the CircuitEntry
    notified,                       \* the state listeners were last told of
    pc,                             \* of every call: idle, running, or sleeping in withRetry
    attempt,                        \* of every call: attempts already failed
    admitted                        \* of every call: the state that let it through

entryVars == <<state, failureCount, cooldown, notified>>
callVars == <<pc, attempt, admitted>>
vars == <<entryVars, callVars>>

States == {"closed", "open", "half-open"}

Init ==
    /\ state = "closed"
    /\ failureCount = 0
    /\ cooldown = 0
    /\ notified = "closed"
    /\ pc = [c \in Call |-> "idle"]
    /\ attempt = [c \in Call |-> 0]
    /\ admitted = [c \in Call |-> "closed"]

-----------------------------------------------------------------------------
(* The operations on the entry.                                            *)

\* getCircuitState(): an open circuit whose cooldown is over reads, and
\* becomes, half-open.
Current == IF state = "open" /\ cooldown = 0 THEN "half-open" ELSE state

\* A mistake for the runs to notice: the lazy change is not announced.
GetCircuitStateSilently ==
    /\ state' = Current
    /\ UNCHANGED <<failureCount, cooldown, notified>>

GetCircuitState ==
    /\ state' = Current
    /\ notified' = IF Current # state THEN Current ELSE notified
    /\ UNCHANGED <<failureCount, cooldown>>

\* A mistake for the runs to notice: the failures are not forgotten.
RecordSuccessKeepsCount ==
    /\ state' = "closed"
    /\ cooldown' = 0
    /\ notified' = IF Current # "closed" THEN "closed" ELSE notified
    /\ UNCHANGED failureCount

RecordSuccess ==
    /\ state' = "closed"
    /\ failureCount' = 0
    /\ cooldown' = 0
    /\ notified' = IF Current # "closed" THEN "closed" ELSE notified

RecordFailure(threshold) ==
    LET opens == Current = "half-open" \/ failureCount + 1 >= threshold IN
    /\ failureCount' = IF failureCount < Cap THEN failureCount + 1 ELSE Cap
    /\ state' = IF opens THEN "open" ELSE Current
    /\ cooldown' = IF opens THEN CooldownTicks ELSE cooldown
    /\ notified' = IF state' # Current THEN state' ELSE notified

-----------------------------------------------------------------------------
(* Actions                                                                 *)

Tick ==
    /\ cooldown > 0
    /\ cooldown' = cooldown - 1
    /\ UNCHANGED <<state, failureCount, notified, callVars>>

\* The application reads the state: `state`, getCircuitState(), a React hook.
Poll == GetCircuitState /\ UNCHANGED callVars

ResetCircuit ==
    /\ state' = "closed"
    /\ failureCount' = 0
    /\ cooldown' = 0
    /\ notified' = "closed"
    /\ UNCHANGED callVars

\* The check both kinds of callers start with, and its two outcomes.
Start(c) ==
    /\ pc[c] = "idle"
    /\ Current # "open"
    /\ GetCircuitState
    /\ pc' = [pc EXCEPT ![c] = "running"]
    /\ attempt' = [attempt EXCEPT ![c] = 0]
    /\ admitted' = [admitted EXCEPT ![c] = Current]

\* A mistake for the runs to notice: being turned away counts as a failure.
FailFastCounts(c) ==
    /\ pc[c] = "idle"
    /\ Current = "open"
    /\ RecordFailure(ProxyThreshold)
    /\ UNCHANGED callVars

FailFast(c) ==
    /\ pc[c] = "idle"
    /\ Current = "open"
    /\ UNCHANGED vars

Return(c) == pc' = [pc EXCEPT ![c] = "idle"] /\ UNCHANGED <<attempt, admitted>>

\* execute(): a response, be it an error, counts as a success; a response
\* later than the timeout is not looked at.
BreakerResponds(b) ==
    /\ pc[b] = "running"
    /\ RecordSuccess
    /\ Return(b)

BreakerTimesOut(b) ==
    /\ pc[b] = "running"
    /\ RecordFailure(BreakerThreshold)
    /\ Return(b)

\* The proxy: one success or failure is recorded for all the attempts of a
\* call.  Only a rate limit is retried, and the circuit is not consulted again.
ProxySucceeds(p) ==
    /\ pc[p] = "running"
    /\ RecordSuccess
    /\ Return(p)

ProxyFails(p) ==
    /\ pc[p] = "running"
    /\ RecordFailure(ProxyThreshold)
    /\ Return(p)

ProxyRateLimited(p) ==
    /\ pc[p] = "running"
    /\ attempt[p] < MaxRetries
    /\ pc' = [pc EXCEPT ![p] = "sleeping"]
    /\ UNCHANGED <<entryVars, attempt, admitted>>

ProxyRetries(p) ==
    /\ pc[p] = "sleeping"
    /\ pc' = [pc EXCEPT ![p] = "running"]
    /\ attempt' = [attempt EXCEPT ![p] = @ + 1]
    /\ UNCHANGED <<entryVars, admitted>>

Next ==
    \/ Tick \/ Poll \/ ResetCircuit
    \/ \E c \in Call : Start(c) \/ FailFast(c)
    \/ \E b \in BreakerCall : BreakerResponds(b) \/ BreakerTimesOut(b)
    \/ \E p \in ProxyCall :
          ProxySucceeds(p) \/ ProxyFails(p) \/ ProxyRateLimited(p) \/ ProxyRetries(p)

Spec == Init /\ [][Next]_vars

\* Timers fire, requests settle, and the application goes on calling.
Fairness ==
    /\ WF_vars(Tick)
    /\ \A c \in Call : WF_vars(Start(c))
    /\ \A b \in BreakerCall : WF_vars(BreakerResponds(b) \/ BreakerTimesOut(b))
    /\ \A p \in ProxyCall : WF_vars(ProxySucceeds(p) \/ ProxyFails(p)) /\ WF_vars(ProxyRetries(p))

FairSpec == Spec /\ Fairness

-----------------------------------------------------------------------------
(* Properties                                                              *)

\* The types, and the bounds of the two counters.
TypeOK ==
    /\ state \in States
    /\ failureCount \in 0 .. Cap
    /\ cooldown \in 0 .. CooldownTicks
    /\ notified \in States
    /\ pc \in [Call -> {"idle", "running", "sleeping"}]
    /\ attempt \in [Call -> 0 .. MaxRetries]
    /\ admitted \in [Call -> States]

\* The circuit and its counter agree whatever the two kinds of callers, which
\* use different thresholds, record after one another: a circuit that turns
\* requests away has seen enough failures since the last success, a closed one
\* has not, and only an open one cools down.
CountMatchesState ==
    /\ state # "closed" => failureCount >= Low
    /\ state = "closed" => failureCount < Cap
    /\ cooldown > 0 => state = "open"

\* onCircuitStateChange() listeners can rely on what they were told last: no
\* path, the lazy change to half-open included, changes the state unannounced.
ListenersKnow == notified = state

\* An open circuit lets requests through again, although failures of requests
\* admitted earlier keep arriving and restart the cooldown.
Recovers == state = "open" ~> state # "open"

\* "After the cooldown expires, allowing a single probe request": every call
\* that finds the circuit half-open is let through.
SingleProbe ==
    Cardinality({c \in Call : pc[c] # "idle" /\ admitted[c] = "half-open"}) <= 1
=============================================================================
