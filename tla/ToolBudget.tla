----------------------------- MODULE ToolBudget -----------------------------
(***************************************************************************)
(* The budget every MCP tool call passes (toolBudget in app.go and         *)
(* withBudget in tools.go): a channel of Concurrent slots, taken without   *)
(* waiting, and a count of calls in a fixed window of one minute under a   *)
(* mutex.  acquire is two steps, because the slot is taken before the      *)
(* mutex: a caller that the rate limit then refuses holds a slot between   *)
(* them.                                                                   *)
(***************************************************************************)
EXTENDS Integers, FiniteSets, Functions

CONSTANTS
    Callers,     \* the concurrent tool calls of the MCP client
    Concurrent,  \* capacity of toolBudget.sem
    PerMin,      \* toolBudget.perMin
    Minute,      \* clock ticks in time.Minute
    Horizon      \* bound: the clock stops here

ASSUME BudgetAssumption ==
    /\ IsFiniteSet(Callers)
    /\ Concurrent \in Nat \ {0}
    /\ PerMin \in Nat \ {0}
    /\ Minute \in Nat \ {0}
    /\ Horizon \in Nat

VARIABLES
    now,
    pc,         \* "idle", "slot" (in acquire, holds a slot), "running"
    slots,      \* len(toolBudget.sem)
    window,     \* toolBudget.window
    count,      \* toolBudget.count
    admitted    \* history: how many calls each instant admitted

vars == <<now, pc, slots, window, count, admitted>>

Init ==
    /\ now = 0
    /\ pc = [c \in Callers |-> "idle"]
    /\ slots = 0
    /\ window = 0
    /\ count = 0
    /\ admitted = [t \in 0..Horizon |-> 0]

(* The non-blocking send.  A refused caller is back where it was: the      *)
(* "too many concurrent tool calls" error changes nothing.                 *)
TakeSlot(c) ==
    /\ pc[c] = "idle"
    /\ slots < Concurrent
    /\ slots' = slots + 1
    /\ pc' = [pc EXCEPT ![c] = "slot"]
    /\ UNCHANGED <<now, window, count, admitted>>

WindowOver == now - window >= Minute

\* Mutant: an old count outlives its window.
CountNeverReset == count

(* The count the mutex holder compares with the limit, after the reset.    *)
CountNow == IF WindowOver THEN 0 ELSE count

\* Mutant: a reset that forgets to move the window.
ResetWindowKept == window' = window

ResetWindow == window' = IF WindowOver THEN now ELSE window

Admit(c) ==
    /\ pc[c] = "slot"
    /\ CountNow < PerMin
    /\ ResetWindow
    /\ count' = CountNow + 1
    /\ pc' = [pc EXCEPT ![c] = "running"]
    /\ admitted' = [admitted EXCEPT ![now] = @ + 1]
    /\ UNCHANGED <<now, slots>>

\* Mutant: the refused caller gives its slot back in acquire and again in the
\* deferred release.
RateLimitReleasesTwice(c) ==
    /\ pc[c] = "slot"
    /\ CountNow >= PerMin
    /\ ResetWindow
    /\ count' = CountNow
    /\ slots' = IF slots > 1 THEN slots - 2 ELSE 0
    /\ pc' = [pc EXCEPT ![c] = "idle"]
    /\ UNCHANGED <<now, admitted>>

(* Over the limit, acquire gives the slot back.                            *)
RateLimit(c) ==
    /\ pc[c] = "slot"
    /\ CountNow >= PerMin
    /\ ResetWindow
    /\ count' = CountNow
    /\ slots' = slots - 1
    /\ pc' = [pc EXCEPT ![c] = "idle"]
    /\ UNCHANGED <<now, admitted>>

(* The deferred release of withBudget: a non-blocking receive.             *)
Release(c) ==
    /\ pc[c] = "running"
    /\ slots' = IF slots > 0 THEN slots - 1 ELSE slots
    /\ pc' = [pc EXCEPT ![c] = "idle"]
    /\ UNCHANGED <<now, window, count, admitted>>

Tick ==
    /\ now < Horizon
    /\ now' = now + 1
    /\ UNCHANGED <<pc, slots, window, count, admitted>>

Next ==
    \/ \E c \in Callers : TakeSlot(c) \/ Admit(c) \/ RateLimit(c) \/ Release(c)
    \/ Tick

Spec == Init /\ [][Next]_vars

----------------------------------------------------------------------------
(* Properties *)

Holders == {c \in Callers : pc[c] # "idle"}

TypeOK ==
    /\ now \in 0..Horizon
    /\ pc \in [Callers -> {"idle", "slot", "running"}]
    /\ slots \in 0..Concurrent
    /\ window \in 0..now
    /\ count \in 0..PerMin
    /\ admitted \in [0..Horizon -> Nat]

(* A slot is taken exactly by the calls between acquire and release, on    *)
(* every path: release never frees another call's slot, its default branch *)
(* is never taken, and a refused call leaves none behind.                  *)
SlotsAreHeld == slots = Cardinality(Holders)

(* Never more tool bodies run at once than max_concurrent_tools.           *)
ConcurrencyLimit ==
    Cardinality({c \in Callers : pc[c] = "running"}) <= Concurrent

AdmittedIn(from, to) ==
    SumFunctionOnSet(admitted, {t \in 0..Horizon : from <= t /\ t <= to})

(* What the fixed window bounds in any minute, aligned or not: twice the   *)
(* configured limit, when a window full at its end meets one full at its   *)
(* start.                                                                  *)
TwiceAMinute ==
    \A t \in 0..Horizon : AdmittedIn(t, t + Minute - 1) <= 2 * PerMin

(* A call is refused for its rate only when the limit was really spent in  *)
(* the minute before it.                                                   *)
RefusedOnlyWhenSpent ==
    [][\A c \in Callers :
          pc[c] = "slot" /\ pc'[c] = "idle" =>
             AdmittedIn(now - Minute + 1, now) >= PerMin]_vars
============================================================================
