---------------------------- MODULE Transitions ----------------------------
(***************************************************************************)
(* The history of a Healthchecks binding in transitions mode: one request  *)
(* for the list of checks, then one for the flips of each selected check,  *)
(* in turn, under one context (Client.Transitions of the adapter, and the  *)
(* transitions branch of collectHCWindow).  A flips request that fails is  *)
(* counted and the next check is asked, also when the request failed       *)
(* because the context is done.                                            *)
(***************************************************************************)
EXTENDS Outcomes

CONSTANTS
    MaxTransitionChecks,  \* maxTransitionChecks
    MaxFlipsPerCheck,     \* maxFlipsPerCheck
    MaxMatched            \* bound: checks that the binding selects

TransitionsAssumption ==
    /\ MaxTransitionChecks \in Nat \ {0}
    /\ MaxFlipsPerCheck \in Nat \ {0}
    /\ MaxMatched \in Nat

VARIABLES
    pc,        \* "list", "flips", "returned" from the adapter, "done"
    ctx,       \* the context of the tool call
    sctx,      \* the context of the source, made from it
    matched,   \* for each check selected, in order: has it a valid unique_key
    next,      \* the check to ask next
    requests,  \* TransitionResult.Requests
    result,    \* the rest of what the adapter returns, as an answer
    outcome,   \* what collectHCWindow returns
    refused    \* history: why flips requests failed on a done context

vars == <<pc, ctx, sctx, matched, next, requests, result, outcome, refused>>

Flip == [missing |-> FALSE, inWindow |-> TRUE]

NoOutcome == Outcome("none", "", 0, FALSE)

Init ==
    /\ pc = "list"
    /\ ctx = "live" /\ sctx = "live"
    /\ matched = << >> /\ next = 1 /\ requests = 0
    /\ result = NoAnswer
    /\ outcome = NoOutcome
    /\ refused = {}

(* The adapter returns its result, with this error.                        *)
Return(err) ==
    /\ pc' = "returned"
    /\ result' = [result EXCEPT !.err = err]
    /\ UNCHANGED <<ctx, sctx, matched, next, outcome, refused>>

(* The collector makes the outcome of it.  The contexts that decide about  *)
(* an error may have ended since the last response.                        *)
Conclude ==
    /\ pc = "returned"
    /\ pc' = "done"
    /\ outcome' = MarkTransitions(SourceOutcome(ctx, sctx, result), result)
    /\ UNCHANGED <<ctx, sctx, matched, next, requests, result, refused>>

----------------------------------------------------------------------------
(* The list of checks: a request that fails, also on a done context, or a  *)
(* list in which no check meets the binding, whatever its status_filter.   *)
ListFails ==
    /\ pc = "list"
    /\ \E err \in {"authentication", "timeout", "upstream"} : Return(err)
    /\ UNCHANGED requests

NoMatch ==
    /\ pc = "list" /\ sctx = "live"
    /\ Return("no_match")
    /\ UNCHANGED requests

\* Mutant: the checks that are cut off are not counted.
CutUncounted(checks) ==
    [NoAnswer EXCEPT !.local = Len(checks) > MaxTransitionChecks]

CutResult(checks) ==
    [NoAnswer EXCEPT
        !.local = Len(checks) > MaxTransitionChecks,
        !.omitted = IF Len(checks) > MaxTransitionChecks
                    THEN Len(checks) - MaxTransitionChecks ELSE 0]

(* The checks in the order of their identities, without those above the    *)
(* bound.                                                                  *)
ListChecks ==
    /\ pc = "list" /\ sctx = "live"
    /\ \E n \in 0..MaxMatched : \E keys \in [1..n -> BOOLEAN] :
          /\ matched' = keys
          /\ result' = CutResult(keys)
    /\ pc' = "flips"
    /\ UNCHANGED <<ctx, sctx, next, requests, outcome, refused>>

LastAsked == IF Len(matched) > MaxTransitionChecks
             THEN MaxTransitionChecks ELSE Len(matched)

AtCheck == pc = "flips" /\ next <= LastAsked

SkipWithoutKey ==
    /\ AtCheck /\ ~ matched[next]
    /\ result' = [result EXCEPT !.missingIdentity = @ + 1]
    /\ next' = next + 1
    /\ UNCHANGED <<pc, ctx, sctx, matched, requests, outcome, refused>>

(* n flips in the window, d unusable ones.                                 *)
Flips(n, d) ==
    /\ AtCheck /\ matched[next] /\ sctx = "live"
    /\ requests' = requests + 1
    /\ result' = [result EXCEPT
                    !.discarded = @ + d,
                    !.local = @ \/ n > MaxFlipsPerCheck,
                    !.items = @ \o [i \in 1..(IF n > MaxFlipsPerCheck
                                              THEN MaxFlipsPerCheck ELSE n) |->
                                      Flip]]
    /\ next' = next + 1
    /\ UNCHANGED <<pc, ctx, sctx, matched, outcome, refused>>

\* Mutant: only requests that brought an answer count as requests.
FailUncounted ==
    /\ AtCheck /\ matched[next]
    /\ result' = [result EXCEPT !.failures = @ + 1]
    /\ next' = next + 1
    /\ refused' = refused \cup ({sctx} \ {"live"})
    /\ UNCHANGED <<pc, ctx, sctx, matched, requests, outcome>>

(* A network error, a status other than 200, a body that does not decode,  *)
(* or a context that is done.                                              *)
FlipsFail ==
    /\ AtCheck /\ matched[next]
    /\ requests' = requests + 1
    /\ result' = [result EXCEPT !.failures = @ + 1]
    /\ next' = next + 1
    /\ refused' = refused \cup ({sctx} \ {"live"})
    /\ UNCHANGED <<pc, ctx, sctx, matched, outcome>>

FlipsUnauthorized ==
    /\ AtCheck /\ matched[next] /\ sctx = "live"
    /\ requests' = requests + 1
    /\ Return("authentication")

\* Mutant: failed requests are never an error of the whole.
NoneFailed == FALSE

AllFailed ==
    requests > 0 /\ result.failures = requests /\ result.items = << >>

Finish ==
    /\ pc = "flips" /\ next > LastAsked
    /\ Return(IF AllFailed THEN "upstream" ELSE "none")
    /\ UNCHANGED requests

Cancel ==
    /\ pc # "done" /\ ctx = "live"
    /\ ctx' = "canceled"
    /\ sctx' = IF sctx = "live" THEN "canceled" ELSE sctx
    /\ UNCHANGED <<pc, matched, next, requests, result, outcome, refused>>

SourceTimeout ==
    /\ pc # "done" /\ sctx = "live"
    /\ sctx' = "deadline"
    /\ UNCHANGED <<pc, ctx, matched, next, requests, result, outcome, refused>>

Next ==
    \/ ListFails \/ NoMatch \/ ListChecks
    \/ SkipWithoutKey \/ FlipsFail \/ FlipsUnauthorized
    \/ \E n \in 0..MaxFlipsPerCheck + 1, d \in 0..1 : Flips(n, d)
    \/ Finish \/ Conclude
    \/ Cancel \/ SourceTimeout

Spec == Init /\ [][Next]_vars

----------------------------------------------------------------------------
(* Properties *)

TypeOK ==
    /\ pc \in {"list", "flips", "returned", "done"}
    /\ ctx \in Contexts /\ sctx \in Contexts
    /\ next \in 1..MaxTransitionChecks + 1
    /\ requests \in 0..MaxTransitionChecks
    /\ result.failures <= requests

Ok == pc = "done" /\ outcome.status = "ok"

(* A collection that is reported as ok accounts for every check that the   *)
(* binding selects: it was asked, has no key, or is counted as omitted.    *)
EveryCheckAccounted ==
    Ok => outcome.omitted + result.missingIdentity + requests = Len(matched)

(* It is ok only if a source request really brought an answer, or none     *)
(* could be made.                                                          *)
OkHasAnAnswer == Ok => requests = 0 \/ result.failures < requests

(* evidence-model.md: "A canceled request is not a successful collection". *)
CanceledIsNotSuccess ==
    "canceled" \in refused /\ pc = "done" => outcome.status # "ok"

(* api-compatibility.md: "A check without a validated `unique_key` is      *)
(* skipped and reported as `missing_identity`".                            *)
MissingIdentityReported ==
    Ok /\ result.missingIdentity > 0 => outcome.reason = "missing_identity"
============================================================================
