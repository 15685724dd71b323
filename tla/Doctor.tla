------------------------------- MODULE Doctor -------------------------------
(***************************************************************************)
(* The network diagnostic (--doctor): every binding of every service is    *)
(* collected in turn under one deadline, and the outcomes of the bindings  *)
(* of a source become its status.  An interrupt cancels the run.           *)
(***************************************************************************)
EXTENDS Outcomes

CONSTANTS
    Sources,       \* the configured sources
    Rank,          \* the place of the kind of a source in the order of probes
    ServicesCount  \* bound: services, in the order of the configuration

DoctorAssumption ==
    /\ Rank \in [Sources -> Nat] /\ ServicesCount \in Nat

Services == 1..ServicesCount

VARIABLES
    pc,       \* "probe", "done"
    ctx,      \* the context of the run
    bound,    \* the sources that each service binds, one of a kind
    probed,   \* the outcomes so far, of pairs of a service and a source
    state,    \* byName: status, reason and error of each source
    report    \* whether the report is complete, its warnings, the exit code

vars == <<pc, ctx, bound, probed, state, report>>

Bindings == {b \in Services \X Sources : b[2] \in bound[b[1]]}

Init ==
    /\ pc = "probe" /\ ctx = "live"
    /\ bound \in [Services -> SUBSET Sources]
    /\ \A s \in Services : \A x, y \in bound[s] : Rank[x] = Rank[y] => x = y
    /\ probed = [b \in {} |-> Absent]
    /\ state = [x \in Sources |->
                  [status |-> "unbound", reason |-> "", error |-> << >>]]
    /\ report = [complete |-> TRUE, warnings |-> {}, exit |-> 0]

----------------------------------------------------------------------------
StatusOf(o) ==
    CASE o.status = "ok" /\ o.complete -> "ok"
      [] o.status = "ok" /\ ~ o.complete -> "partial"
      [] o.status \in {"timeout", "canceled"} -> o.status
      [] OTHER -> "error"

Statuses == {"unbound", "ok", "partial", "canceled", "timeout", "error"}

Severity(status) ==
    CASE status = "unbound" -> 0 [] status = "ok" -> 1 [] status = "partial" -> 2
      [] status = "canceled" -> 3 [] status = "timeout" -> 4 [] OTHER -> 5

\* Mutant: the status of the last binding stands.
LastStatus(current, next) == next

WorseStatus(current, next) ==
    IF Severity(next) > Severity(current) THEN next ELSE current

(* doctorBinding: the error is that of the last binding that is not whole, *)
(* the reason that of the first which has one.                             *)
Judge(source, binding, o) ==
    LET whole == o.status = "ok" /\ o.complete
    IN  [status |-> WorseStatus(source.status, StatusOf(o)),
         reason |-> IF ~ whole /\ source.reason = "" THEN o.reason
                    ELSE source.reason,
         error |-> IF ~ whole THEN binding ELSE source.error]

(* What a collector can give: a request whose context is done gives no     *)
(* answer.                                                                 *)
Given ==
    {SourceErrorOutcome(ctx, IF ctx = "live" THEN "deadline" ELSE ctx, "timeout")}
    \cup IF ctx # "live" THEN {}
         ELSE {MarkEmpty(Outcome("ok", "", n, TRUE)) : n \in 0..1}
              \cup {MarkMissing(Outcome("ok", "", 1, TRUE)),
                    MarkTruncated(Outcome("ok", "", 1, TRUE), FALSE, TRUE)}
              \cup {SourceErrorOutcome("live", "live", err) : err \in Errors}

Before(b, c) ==
    b[1] < c[1] \/ (b[1] = c[1] /\ Rank[b[2]] < Rank[c[2]])

Probe(b) ==
    /\ pc = "probe"
    /\ b \in Bindings \ DOMAIN probed
    /\ \A c \in Bindings \ DOMAIN probed : c = b \/ Before(b, c)
    /\ \E o \in Given :
          /\ probed' = [c \in DOMAIN probed \cup {b} |-> IF c = b THEN o ELSE probed[c]]
          /\ state' = [state EXCEPT ![b[2]] = Judge(@, b, o)]
    /\ UNCHANGED <<pc, ctx, bound, report>>

SourceComplete(source) == source.status \in {"ok", "unbound"}

(* The end of Doctor, and the exit code of the command.                    *)
Report ==
    /\ pc = "probe" /\ Bindings \subseteq DOMAIN probed
    /\ pc' = "done"
    /\ LET complete == \A x \in Sources : SourceComplete(state[x])
       IN  report' = [complete |-> complete,
                      warnings |-> {x \in Sources : state[x].status = "unbound"},
                      exit |-> IF complete THEN 0 ELSE 1]
    /\ UNCHANGED <<ctx, bound, probed, state>>

Interrupt ==
    /\ pc = "probe" /\ ctx = "live"
    /\ ctx' = "canceled"
    /\ UNCHANGED <<pc, bound, probed, state, report>>

Deadline ==
    /\ pc = "probe" /\ ctx = "live"
    /\ ctx' = "deadline"
    /\ UNCHANGED <<pc, bound, probed, state, report>>

Next ==
    \/ \E b \in Services \X Sources : Probe(b)
    \/ Report
    \/ Interrupt \/ Deadline

Spec == Init /\ [][Next]_vars

----------------------------------------------------------------------------
(* Properties *)

TypeOK ==
    /\ pc \in {"probe", "done"}
    /\ ctx \in Contexts
    /\ bound \in [Services -> SUBSET Sources]
    /\ DOMAIN probed \subseteq Bindings
    /\ DOMAIN state = Sources
    /\ \A x \in Sources : state[x].status \in Statuses
    /\ report.complete \in BOOLEAN /\ report.warnings \subseteq Sources
    /\ report.exit \in 0..1

ProbedOf(x) == {b \in DOMAIN probed : b[2] = x}

(* The status of a source is the worst of its bindings, in whatever order  *)
(* they were asked, and it was asked if it has a binding; the command      *)
(* succeeds exactly if every binding of every service was asked, answered  *)
(* and answered in full.                                                   *)
DoctorTruthful ==
    /\ \A x \in Sources :
          /\ state[x].status = "unbound" <=> ProbedOf(x) = {}
          /\ \A b \in ProbedOf(x) :
                Severity(StatusOf(probed[b])) <= Severity(state[x].status)
          /\ ProbedOf(x) # {} =>
                \E b \in ProbedOf(x) : state[x].status = StatusOf(probed[b])
    /\ pc = "done" =>
          /\ report.exit = 0 <=>
                \A b \in Bindings : /\ b \in DOMAIN probed
                                    /\ probed[b].status = "ok"
                                    /\ probed[b].complete
          /\ report.complete <=> report.exit = 0

(* doctor.md: "`partial` means at least one binding matched only part of   *)
(* the request, or one binding failed while another succeeded."            *)
MixedIsPartial ==
    pc = "done" =>
        \A x \in Sources :
            /\ \E b \in ProbedOf(x) : StatusOf(probed[b]) = "error"
            /\ \E b \in ProbedOf(x) : StatusOf(probed[b]) = "ok"
            => state[x].status = "partial"
=============================================================================
