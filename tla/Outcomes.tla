------------------------------ MODULE Outcomes ------------------------------
(***************************************************************************)
(* How the MCP server turns what an adapter answered into the outcome of a *)
(* source (SourceOutcome, mcpserver/collectors.go), and the outcomes of    *)
(* all sources into the coverage of a response.                            *)
(*                                                                         *)
(* An adapter answer holds an error or the evidence items, each item known *)
(* only by whether its object was missing at the source and whether its    *)
(* time is in the requested window, and the counts the adapter hands back. *)
(* A context is "live", "canceled" or "deadline".                          *)
(***************************************************************************)
EXTENDS Ordering, SequencesExt

Kinds == {"gatus", "docker", "loki", "healthchecks", "beszel", "ntfy"}
Contexts == {"live", "canceled", "deadline"}
Errors == {"no_match", "authentication", "timeout", "upstream"}

NoAnswer ==
    [err |-> "none", items |-> << >>, upstream |-> FALSE, local |-> FALSE,
     discarded |-> 0, omitted |-> 0, failures |-> 0, missingIdentity |-> 0]

(* The counts are lengths and sums of lengths, never negative.             *)
AnswerSet ==
    [err : Errors \cup {"none"},
     items : Seq([missing : BOOLEAN, inWindow : BOOLEAN]),
     upstream : BOOLEAN, local : BOOLEAN,
     discarded : Nat, omitted : Nat, failures : Nat, missingIdentity : Nat]

----------------------------------------------------------------------------
(* withSourceTimeout and sourceErrorOutcome *)

Outcome(status, reason, itemCount, complete) ==
    [status |-> status, reason |-> reason, itemCount |-> itemCount,
     complete |-> complete, truncated |-> FALSE, upstreamTruncated |-> FALSE,
     localTruncated |-> FALSE, discarded |-> 0, omitted |-> 0]

ReasonForError(err) ==
    CASE err = "no_match" -> "unmatched_binding"
      [] err = "authentication" -> "authentication_failed"
      [] err = "timeout" -> "timeout"
      [] OTHER -> "upstream_error"

\* Mutant: a deadline is looked at before a cancellation.
DeadlineFirst(ctx, sctx, err) ==
    IF "deadline" \in {ctx, sctx} THEN Outcome("timeout", "timeout", 0, FALSE)
    ELSE IF "canceled" \in {ctx, sctx}
    THEN Outcome("canceled", "canceled", 0, FALSE)
    ELSE Outcome("error", ReasonForError(err), 0, FALSE)

(* The state of the two contexts decides before the error does, and a      *)
(* cancellation before a deadline.                                         *)
SourceErrorOutcome(ctx, sctx, err) ==
    IF "canceled" \in {ctx, sctx} THEN Outcome("canceled", "canceled", 0, FALSE)
    ELSE IF "deadline" \in {ctx, sctx}
    THEN Outcome("timeout", "timeout", 0, FALSE)
    ELSE Outcome("error", ReasonForError(err), 0, FALSE)

SourceOutcome(ctx, sctx, a) ==
    IF a.err # "none"
    THEN SourceErrorOutcome(ctx, sctx, a.err)
    ELSE Outcome("ok", "", Len(a.items), TRUE)

----------------------------------------------------------------------------
(* The mark functions *)

MarkEmpty(o) ==
    IF o.status = "ok" /\ o.reason = "" /\ o.itemCount = 0
    THEN [o EXCEPT !.reason = "empty_result"]
    ELSE o

MarkMissing(o) == [o EXCEPT !.reason = "unmatched_binding", !.complete = FALSE]

MarkTruncated(o, upstream, local) ==
    LET cut == upstream \/ local IN
    [o EXCEPT !.upstreamTruncated = upstream, !.localTruncated = local,
              !.truncated = cut,
              !.complete = @ /\ ~ cut,
              !.reason = IF cut /\ @ = "" THEN "truncated" ELSE @]

\* Mutant: discarded records leave the outcome complete.
DiscardedStaysComplete(o, discarded) ==
    IF discarded <= 0 THEN o ELSE [o EXCEPT !.discarded = discarded]

MarkDiscarded(o, discarded) ==
    IF discarded <= 0
    THEN o
    ELSE [o EXCEPT !.discarded = discarded, !.complete = FALSE,
                   !.reason = "partial_invalid_records"]

(* past: the window ends more than 30 seconds before now.                  *)
MarkSnapshotHistory(o, past) ==
    IF o.status = "ok" /\ past
    THEN [o EXCEPT !.reason = "unsupported_history", !.complete = FALSE]
    ELSE o

(* The transitions branch of collectHCWindow: the history endpoint does    *)
(* not say how much it retains, so the outcome is never complete.          *)
TransitionReason(a) ==
    IF a.failures > 0 THEN "partial_fetch"
    ELSE IF a.missingIdentity > 0 /\ a.items = << >> THEN "missing_identity"
    ELSE IF a.omitted > 0 THEN "omitted_checks"
    ELSE IF a.local THEN "truncated"
    ELSE "unknown_history_coverage"

MarkTransitions(o, a) ==
    IF o.status # "ok"
    THEN o
    ELSE [o EXCEPT !.omitted = a.omitted, !.discarded = a.discarded,
                   !.localTruncated = a.local, !.truncated = a.local,
                   !.complete = FALSE, !.reason = TransitionReason(a)]

----------------------------------------------------------------------------
(* The collectors: what each does around its adapter call.  The Docker and *)
(* Beszel window collectors filter the items inside the call, so the item  *)
(* count is of what is left.                                               *)

InWindow(items) == Chosen(items, {k \in DOMAIN items : items[k].inWindow})

FilterCurrentSnapshots(a) == [a EXCEPT !.items = InWindow(@)]

StatusOutcome(o, items) ==
    IF Len(items) = 1 /\ items[1].missing THEN MarkMissing(o) ELSE o

WindowOutcome(o, items) ==
    IF \E i \in 1..Len(items) : items[i].missing THEN MarkMissing(o) ELSE o

Collectors ==
    {"gatus_status", "docker_status", "healthchecks_status", "beszel_status",
     "gatus_window", "docker_window", "loki", "healthchecks_window",
     "beszel_window", "ntfy"}

(* The collectors whose source can only tell its present state.            *)
SnapshotWindows == {"docker_window", "beszel_window", "healthchecks_window"}

(* The answer as the collector takes it, and the items it returns: none    *)
(* when the call failed.                                                   *)
Taken(collector, a) ==
    IF collector \in {"docker_window", "beszel_window"}
    THEN FilterCurrentSnapshots(a) ELSE a

ItemsOf(collector, a) ==
    IF a.err = "none" THEN Taken(collector, a).items ELSE << >>

Collected(collector, ctx, sctx, a, past) ==
    LET o == SourceOutcome(ctx, sctx, Taken(collector, a))
        items == ItemsOf(collector, a)
    IN  CASE collector \in {"gatus_status", "docker_status", "beszel_status"} ->
                MarkEmpty(StatusOutcome(o, items))
          [] collector = "healthchecks_status" -> MarkEmpty(o)
          [] collector = "gatus_window" ->
                MarkEmpty(MarkTruncated(WindowOutcome(o, items), FALSE, a.local))
          [] collector \in SnapshotWindows ->
                MarkEmpty(MarkSnapshotHistory(o, past))
          [] collector = "loki" ->
                MarkEmpty(MarkDiscarded(MarkTruncated(o, FALSE, a.local),
                                        a.discarded))
          [] collector = "ntfy" ->
                MarkEmpty(MarkTruncated(o, a.upstream, a.local))

----------------------------------------------------------------------------
(* The response: one outcome for each source kind.                         *)

Absent == Outcome("absent", "", 0, FALSE)
Skipped == Outcome("skipped", "", 0, FALSE)

NormalizeOutcome(o) ==
    CASE o.reason = "" /\ o.status = "absent" ->
            [o EXCEPT !.reason = "no_binding", !.complete = TRUE]
      [] o.reason = "" /\ o.status = "skipped" ->
            [o EXCEPT !.reason = "not_queried_by_tool", !.complete = TRUE]
      [] OTHER -> o

Configured(sources) ==
    {k \in DOMAIN sources : sources[k].status \notin {"absent", "skipped"}}

\* Mutant: one complete source makes the response complete.
CoverageOfAny(sources) ==
    [complete |-> \E k \in Configured(sources) : sources[k].complete,
     anyOK |-> \E k \in Configured(sources) : sources[k].status = "ok",
     configured |-> Cardinality(Configured(sources))]

OutcomeCoverage(sources) ==
    [complete |-> \A k \in Configured(sources) : sources[k].complete,
     anyOK |-> \E k \in Configured(sources) : sources[k].status = "ok",
     configured |-> Cardinality(Configured(sources))]

AuditStatus(coverage) ==
    IF coverage.complete THEN "ok"
    ELSE IF coverage.configured > 0 /\ ~ coverage.anyOK THEN "error"
    ELSE "partial"
============================================================================
