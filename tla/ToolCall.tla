------------------------------ MODULE ToolCall ------------------------------
(***************************************************************************)
(* The life of an MCP tool call: it passes the tool budget (withBudget),   *)
(* checks its arguments, asks its sources in concurrent goroutines that    *)
(* share the source slots (withSourceTimeout), waits for all of them,      *)
(* gives and audits one response, and returns its budget slot.  Meanwhile  *)
(* the client may cancel it, the total deadline may end it, and the        *)
(* deadline of a source may end that source.                               *)
(*                                                                         *)
(* The budget is the module ToolBudget: its steps are steps of this one.   *)
(* A caller makes its next call when the last one is answered.             *)
(*                                                                         *)
(* An adapter call is one question and one answer here.  SourceCache has   *)
(* the requests below it, Transitions the adapter with several requests.   *)
(***************************************************************************)
EXTENDS Outcomes

CONSTANTS
    Calls,       \* the concurrent callers of tools
    Services,    \* for each service, the kinds of source it is bound to
    Answers,     \* what adapters may answer
    MaxSources,  \* maxConcurrentSourceRequests
    Concurrent, PerMin, Minute, Horizon  \* see ToolBudget

ASSUME ToolCallAssumption ==
    /\ IsFiniteSet(Calls)
    /\ Services \subseteq SUBSET Kinds
    /\ Answers \subseteq AnswerSet
    /\ MaxSources \in Nat \ {0}
    /\ {Concurrent, PerMin, Minute} \subseteq Nat \ {0}
    /\ Horizon \in Nat

VARIABLES
    now, bpc, slots, window, count, admitted,  \* see ToolBudget
    call,       \* the call of each caller: its phase, tool, service and window
    ctx,        \* the context of each call
    worker,     \* where the goroutine for each source of a call is
    sctx,       \* the context of each source of a call
    sourceSem,  \* len(App.sourceSem)
    answers,    \* history: what each source answered
    sources,    \* the outcomes a call has added so far
    stored,     \* the sources whose items the call put in the evidence cache
    response,   \* the response of a call that has one
    audits      \* audit records written for the current or last call

budgetVars == <<now, bpc, slots, window, count, admitted>>
sourceVars == <<worker, sctx, sourceSem, answers, sources>>
vars == <<budgetVars, call, ctx, sourceVars, stored, response, audits>>

Budget == INSTANCE ToolBudget WITH Callers <- Calls, pc <- bpc

GroupedTools == {"service_status", "incident_context"}
SourceTools == GroupedTools \cup {"search_logs", "failed_crons"}
LocalTools == {"evidence_capabilities", "list_services", "get_evidence"}
Tools == SourceTools \cup LocalTools

(* The kinds a tool queries.                                               *)
Asks(tool) ==
    CASE tool = "service_status" -> {"gatus", "docker", "healthchecks", "beszel"}
      [] tool = "incident_context" -> Kinds
      [] tool = "search_logs" -> {"loki"}
      [] tool = "failed_crons" -> {"healthchecks"}
      [] OTHER -> {}

CollectorOf(tool, kind) ==
    CASE kind = "loki" -> "loki"
      [] kind = "ntfy" -> "ntfy"
      [] kind = "gatus" /\ tool = "service_status" -> "gatus_status"
      [] kind = "docker" /\ tool = "service_status" -> "docker_status"
      [] kind = "beszel" /\ tool = "service_status" -> "beszel_status"
      [] kind = "healthchecks" /\ tool = "service_status" -> "healthchecks_status"
      [] kind = "gatus" /\ tool # "service_status" -> "gatus_window"
      [] kind = "docker" /\ tool # "service_status" -> "docker_window"
      [] kind = "beszel" /\ tool # "service_status" -> "beszel_window"
      [] kind = "healthchecks" /\ tool # "service_status" -> "healthchecks_window"

NoCall == [phase |-> "idle", tool |-> "none", service |-> {}]
NoResponse == [isError |-> FALSE, complete |-> FALSE, audit |-> "none"]

(* "idle"; "running" in the body of the tool; "collecting" until every     *)
(* goroutine is done; "answered" until the deferred release.               *)
CallPhases == {"idle", "running", "collecting", "answered"}

(* "none"; "start" before the context check; "waiting" for a source slot;  *)
(* "begun" with a slot and a deadline; "asking" past the context check of  *)
(* the HTTP client; "finished".                                            *)
WorkerPhases == {"none", "start", "waiting", "begun", "asking", "finished"}

(* The kinds some service is bound to: only these ever have a goroutine.   *)
Bound == UNION Services

Asked(c) == Asks(call[c].tool) \cap call[c].service
Dead(c) == ctx[c] # "live"

----------------------------------------------------------------------------
(* What the adapter of a collector can answer.                             *)

Known(a) == \A i \in 1..Len(a.items) : ~ a.items[i].missing
Inside(a) == \A i \in 1..Len(a.items) : a.items[i].inWindow
Uncut(a) == ~ a.local /\ ~ a.upstream

(* The state of the bound object, or an item that says it is missing.  The *)
(* one of Docker or Beszel may carry a time outside the asked window.      *)
GatusState(a) == Len(a.items) = 1 /\ Inside(a) /\ Uncut(a) /\ a.discarded = 0
DockerState(a) == Len(a.items) = 1 /\ Uncut(a) /\ a.discarded = 0
BeszelState(a) == Len(a.items) = 1 /\ Uncut(a) /\ a.discarded = 0

(* The results in the window, cut to the limit, or that the endpoint is    *)
(* missing.                                                                *)
GatusHistory(a) ==
    /\ Known(a) \/ (Len(a.items) = 1 /\ ~ a.local)
    /\ a.local => a.items # << >>
    /\ Inside(a) /\ ~ a.upstream /\ a.discarded = 0

LokiLines(a) ==
    /\ a.local => a.items # << >>
    /\ Known(a) /\ Inside(a) /\ ~ a.upstream

Checks(a) == Known(a) /\ Inside(a) /\ Uncut(a) /\ a.discarded = 0

(* The proxy in front of ntfy may have cut the replay.                     *)
NtfyMessages(a) ==
    /\ a.local => a.items # << >>
    /\ Known(a) /\ Inside(a) /\ a.discarded = 0

CanAnswer(collector, a) ==
    /\ a = [NoAnswer EXCEPT !.err = a.err, !.items = a.items, !.local = a.local,
                            !.upstream = a.upstream, !.discarded = a.discarded]
    /\ \/ a.err # "none" /\ a.items = << >> /\ Uncut(a) /\ a.discarded = 0
       \/ /\ a.err = "none"
          /\ collector = "gatus_status" => GatusState(a)
          /\ collector = "docker_status" => DockerState(a) /\ Inside(a)
          /\ collector = "beszel_status" => BeszelState(a) /\ Inside(a)
          /\ collector = "docker_window" => DockerState(a)
          /\ collector = "beszel_window" => BeszelState(a)
          /\ collector = "gatus_window" => GatusHistory(a)
          /\ collector = "loki" => LokiLines(a)
          /\ collector = "ntfy" => NtfyMessages(a)
          /\ collector \in {"healthchecks_status", "healthchecks_window"} => Checks(a)

----------------------------------------------------------------------------
Init ==
    /\ Budget!Init
    /\ call = [c \in Calls |-> NoCall]
    /\ ctx = [c \in Calls |-> "live"]
    /\ worker = [c \in Calls |-> [k \in Kinds |-> "none"]]
    /\ sctx = [c \in Calls |-> [k \in Kinds |-> "live"]]
    /\ sourceSem = 0
    /\ answers = [c \in Calls |-> << >>]
    /\ sources = [c \in Calls |-> << >>]
    /\ stored = [c \in Calls |-> {}]
    /\ response = [c \in Calls |-> NoResponse]
    /\ audits = [c \in Calls |-> 0]

(* The response of a call, and its audit record.                           *)
Respond(c, r) ==
    /\ response' = [response EXCEPT ![c] = r]
    /\ audits' = [audits EXCEPT ![c] = @ + 1]
    /\ call' = [call EXCEPT ![c].phase = "answered"]

ErrorResponse == [isError |-> TRUE, complete |-> FALSE, audit |-> "error"]

----------------------------------------------------------------------------
(* withBudget *)

(* The response of a call that is refused, and its audit record: all that  *)
(* is left of it until the caller makes its next call.                     *)
Refuse(c) ==
    /\ response' = [response EXCEPT ![c] = ErrorResponse]
    /\ audits' = [audits EXCEPT ![c] = 1]
    /\ UNCHANGED <<call, ctx, sourceVars, stored>>

TakeSlot(c) ==
    /\ Budget!TakeSlot(c)
    /\ response' = [response EXCEPT ![c] = NoResponse]
    /\ audits' = [audits EXCEPT ![c] = 0]
    /\ UNCHANGED <<call, ctx, sourceVars, stored>>

(* All slots are taken.                                                    *)
TooMany(c) ==
    /\ bpc[c] = "idle" /\ slots >= Concurrent
    /\ Refuse(c)
    /\ UNCHANGED budgetVars

RateLimit(c) == Budget!RateLimit(c) /\ Refuse(c)

Admit(c) ==
    /\ Budget!Admit(c)
    /\ \E tool \in Tools, service \in Services :
          call' = [call EXCEPT ![c] = [phase |-> "running", tool |-> tool,
                                       service |-> service]]
    /\ UNCHANGED <<ctx, sourceVars, stored, response, audits>>

Release(c) ==
    /\ call[c].phase = "answered"
    /\ Budget!Release(c)
    /\ call' = [call EXCEPT ![c] = NoCall]
    /\ ctx' = [ctx EXCEPT ![c] = "live"]
    /\ worker' = [worker EXCEPT ![c] = [k \in Kinds |-> "none"]]
    /\ sctx' = [sctx EXCEPT ![c] = [k \in Kinds |-> "live"]]
    /\ answers' = [answers EXCEPT ![c] = << >>]
    /\ sources' = [sources EXCEPT ![c] = << >>]
    /\ stored' = [stored EXCEPT ![c] = {}]
    /\ response' = [response EXCEPT ![c] = NoResponse]
    /\ audits' = [audits EXCEPT ![c] = 0]
    /\ UNCHANGED sourceSem

----------------------------------------------------------------------------
(* The body of a tool *)

(* An invalid argument, an unknown service, a service without the binding  *)
(* that the tool needs, or an evidence id that is not found.               *)
Reject(c) ==
    /\ call[c].phase = "running"
    /\ Respond(c, ErrorResponse)
    /\ UNCHANGED <<budgetVars, ctx, sourceVars, stored>>

LocalAnswer(c) ==
    /\ call[c].phase = "running"
    /\ call[c].tool \in LocalTools
    /\ Respond(c, [isError |-> FALSE, complete |-> TRUE, audit |-> "ok"])
    /\ UNCHANGED <<budgetVars, ctx, sourceVars, stored>>

(* A goroutine for every source the tool asks, and the given outcomes for  *)
(* the sources it does not.                                                *)
FanOut(c, tool, others) ==
    /\ call[c].phase = "running"
    /\ call[c].tool = tool
    /\ call' = [call EXCEPT ![c].phase = "collecting"]
    /\ worker' = [worker EXCEPT ![c] =
                     [k \in Kinds |-> IF k \in Asked(c) THEN "start" ELSE "none"]]
    /\ sources' = [sources EXCEPT ![c] = others]
    /\ UNCHANGED <<budgetVars, ctx, sctx, sourceSem, answers, stored, response,
                   audits>>

(* A grouped response lists the kinds without a binding as absent, and the *)
(* ones the tool never asks as skipped.                                    *)
Others(c) ==
    [k \in Kinds \ Asked(c) |->
        IF k \in Asks(call[c].tool) THEN Absent ELSE Skipped]

ServiceStatus(c) == FanOut(c, "service_status", Others(c))

IncidentContext(c) == FanOut(c, "incident_context", Others(c))

SearchLogs(c) == Asked(c) # {} /\ FanOut(c, "search_logs", << >>)

(* With a service, its binding; without one, every Healthchecks source     *)
(* there is, which may be none at all.                                     *)
FailedCrons(c) ==
    FanOut(c, "failed_crons",
           IF Asked(c) = {} THEN [k \in {"healthchecks"} |-> Absent] ELSE << >>)

\* Mutant: a dead call does not wait for its goroutines.
JoinedOrDead(c) ==
    Dead(c) \/ \A k \in Kinds : worker[c][k] \in {"none", "finished"}

(* wg.Wait returns.                                                        *)
Joined(c) == \A k \in Kinds : worker[c][k] \in {"none", "finished"}

Found(c) == {k \in DOMAIN sources[c] : sources[c][k].itemCount > 0}

(* Evidence of these sources is put in the evidence cache.                 *)
PutAll(c, kept) == stored' = [stored EXCEPT ![c] = kept]

(* The coverage of all outcomes, the evidence cache, and the audit record. *)
(* The limits on items and bytes may leave a source with no evidence.      *)
JoinAll(c, tool) ==
    /\ call[c].phase = "collecting"
    /\ call[c].tool = tool
    /\ Joined(c)
    /\ LET all == [k \in DOMAIN sources[c] |-> NormalizeOutcome(sources[c][k])]
           coverage == OutcomeCoverage(all)
       IN  /\ sources' = [sources EXCEPT ![c] = all]
           /\ Respond(c, [isError |-> FALSE, complete |-> coverage.complete,
                          audit |-> AuditStatus(coverage)])
    /\ \E kept \in SUBSET Found(c) : PutAll(c, kept)
    /\ UNCHANGED <<budgetVars, ctx, worker, sctx, sourceSem, answers>>

JoinStatus(c) == JoinAll(c, "service_status")
JoinIncident(c) == JoinAll(c, "incident_context")
JoinCrons(c) == JoinAll(c, "failed_crons")

SearchResponse(o) ==
    [isError |-> FALSE, complete |-> o.complete,
     audit |-> IF o.complete THEN "ok" ELSE "partial"]

\* Mutant: the error response of search_logs falls through to the normal one.
JoinSearchTwice(c) ==
    /\ call[c].phase = "collecting"
    /\ call[c].tool = "search_logs"
    /\ Joined(c)
    /\ response' = [response EXCEPT ![c] = SearchResponse(sources[c]["loki"])]
    /\ audits' = [audits EXCEPT ![c] =
                     @ + IF sources[c]["loki"].status = "ok" THEN 1 ELSE 2]
    /\ call' = [call EXCEPT ![c].phase = "answered"]
    /\ PutAll(c, Found(c))
    /\ UNCHANGED <<budgetVars, ctx, sourceVars>>

(* search_logs has one source: if that is not ok, an error response and no *)
(* evidence.                                                               *)
JoinSearch(c) ==
    /\ call[c].phase = "collecting"
    /\ call[c].tool = "search_logs"
    /\ Joined(c)
    /\ IF sources[c]["loki"].status = "ok"
       THEN /\ Respond(c, SearchResponse(sources[c]["loki"]))
            /\ PutAll(c, Found(c))
       ELSE /\ Respond(c, ErrorResponse)
            /\ UNCHANGED stored
    /\ UNCHANGED <<budgetVars, ctx, sourceVars>>

----------------------------------------------------------------------------
(* The goroutine of one source: withSourceTimeout and its collector *)

Put(f, k, x) == [j \in DOMAIN f \cup {k} |-> IF j = k THEN x ELSE f[j]]

(* The goroutine adds its outcome and is done; outcomes keep their kind,   *)
(* so the order in which goroutines add them is not kept.                  *)
Add(c, k, o) ==
    /\ sources' = [sources EXCEPT ![c] = Put(@, k, o)]
    /\ worker' = [worker EXCEPT ![c][k] = "finished"]

Failed(c, k, err) == SourceErrorOutcome(ctx[c], sctx[c][k], err)

(* The context check in front of the slot.                                 *)
StartDead(c, k) ==
    /\ worker[c][k] = "start" /\ Dead(c)
    /\ Add(c, k, SourceErrorOutcome(ctx[c], ctx[c], "upstream"))
    /\ UNCHANGED <<budgetVars, call, ctx, sctx, sourceSem, answers, stored, response,
                   audits>>

Start(c, k) ==
    /\ worker[c][k] = "start" /\ ~ Dead(c)
    /\ worker' = [worker EXCEPT ![c][k] = "waiting"]
    /\ UNCHANGED <<budgetVars, call, ctx, sctx, sourceSem, answers, sources,
                   stored, response, audits>>

(* The select takes a free slot even when the context is done as well: Go  *)
(* picks one of the ready cases.  The deadline of the source starts now.   *)
EnterSource(c, k) ==
    /\ worker[c][k] = "waiting"
    /\ sourceSem < MaxSources
    /\ sourceSem' = sourceSem + 1
    /\ sctx' = [sctx EXCEPT ![c][k] = ctx[c]]
    /\ worker' = [worker EXCEPT ![c][k] = "begun"]
    /\ UNCHANGED <<budgetVars, call, ctx, answers, sources, stored, response, audits>>

\* Mutant: giving up also gives back a slot.
GiveUpReleases(c, k) ==
    /\ worker[c][k] = "waiting" /\ Dead(c)
    /\ Add(c, k, SourceErrorOutcome(ctx[c], ctx[c], "upstream"))
    /\ sourceSem' = IF sourceSem > 0 THEN sourceSem - 1 ELSE 0
    /\ UNCHANGED <<budgetVars, call, ctx, sctx, answers, stored, response, audits>>

\* Mutant: giving up forgets the WaitGroup.
GiveUpSilently(c, k) ==
    /\ worker[c][k] = "waiting" /\ Dead(c)
    /\ sources' = [sources EXCEPT ![c] = 
           Put(@, k, Outcome("canceled", "canceled", 0, FALSE))]
    /\ UNCHANGED <<budgetVars, call, ctx, worker, sctx, sourceSem, answers,
                   stored, response, audits>>

GiveUp(c, k) ==
    /\ worker[c][k] = "waiting" /\ Dead(c)
    /\ Add(c, k, SourceErrorOutcome(ctx[c], ctx[c], "upstream"))
    /\ UNCHANGED <<budgetVars, call, ctx, sctx, sourceSem, answers, stored, response,
                   audits>>

Ask(c, k) ==
    /\ worker[c][k] = "begun"
    /\ sctx[c][k] = "live"
    /\ worker' = [worker EXCEPT ![c][k] = "asking"]
    /\ UNCHANGED <<budgetVars, call, ctx, sctx, sourceSem, answers, sources,
                   stored, response, audits>>

(* A done context ends the request, or keeps it from starting.             *)
Abort(c, k) ==
    /\ worker[c][k] \in {"begun", "asking"}
    /\ sctx[c][k] # "live"
    /\ Add(c, k, Failed(c, k, "timeout"))
    /\ answers' = [answers EXCEPT ![c] = Put(@, k, [NoAnswer EXCEPT !.err = "timeout"])]
    /\ sourceSem' = sourceSem - 1
    /\ UNCHANGED <<budgetVars, call, ctx, sctx, stored, response, audits>>

(* The source answers, or fails; the last bytes of an answer may be read   *)
(* while the context ends.  past: the window ends, by the time the         *)
(* collector looks, more than 30 seconds ago.                              *)
Answer(c, k) ==
    /\ worker[c][k] = "asking"
    /\ \E a \in Answers, past \in BOOLEAN :
          LET collector == CollectorOf(call[c].tool, k) IN
          /\ CanAnswer(collector, a)
          /\ Add(c, k, Collected(collector, ctx[c], sctx[c][k], a, past))
          /\ answers' = [answers EXCEPT ![c] = Put(@, k, a)]
    /\ sourceSem' = sourceSem - 1
    /\ UNCHANGED <<budgetVars, call, ctx, sctx, stored, response, audits>>

----------------------------------------------------------------------------
(* The end of a context reaches the contexts made from it that still live. *)

\* Mutant: the context of a source is not made from the one of the call.
Detached(c, how) == sctx' = sctx

Reach(c, how) ==
    sctx' = [sctx EXCEPT ![c] =
                [k \in Kinds |-> IF worker[c][k] \in {"begun", "asking"}
                                    /\ sctx[c][k] = "live"
                                 THEN how ELSE sctx[c][k]]]

Cancel(c) ==
    /\ call[c].phase \in {"running", "collecting"}
    /\ ~ Dead(c)
    /\ ctx' = [ctx EXCEPT ![c] = "canceled"]
    /\ Reach(c, "canceled")
    /\ UNCHANGED <<budgetVars, call, worker, sourceSem, answers, sources,
                   stored, response, audits>>

TotalTimeout(c) ==
    /\ call[c].phase = "collecting"
    /\ ~ Dead(c)
    /\ ctx' = [ctx EXCEPT ![c] = "deadline"]
    /\ Reach(c, "deadline")
    /\ UNCHANGED <<budgetVars, call, worker, sourceSem, answers, sources,
                   stored, response, audits>>

SourceTimeout(c, k) ==
    /\ worker[c][k] \in {"begun", "asking"}
    /\ sctx[c][k] = "live"
    /\ sctx' = [sctx EXCEPT ![c][k] = "deadline"]
    /\ UNCHANGED <<budgetVars, call, ctx, worker, sourceSem, answers, sources,
                   stored, response, audits>>

Tick ==
    /\ Budget!Tick
    /\ UNCHANGED <<call, ctx, sourceVars, stored, response, audits>>

Goroutine(c, k) ==
    \/ StartDead(c, k) \/ Start(c, k) \/ EnterSource(c, k) \/ GiveUp(c, k)
    \/ Ask(c, k) \/ Abort(c, k) \/ Answer(c, k) \/ SourceTimeout(c, k)

Next ==
    \/ \E c \in Calls :
          \/ TakeSlot(c) \/ TooMany(c) \/ RateLimit(c) \/ Admit(c) \/ Release(c)
          \/ Reject(c) \/ LocalAnswer(c)
          \/ ServiceStatus(c) \/ IncidentContext(c)
          \/ SearchLogs(c) \/ FailedCrons(c)
          \/ JoinStatus(c) \/ JoinIncident(c) \/ JoinCrons(c) \/ JoinSearch(c)
          \/ Cancel(c) \/ TotalTimeout(c)
          \/ \E k \in Bound : Goroutine(c, k)
    \/ Tick

Spec == Init /\ [][Next]_vars

(* What the scheduler owes a call: every step of its own that stays        *)
(* possible is taken.  Nothing is owed by a source, by the clock of the    *)
(* rate limit, or by the client.                                           *)
CallSteps(c) ==
    \/ RateLimit(c) \/ Admit(c) \/ Release(c) \/ Reject(c) \/ LocalAnswer(c)
    \/ ServiceStatus(c) \/ IncidentContext(c) \/ SearchLogs(c) \/ FailedCrons(c)
    \/ JoinStatus(c) \/ JoinIncident(c) \/ JoinCrons(c) \/ JoinSearch(c)

WorkerSteps(c, k) ==
    \/ StartDead(c, k) \/ Start(c, k) \/ GiveUp(c, k) \/ Ask(c, k)
    \/ Abort(c, k)

Fairness ==
    \A c \in Calls :
        /\ WF_vars(CallSteps(c))
        /\ \A k \in Bound : WF_vars(WorkerSteps(c, k))

FairSpec == Spec /\ Fairness

(* A timer that fires in the end.                                          *)
Timers == \A c \in Calls : WF_vars(TotalTimeout(c))

----------------------------------------------------------------------------
(* Properties *)

TypeOK ==
    /\ Budget!TypeOK
    /\ \A c \in Calls :
          /\ call[c].phase \in CallPhases
          /\ call[c].tool \in Tools \cup {"none"}
          /\ call[c].service \in Services \cup {{}}
    /\ ctx \in [Calls -> Contexts]
    /\ worker \in [Calls -> [Kinds -> WorkerPhases]]
    /\ sctx \in [Calls -> [Kinds -> Contexts]]
    /\ sourceSem \in 0..MaxSources
    /\ audits \in [Calls -> 0..1]

SlotHolders ==
    {p \in Calls \X Kinds : worker[p[1]][p[2]] \in {"begun", "asking"}}

(* Source slots are taken exactly by the goroutines between the select and *)
(* their return, over all calls: none leaks on a failed, canceled or       *)
(* timed-out collection, and the limit of concurrent source requests holds.*)
SourceSlotsExact == sourceSem = Cardinality(SlotHolders)

(* No goroutine outlives the budget slot of its call, so max_concurrent_   *)
(* tools bounds source work too, and no outcome is added to a response     *)
(* that was already given.                                                 *)
NoOrphans ==
    \A c \in Calls :
        (\E k \in Kinds : worker[c][k] \notin {"none", "finished"}) =>
            bpc[c] = "running" /\ call[c].phase = "collecting"

Given(c) == call[c].phase = "answered" /\ call[c].tool \in SourceTools
            /\ ~ response[c].isError

(* A grouped response has the outcome of every kind, and a kind is left    *)
(* out of coverage only if the service lacks it or the tool does not ask   *)
(* it: a failure is never turned into an absence.  Only sources that are ok*)
(* leave evidence for get_evidence.                                        *)
EverySourceAccounted ==
    \A c \in Calls : Given(c) =>
        /\ Configured(sources[c]) = Asked(c)
        /\ call[c].tool \in GroupedTools => DOMAIN sources[c] = Kinds
        /\ \A k \in DOMAIN sources[c] :
              /\ sources[c][k].reason = "no_binding" => k \notin call[c].service
              /\ sources[c][k].complete \/ sources[c][k].reason # ""
        /\ \A k \in stored[c] : sources[c][k].status = "ok"

Unbroken(a) ==
    /\ a.err = "none" /\ ~ a.upstream /\ ~ a.local /\ a.discarded = 0

(* A response says complete, and is audited as "ok", only if every source  *)
(* it asked answered, and no answer was cut or had records discarded.      *)
CompleteMeansWhole ==
    \A c \in Calls : Given(c) =>
        /\ response[c].complete <=> response[c].audit = "ok"
        /\ response[c].complete =>
              \A k \in Asked(c) : k \in DOMAIN answers[c]
                                  /\ Unbroken(answers[c][k])

(* evidence-model.md: "`complete` is true only when the source answered    *)
(* the requested coverage".  A source that does not know the bound object  *)
(* did not.                                                                *)
CompleteMeansAnswered ==
    \A c \in Calls : Given(c) /\ response[c].complete =>
        \A k \in Asked(c) : \A i \in 1..Len(answers[c][k].items) :
            ~ answers[c][k].items[i].missing

(* The outcome of a call that was canceled says so for every source that   *)
(* failed, whatever deadline or error came on top.                         *)
CanceledSaysCanceled ==
    [][\A c \in Calls, k \in Kinds :
          ctx[c] = "canceled" /\ worker[c][k] # "finished"
             /\ worker'[c][k] = "finished" =>
          sources'[c][k].status \in {"ok", "canceled"}]_vars

(* evidence-model.md: "Cancellation releases the tool and source slots" -  *)
(* without help from a source or a timer.                                  *)
CancellationReleases ==
    \A c \in Calls : ctx[c] = "canceled" ~> bpc[c] = "idle"
                            /\ \A p \in SlotHolders : p[1] # c

(* Every call that takes a budget slot returns it when the total deadlines *)
(* fire, even if no source ever answers and other calls keep taking the    *)
(* source slots.                                                           *)
CallsEnd == Timers => \A c \in Calls : bpc[c] # "idle" ~> bpc[c] = "idle"
============================================================================
