------------------------------ MODULE Adapters ------------------------------
(***************************************************************************)
(* The adapters that read a source with one request: what each makes of    *)
(* the rows of the response, and the outcome its collector reports.  Every *)
(* row has an id of its own, so that a property can follow it; text,       *)
(* redaction, severities and attributes are left out.                      *)
(*                                                                         *)
(* Time is counted in units of the 30 seconds that the adapters allow for  *)
(* a request.  Row times are positive; 0 is a time that does not parse.    *)
(***************************************************************************)
EXTENDS Evidence

CONSTANTS
    Windows,       \* the requested windows, as [start, end]
    Snapshots,     \* when responses were read from the source
    Limits,        \* the item limits of the requests
    Serials,       \* the serial numbers of the first item of a call
    GatusReplies, DockerReplies, LokiSources, HealthchecksReplies,
    NtfyReplies    \* the rows the sources hold

Tolerance == 1

(* By what else than its state a binding selects checks, and the states.   *)
Criteria == {"identity", "name", "tags"}
States == {"up", "down", "grace", "paused", "new"}

(* What the rows say: see the section of each source.  Loki holds its      *)
(* lines newest first and lists the stream of each of them once.           *)
RowsAssumption ==
    /\ GatusReplies \subseteq
          Seq([id : Nat, match : {"key", "alias", "none"},
               results : Seq([id : Nat, time : Nat])])
    /\ DockerReplies \subseteq Seq([id : Nat, named : BOOLEAN])
    /\ LokiSources \subseteq
          [lines : Seq([id : Nat, stream : Nat, time : Nat, usable : BOOLEAN]),
           streams : Seq([name : Nat, labels : Nat]), honours : BOOLEAN]
    /\ \A held \in LokiSources :
          /\ \A j, k \in DOMAIN held.lines :
                j < k => held.lines[k].time <= held.lines[j].time
          /\ \A k \in DOMAIN held.lines : \E p \in DOMAIN held.streams :
                held.streams[p].name = held.lines[k].stream
          /\ \A p, q \in DOMAIN held.streams :
                held.streams[p].name = held.streams[q].name => p = q
    /\ HealthchecksReplies \subseteq
          [checks : Seq([id : Nat, meets : SUBSET Criteria, state : States]),
           filter : [criteria : SUBSET Criteria, status : States \cup {""}]]
    /\ \A held \in HealthchecksReplies :
          held.filter.criteria = {} => held.filter.status = ""
    /\ NtfyReplies \subseteq
          [messages : Seq([id : Nat, mid : Nat, time : Nat, message : BOOLEAN]),
           truncated : BOOLEAN]

AdaptersAssumption ==
    /\ \A w \in Windows : w.start \in Nat /\ w.end \in Nat /\ w.start < w.end
    /\ Snapshots \subseteq Nat \ {0}
    /\ Limits \subseteq Nat \ {0} /\ Serials \subseteq Nat
    /\ RowsAssumption

VARIABLES
    pc,       \* "idle", "done"
    request,  \* the collector, the window, the limit and the clocks
    rows,     \* what the source holds, as the response lists it
    answer,   \* what the adapter hands back
    outcome   \* what the collector makes of it

vars == <<pc, request, rows, answer, outcome>>

(* snapshotAt: when the response was read from the source, before the call *)
(* if the source cache gave it.  now: the clock after the call.            *)
Requests(collector) ==
    {[collector |-> collector, start |-> w.start, end |-> w.end, limit |-> l,
      serial |-> s, snapshotAt |-> at, now |-> n] :
        w \in Windows, l \in Limits, s \in Serials, at \in Snapshots,
        n \in Snapshots}

Within(r, t) == t \in r.start..r.end
SnapshotInWindow(r) == r.snapshotAt \in r.start..r.end + Tolerance

Failed(err) == [NoAnswer EXCEPT !.err = err]
Answered(items) == [NoAnswer EXCEPT !.items = items]

(* A row that is shown as it was when the response was read.               *)
Snapshot(r, row, k) ==
    [Item(row.id, r.snapshotAt, row.id, 0, r.serial + k)
        EXCEPT !.inWindow = SnapshotInWindow(r)]

MissingItem(r) ==
    [Item(0, r.snapshotAt, 0, 0, r.serial)
        EXCEPT !.missing = TRUE, !.inWindow = SnapshotInWindow(r)]

----------------------------------------------------------------------------
(* Gatus: rows are endpoints, in the order of the response, with their     *)
(* results.  match says how the endpoint answers to the configured key:    *)
(* by its key, by its name or group and name, or not.                      *)

(* fetchAll: the two routes, each "lost", "not_found", "refused" or "rows": the      *)
(* second is asked if the first gives no response or a 404.                *)
FetchAll(route) ==
    LET final == SelectSeq(route, LAMBDA p : p \notin {"lost", "not_found"})
    IN  IF final = << >> THEN "lost" ELSE final[1]

Routes == {"lost", "not_found", "refused", "rows"} \X
          {"lost", "not_found", "refused", "rows"}

Matching(list, how) == Chosen(list, {k \in DOMAIN list : list[k].match = how})

\* Mutant: the first row that answers to the key or an alias is taken.
FirstEndpoint(list) ==
    LET known == Chosen(list, {k \in DOMAIN list : list[k].match # "none"})
    IN  IF known = << >> THEN << >> ELSE <<known[1]>>

(* The endpoints that the key identifies: none, one, or several when it is *)
(* ambiguous.                                                              *)
FindEndpoint(list) ==
    IF Matching(list, "key") # << >> THEN Matching(list, "key")
    ELSE Matching(list, "alias")

Dated(results) == {k \in DOMAIN results : results[k].time > 0}

(* The first result among those of the greatest time; without a date the   *)
(* first result, at the time of the response.                              *)
LatestResult(r, ep) ==
    LET dated == Dated(ep.results)
        latest == {k \in dated : \A j \in dated :
                                    ep.results[j].time <= ep.results[k].time}
    IN  CASE ep.results = << >> -> Snapshot(r, ep, 0)
          [] ep.results # << >> /\ dated = {} ->
                Snapshot(r, ep.results[1], 0)
          [] OTHER -> LET k == CHOOSE k \in latest : \A j \in latest : k <= j
                      IN  Item(ep.results[k].id, ep.results[k].time, ep.id, 0,
                               r.serial)

GatusStatusOf(r, list) ==
    LET found == FindEndpoint(list)
    IN  CASE Len(found) = 0 -> Answered(<<MissingItem(r)>>)
          [] Len(found) = 1 -> Answered(<<LatestResult(r, found[1])>>)
          [] OTHER -> Failed("upstream")

(* The results in the window, sorted by time and else left in their order, *)
(* and the newest of them.                                                 *)
ResultsInWindow(r, ep) ==
    LET in == Chosen(ep.results, {k \in Dated(ep.results) :
                                     Within(r, ep.results[k].time)})
        kept == KeepNewest([k \in DOMAIN in |->
                              Item(in[k].id, in[k].time, ep.id, k, 0)],
                           r.limit)
    IN  [Answered([k \in DOMAIN kept.items |->
                     [kept.items[k] EXCEPT !.order = 0, !.serial = r.serial + k]])
           EXCEPT !.local = kept.cut]

GatusWindowOf(r, list) ==
    LET found == FindEndpoint(list)
    IN  CASE Len(found) = 0 ->
                Answered(IF SnapshotInWindow(r) THEN <<MissingItem(r)>>
                         ELSE << >>)
          [] Len(found) = 1 -> ResultsInWindow(r, found[1])
          [] OTHER -> Failed("upstream")

----------------------------------------------------------------------------
(* Docker: rows are containers; named says that one of its names is the    *)
(* configured one.  The first such row is taken.                           *)
DockerOf(r, list) ==
    LET found == Chosen(list, {k \in DOMAIN list : list[k].named})
    IN  Answered(<<IF found = << >> THEN MissingItem(r)
                   ELSE Snapshot(r, found[1], 0)>>)

----------------------------------------------------------------------------
(* Loki: the source holds lines, each in a stream, and sends the newest of *)
(* those in the window stream by stream; a source that does not honour the *)
(* query sends all it holds.  A line that is not usable has no timestamp   *)
(* that parses or is not a pair.  labels is the rank of what the labels    *)
(* that the adapter lets through say: streams may not differ in it.        *)

AskedLines(limit) == limit + 1

(* The positions of the lines that are sent.                               *)
Sent(r, held) ==
    LET asked == {k \in DOMAIN held.lines : Within(r, held.lines[k].time)}
        newest == Ranked(asked, ByPosition(asked))
    IN  IF held.honours
        THEN {newest[i] : i \in {i \in DOMAIN newest : i <= AskedLines(r.limit)}}
        ELSE DOMAIN held.lines

Place(held, k) ==
    CHOOSE p \in DOMAIN held.streams :
        held.streams[p].name = held.lines[k].stream

StreamByStream(held) ==
    {p \in (DOMAIN held.lines) \X (DOMAIN held.lines) :
        \/ Place(held, p[1]) < Place(held, p[2])
        \/ Place(held, p[1]) = Place(held, p[2]) /\ p[1] < p[2]}

Usable(r, held) ==
    {k \in Sent(r, held) :
        held.lines[k].usable /\ Within(r, held.lines[k].time)}

LogLine(r, held, k, order) ==
    Item(held.lines[k].id, held.lines[k].time,
         held.streams[Place(held, k)].labels, order, r.serial + order + 1)

LokiOf(r, held) ==
    LET in == Ranked(Usable(r, held), StreamByStream(held))
        kept == KeepNewest([i \in DOMAIN in |-> LogLine(r, held, in[i], i - 1)],
                           r.limit)
    IN  [Answered(kept.items) EXCEPT
            !.local = kept.cut,
            !.discarded = Cardinality({k \in Sent(r, held) :
                                          ~ held.lines[k].usable})]

----------------------------------------------------------------------------
(* Healthchecks: rows are checks; meets holds the criteria of the filter   *)
(* that the check meets.  A check is selected by all that the filter       *)
(* names.  The filter of a binding has criteria and may have a status (a   *)
(* status alone is refused at the start); without a service the window     *)
(* collector has an empty filter, and takes every check.                   *)
Selects(filter) == filter.criteria # {} \/ filter.status # ""

Meets(check, filter) ==
    /\ filter.criteria \subseteq check.meets
    /\ filter.status \in {"", check.state}

FilterChecks(checks, filter) ==
    Chosen(checks, {k \in DOMAIN checks :
                       Selects(filter) /\ Meets(checks[k], filter)})

SnapshotsOf(r, checks) ==
    Answered([k \in DOMAIN checks |-> Snapshot(r, checks[k], k)])

HealthchecksStatusOf(r, checks, filter) ==
    LET matched == FilterChecks(checks, filter)
    IN  IF matched = << >> /\ Selects(filter) THEN Failed("no_match")
        ELSE SnapshotsOf(r, matched)

\* Mutant: the status of the binding also selects for the window.
StatusKept(filter) == filter

(* A binding to checks that are up must not hide those that fail.          *)
HistoryFilter(filter) == [filter EXCEPT !.status = ""]

Failing(check) == check.state \in {"down", "grace", "paused"}

FailedInWindow(r, checks, filter) ==
    LET matched == IF Selects(filter) THEN FilterChecks(checks, filter)
                   ELSE checks
    IN  IF matched = << >> /\ Selects(filter) THEN Failed("no_match")
        ELSE IF ~ SnapshotInWindow(r) THEN Answered(<< >>)
        ELSE SnapshotsOf(r, Chosen(matched, {k \in DOMAIN matched :
                                               Failing(matched[k])}))

----------------------------------------------------------------------------
(* ntfy: rows are messages, with an event, a time or none, and an id that  *)
(* orders them or none (0).  Messages of one time without an id are told   *)
(* apart by the serial numbers of their items.                             *)

(* The order of the positions in the stable sort by time and id.           *)
EarlierFirst(messages) ==
    {p \in (DOMAIN messages) \X (DOMAIN messages) :
        LET a == messages[p[1]]  b == messages[p[2]]
        IN  a.time < b.time \/ (a.time = b.time /\ (a.mid < b.mid \/
               (a.mid = b.mid /\ p[1] < p[2])))}

MessageTime(r, m) == IF m.time > 0 THEN m.time ELSE r.snapshotAt

MessageInWindow(r, m) ==
    IF m.time > 0 THEN Within(r, m.time) ELSE SnapshotInWindow(r)

Shown(r, messages) ==
    {k \in DOMAIN messages :
        messages[k].message /\ MessageInWindow(r, messages[k])}

(* Sorting the messages and then leaving out those that are not shown      *)
(* comes to sorting the shown ones.                                        *)
HistoryDetail(r, held) ==
    LET in == Arranged(held.messages, Shown(r, held.messages),
                       EarlierFirst(held.messages))
        kept == KeepNewest([k \in DOMAIN in |->
                              Item(in[k].id, MessageTime(r, in[k]), in[k].mid, 0,
                                   r.serial + k)],
                           r.limit)
    IN  [Answered(kept.items) EXCEPT
            !.upstream = held.truncated, !.local = kept.cut]

----------------------------------------------------------------------------
(* What each collector makes of the rows, whatever their order.            *)
AnswerTo(r, held) ==
    CASE r.collector = "gatus_status" -> GatusStatusOf(r, held)
      [] r.collector = "gatus_window" -> GatusWindowOf(r, held)
      [] r.collector \in {"docker_status", "docker_window"} -> DockerOf(r, held)
      [] r.collector = "loki" -> LokiOf(r, held)
      [] r.collector = "healthchecks_status" ->
            HealthchecksStatusOf(r, held.checks, held.filter)
      [] r.collector = "healthchecks_window" ->
            FailedInWindow(r, held.checks, HistoryFilter(held.filter))
      [] r.collector = "ntfy" -> HistoryDetail(r, held)

(* markSnapshotHistory looks at the clock after the call.                  *)
Past(r) == r.end + Tolerance < r.now

Return(r, held, a) ==
    /\ pc' = "done"
    /\ request' = r /\ rows' = held /\ answer' = a
    /\ outcome' = Collected(r.collector, "live", "live", a, Past(r))

Collect(collector, held) ==
    \E r \in Requests(collector) :
        r.snapshotAt <= r.now /\ Return(r, held, AnswerTo(r, held))

(* No response, a status other than 200, or a body that does not decode.   *)
RequestFails ==
    /\ pc = "idle"
    /\ \E c \in Collectors \ {"gatus_status", "gatus_window", "beszel_status",
                              "beszel_window"},
          err \in {"authentication", "timeout", "upstream"} :
          \E r \in Requests(c) : Return(r, << >>, Failed(err))

GatusFails ==
    /\ pc = "idle"
    /\ \E c \in {"gatus_status", "gatus_window"}, route \in Routes,
          err \in {"authentication", "timeout", "upstream"} :
          /\ FetchAll(route) # "rows"
          /\ \E r \in Requests(c) : Return(r, << >>, Failed(err))

CollectGatus ==
    /\ pc = "idle"
    /\ \E c \in {"gatus_status", "gatus_window"}, list \in GatusReplies,
          route \in Routes :
          FetchAll(route) = "rows" /\ Collect(c, list)

CollectDocker ==
    /\ pc = "idle"
    /\ \E c \in {"docker_status", "docker_window"}, list \in DockerReplies :
          Collect(c, list)

CollectLoki ==
    /\ pc = "idle"
    /\ \E held \in LokiSources : Collect("loki", held)

CollectHealthchecks ==
    /\ pc = "idle"
    /\ \E held \in HealthchecksReplies :
          \/ Selects(held.filter) /\ Collect("healthchecks_status", held)
          \/ Collect("healthchecks_window", held)

CollectNtfy ==
    /\ pc = "idle"
    /\ \E held \in NtfyReplies : Collect("ntfy", held)

Init ==
    /\ pc = "idle"
    /\ request = << >> /\ rows = << >>
    /\ answer = NoAnswer
    /\ outcome = Outcome("none", "", 0, FALSE)

Next ==
    \/ RequestFails \/ GatusFails
    \/ CollectGatus \/ CollectDocker \/ CollectLoki
    \/ CollectHealthchecks \/ CollectNtfy

Spec == Init /\ [][Next]_vars
----------------------------------------------------------------------------
(* Properties *)

Ok == pc = "done" /\ outcome.status = "ok"

Records(items) == {items[k].record : k \in DOMAIN items}

(* The records of the source that the collector was asked for: those that  *)
(* are dated in the window, the newest one, those selected by the binding. *)
(* Of a source that can only tell its present state nothing is asked for   *)
(* when the response lies outside the window.  A window asks for all       *)
(* checks of the binding that fail, whatever status the binding names.     *)
AskedFor(r, held) ==
    CASE r.collector = "gatus_window" /\ Len(FindEndpoint(held)) = 1 ->
            {x \in Range(FindEndpoint(held)[1].results) :
                x.time > 0 /\ Within(r, x.time)}
      [] r.collector = "gatus_status" /\ Len(FindEndpoint(held)) = 1 ->
            LET results == Range(FindEndpoint(held)[1].results)
            IN  {x \in results : x.time > 0 /\
                    \A y \in results \ {x} : y.time < x.time}
      [] \/ r.collector = "docker_status"
         \/ r.collector = "docker_window" /\ SnapshotInWindow(r) ->
            LET named == {c \in Range(held) : c.named}
            IN  IF Cardinality(named) = 1 THEN named ELSE {}
      [] r.collector = "loki" ->
            {l \in Range(held.lines) : Within(r, l.time)}
      [] r.collector = "ntfy" ->
            {m \in Range(held.messages) :
                m.message /\ m.time > 0 /\ Within(r, m.time)}
      [] r.collector = "healthchecks_status" ->
            {c \in Range(held.checks) : Meets(c, held.filter)}
      [] r.collector = "healthchecks_window" /\ SnapshotInWindow(r) ->
            {c \in Range(held.checks) :
                held.filter.criteria \subseteq c.meets /\ Failing(c)}
      [] OTHER -> {}

(* An outcome that is complete has every record that was asked for: none   *)
(* was cut off by the source or by a limit of its own, none was given up   *)
(* because it could not be read, and none filtered out.                    *)
CompleteIsEverything ==
    Ok /\ outcome.complete =>
        /\ {x.id : x \in AskedFor(request, rows)}
              \subseteq Records(ItemsOf(request.collector, answer))
        /\ request.collector = "ntfy" => ~ rows.truncated

(* What a limit drops is never newer than what it keeps, and a limit drops *)
(* nothing while there is room.                                            *)
KeepsNewest ==
    Ok /\ request.collector \in {"gatus_window", "loki", "ntfy"} =>
        /\ \A x \in AskedFor(request, rows), k \in DOMAIN answer.items :
              \/ x.id \in Records(answer.items)
              \/ request.collector = "loki" /\ ~ x.usable
              \/ x.time <= answer.items[k].time
        /\ outcome.localTruncated => Len(answer.items) = request.limit

(* The order in which a source lists its endpoints, streams or messages    *)
(* decides nothing, if the messages have ids of their own and the streams  *)
(* labels that tell them apart.                                            *)
Turned(r, held) ==
    CASE r.collector \in {"gatus_status", "gatus_window"} -> Reverse(held)
      [] r.collector = "loki" -> [held EXCEPT !.streams = Reverse(@)]
      [] r.collector = "ntfy" -> [held EXCEPT !.messages = Reverse(@)]
      [] OTHER -> held

Identified(r, held) ==
    /\ r.collector = "ntfy" =>
          \A j, k \in DOMAIN held.messages :
             held.messages[j].mid = held.messages[k].mid => j = k
    /\ r.collector = "loki" =>
          \A p, q \in DOMAIN held.streams :
             held.streams[p].labels = held.streams[q].labels => p = q

Told(a) ==
    <<a.err, a.local, a.discarded,
      [k \in DOMAIN a.items |-> a.items[k].record]>>

RowOrderIrrelevant ==
    pc = "done" /\ rows # << >> /\ Identified(request, rows) =>
        Told(AnswerTo(request, Turned(request, rows))) = Told(answer)
=============================================================================
