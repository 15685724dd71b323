------------------------------- MODULE Startup -------------------------------
(***************************************************************************)
(* The start of the command up to the clients that it serves with, and the *)
(* service registry, which a host reads page by page with list_services.   *)
(***************************************************************************)
EXTENDS Config, Sequences

CONSTANTS
    Files,         \* the configuration files
    DefaultPage,   \* the page size of list_services, 50 in the code
    MaxPage        \* its bound, 200 in the code

(* What the decoder can give: a setting is a number whatever its form.     *)
StartupAssumption ==
    /\ DefaultPage \in Nat \ {0} /\ MaxPage \in Nat \ {0}
    /\ \A f \in Files :
          /\ \A l \in DOMAIN LimitRules : f.limits[l].value \in Int
          /\ \A l \in DOMAIN AuditRules : f.audit[l].value \in Int
          /\ IsFiniteSet(DOMAIN f.services)
          /\ DOMAIN f.services = 1..Cardinality(DOMAIN f.services)
          /\ \A i \in DOMAIN f.services : f.services[i].id \in Nat

VARIABLES
    step,      \* "load", "open", "app", "serve", "exit"
    flag,      \* "run", "validate", "doctor"
    file,      \* the configuration file
    code,      \* the exit code of the command
    opened,    \* the audit file is open
    clients,   \* the client maps of App: of each kind, the headers of each source
    order,     \* Registry.order
    reader     \* the pages that a host reads

vars == <<step, flag, file, code, opened, clients, order, reader>>

NoReader == [matching |-> {}, limit |-> 0, offset |-> 0, seen |-> << >>, ended |-> TRUE]

Init ==
    /\ step = "load"
    /\ flag \in {"run", "validate", "doctor"}
    /\ file \in Files
    /\ code = 0 /\ opened = FALSE
    /\ clients = [k \in SourceKinds |-> << >>]
    /\ order = << >> /\ reader = NoReader

Exit(c) == step' = "exit" /\ code' = c

----------------------------------------------------------------------------
(* LoadFile: the file itself may be refused, for its permissions.          *)
Load ==
    /\ step = "load"
    /\ \/ Exit(1)
       \/ ~ Parses(file) /\ Exit(1)
       \/ Parses(file) /\ step' = "open" /\ UNCHANGED code
    /\ UNCHANGED <<flag, file, opened, clients, order, reader>>

(* Only the server writes an audit file.                                   *)
OpenAudit ==
    /\ step = "open"
    /\ IF flag # "run" \/ file.audit.file = ""
       THEN step' = "app" /\ UNCHANGED <<code, opened>>
       ELSE \/ step' = "app" /\ opened' = TRUE /\ UNCHANGED code
            \/ Exit(1) /\ UNCHANGED opened
    /\ UNCHANGED <<flag, file, clients, order, reader>>

(* What AuthHeaders can make of the headers of a source, in the order that *)
(* the iteration over the map happens to have, and its token.              *)
AuthHeaders(s, token) ==
    LET names == {h.name : h \in s.headers}
        spellings == {h.spelling : h \in s.headers}
        static == {m \in [names -> spellings] :
                      \A n \in names : [name |-> n, spelling |-> m[n]] \in s.headers}
    IN  IF token = "" THEN static
        ELSE {[n \in names \cup {AuthName(s)} |->
                 IF n = AuthName(s) THEN token ELSE m[n]] : m \in static}

(* ResolveToken: no token without token_env and token_file, and otherwise  *)
(* never an empty one.                                                     *)
TokenOf(s) == IF s.auth = {} THEN "" ELSE "token"

(* registry.New: every id as often as it is configured, sorted.            *)
RegistryOrder(services) ==
    LET ids == {services[i].id : i \in DOMAIN services}
    IN  CHOOSE sorted \in [DOMAIN services -> ids] :
            /\ \A i, j \in DOMAIN services : i < j => sorted[i] <= sorted[j]
            /\ \A id \in ids : Cardinality({i \in DOMAIN services : sorted[i] = id})
                   = Cardinality({i \in DOMAIN services : services[i].id = id})

(* NewApp fails as a whole when one token or the pool of certificates does *)
(* not load.                                                               *)
NewApp ==
    /\ step = "app"
    /\ \/ Exit(1) /\ UNCHANGED <<clients, order>>
       \/ /\ LET names == DOMAIN file.sources
                 possible == [n \in names |->
                                AuthHeaders(file.sources[n], TokenOf(file.sources[n]))]
             IN  \E headers \in [names -> UNION {possible[n] : n \in names}] :
                    /\ \A n \in names : headers[n] \in possible[n]
                    /\ clients' = [k \in SourceKinds |->
                          [n \in {n \in names : file.sources[n].kind = k} |-> headers[n]]]
          /\ order' = RegistryOrder(file.services)
          /\ IF flag = "validate" THEN Exit(0) ELSE step' = "serve" /\ UNCHANGED code
    /\ UNCHANGED <<flag, file, opened, reader>>

----------------------------------------------------------------------------
(* list_services.  A prefix selects some of the services; the host goes on *)
(* at the offset and by the page size that the response names, up to the   *)
(* total that it names.                                                    *)

Clamp(v) == IF v <= 0 THEN DefaultPage ELSE IF v > MaxPage THEN MaxPage ELSE v

\* Mutant: the page size of the request is reported, not the one applied.
RequestedLimit(v) == IF v <= 0 THEN DefaultPage ELSE v

(* The page size that the response names.                                  *)
ReportedLimit(v) == Clamp(v)

(* The members of a set of numbers in their order.                         *)
Ascending(S) ==
    CHOOSE s \in [1..Cardinality(S) -> S] : \A i, j \in DOMAIN s : i < j => s[i] < s[j]

(* The ids that match, in the order of the registry.                       *)
Matched(matching) ==
    LET places == Ascending({i \in DOMAIN order : order[i] \in matching})
    IN  [k \in DOMAIN places |-> order[places[k]]]

Page(matching, offset, limit) ==
    LET all == Matched(matching)
        end == IF offset + limit > Len(all) THEN Len(all) ELSE offset + limit
    IN  SubSeq(all, offset + 1, end)

StartListing ==
    /\ step = "serve" /\ flag = "run" /\ reader = NoReader
    /\ \E m \in SUBSET {order[i] : i \in DOMAIN order}, n \in 0..(MaxPage + 1) :
          reader' = [NoReader EXCEPT !.matching = m, !.limit = n, !.ended = FALSE]
    /\ UNCHANGED <<step, flag, file, code, opened, clients, order>>

List ==
    /\ step = "serve" /\ ~ reader.ended
    /\ LET total == Len(Matched(reader.matching))
           next == reader.offset + ReportedLimit(reader.limit)
       IN  reader' = [reader EXCEPT
                        !.seen = @ \o Page(reader.matching, reader.offset, Clamp(reader.limit)),
                        !.offset = next,
                        !.ended = next >= total]
    /\ UNCHANGED <<step, flag, file, code, opened, clients, order>>

Next == Load \/ OpenAudit \/ NewApp \/ StartListing \/ List

Spec == Init /\ [][Next]_vars

----------------------------------------------------------------------------
(* Properties *)

(* What the parts that take the limits rely on: no call outlives the total *)
(* timeout waiting for one source, a request without a window is accepted, *)
(* and every budget admits something.                                      *)
LimitsConsistent ==
    LET l == Limits(file.limits)
    IN  /\ 0 < l.per_source_timeout /\ l.per_source_timeout <= l.total_timeout
        /\ 0 < l.default_window /\ l.default_window <= l.max_incident_window
        /\ \A f \in {"max_log_lines", "max_evidence_items", "max_log_line_bytes",
                     "max_body_bytes", "max_incident_response_bytes",
                     "evidence_cache_ttl", "evidence_cache_max_bytes",
                     "max_tool_calls_per_minute", "max_concurrent_tools"} : 0 < l[f]
        /\ opened => \A f \in DOMAIN AuditRules :
                        0 < Kept(AuditRules[f], file.audit[f])

(* Every binding of a service reaches a client of its kind.                *)
BindingsServed ==
    \A i \in DOMAIN file.services :
        LET refs == file.services[i].refs
        IN  \A k \in DOMAIN refs : refs[k] \in DOMAIN clients[k]

(* Every header of the file is sent with its own value and the token in    *)
(* the authentication header, whatever the order of the map iteration.     *)
HeadersArrive ==
    \A k \in SourceKinds : \A n \in DOMAIN clients[k] :
        LET s == file.sources[n]
            sent == clients[k][n]
        IN  /\ \A h \in s.headers : sent[h.name] = h.spelling
            /\ s.auth # {} => sent[AuthName(s)] = "token"
            /\ k = "healthchecks" => "x-api-key" \in DOMAIN sent \/ s.tokenHeader # NoHeader

(* A configuration that the server starts with, or that --validate accepts *)
(* with exit code 0, is one that works.                                    *)
AcceptedConfigUsable ==
    step = "serve" \/ (step = "exit" /\ code = 0) =>
        LimitsConsistent /\ BindingsServed /\ HeadersArrive

(* A host that follows the pages sees every service that its prefix        *)
(* selects, each of them once and in order.                                *)
EveryServiceListed ==
    reader # NoReader /\ reader.ended =>
        /\ {reader.seen[i] : i \in DOMAIN reader.seen} = reader.matching
        /\ \A i, j \in DOMAIN reader.seen : i < j => reader.seen[i] < reader.seen[j]
=============================================================================
