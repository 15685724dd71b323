-------------------------------- MODULE Config --------------------------------
(***************************************************************************)
(* What config.Parse accepts.  The YAML document is already decoded: a     *)
(* file is a record of limits, audit, sources and services.  A name, a URL *)
(* or a selector is known by whether its own check passes; what is kept in *)
(* full is how the parts of a file depend on each other.                   *)
(*                                                                         *)
(* Durations are in tenths of a second, sizes in bytes.                    *)
(***************************************************************************)
EXTENDS Integers, FiniteSets

CONSTANTS MaxSources, MaxServices

SourceKinds == {"gatus", "docker", "loki", "healthchecks", "beszel", "ntfy"}

(* A record of tests: which of them fails.                                 *)
Faulty(faults) == \E f \in DOMAIN faults : faults[f]

----------------------------------------------------------------------------
(* Limits.  A value of the file is unset, malformed, or a number. *)

Unset == [form |-> "unset", value |-> 0]
Malformed == [form |-> "malformed", value |-> 0]
Number(v) == [form |-> "number", value |-> v]

(* setDur: an unset duration takes its default.                            *)
Duration(default, min, max) ==
    [kind |-> "duration", default |-> default, min |-> min, max |-> max]

(* A number where zero stands for the default.                             *)
Count(default, max) ==
    [kind |-> "count", default |-> default, min |-> 0, max |-> max]

(* A pointer, whose zero is a value.                                       *)
Optional(default, min, max) ==
    [kind |-> "optional", default |-> default, min |-> min, max |-> max]

LimitRules ==
    [default_window |-> Duration(36000, 600, 6048000),
     max_incident_window |-> Duration(864000, 600, 6048000),
     max_cron_window |-> Duration(6048000, 36000, 25920000),
     per_source_timeout |-> Duration(30, 2, 300),
     total_timeout |-> Duration(100, 10, 600),
     evidence_cache_ttl |-> Duration(3000, 300, 36000),
     source_cache_ttl |-> Duration(150, 0, 3000),
     max_log_lines |-> Count(100, 500),
     max_evidence_items |-> Count(200, 1000),
     max_incident_response_bytes |-> Optional(262144, 8192, 4194304),
     max_log_line_bytes |-> Count(2048, 16384),
     max_body_bytes |-> Count(2097152, 8388608),
     evidence_cache_max |-> Optional(256, 0, 1000),
     evidence_cache_max_bytes |-> Optional(8388608, 4096, 67108864),
     max_tool_calls_per_minute |-> Count(120, 1000),
     max_concurrent_tools |-> Count(8, 64)]

AuditRules == [max_bytes |-> Count(10485760, 104857600), max_files |-> Count(3, 20)]

Accepted(rule, raw) ==
    \/ raw.form = "unset"
    \/ raw.form = "number" /\ rule.min <= raw.value /\ raw.value <= rule.max

(* What parseLimits leaves in the field, with an error or without one.     *)
Kept(rule, raw) ==
    IF raw.form = "unset" \/ (rule.kind = "count" /\ raw.value <= 0)
    THEN rule.default
    ELSE IF rule.kind = "count" \/ Accepted(rule, raw) THEN raw.value ELSE 0

Limits(raw) == [f \in DOMAIN LimitRules |-> Kept(LimitRules[f], raw[f])]

\* Mutant: the relations between limits are not checked.
EachLimitAlone(raw) ==
    [f \in DOMAIN LimitRules |-> ~ Accepted(LimitRules[f], raw[f])]

LimitFaults(raw) ==
    LET l == Limits(raw)
    IN  [f \in DOMAIN LimitRules |->
            \/ ~ Accepted(LimitRules[f], raw[f])
            \/ f = "total_timeout" /\ l.total_timeout < l.per_source_timeout
            \/ f = "default_window" /\ l.default_window > l.max_incident_window]

(* parseAudit, which looks at nothing when there is no file.               *)
AuditFaults(audit) ==
    [f \in DOMAIN AuditRules |->
        audit.file # "" /\ ~ Accepted(AuditRules[f], audit[f])]

----------------------------------------------------------------------------
(* Sources.  A header is its name in lower case, and a spelling of it. *)

Sensitive == {"authorization", "x-api-key"}
Reserved == {"host"}
NoHeader == [name |-> "", spelling |-> ""]

AuthName(s) ==
    IF s.tokenHeader # NoHeader THEN s.tokenHeader.name
    ELSE IF s.kind = "healthchecks" THEN "x-api-key" ELSE "authorization"

SourceFaults(s) ==
    [kind |-> s.kind \notin SourceKinds,
     fields |-> ~ s.fieldsOK,
     auth |-> Cardinality(s.auth) > 1,
     token |-> s.kind = "healthchecks" /\ s.auth = {},
     duplicate |-> \E g, h \in s.headers : g # h /\ g.name = h.name,
     sensitive |-> \E h \in s.headers : h.name \in Sensitive,
     reserved |-> \E h \in s.headers \cup {s.tokenHeader} : h.name \in Reserved,
     token_header |-> s.tokenHeader # NoHeader /\ s.auth = {},
     collision |-> s.auth # {} /\ \E h \in s.headers : h.name = AuthName(s)]

----------------------------------------------------------------------------
(* Services.  refs gives the source of each kind that a service binds. *)

CheckSourceRef(name, kind, sources) ==
    name \in DOMAIN sources /\ sources[name].kind = kind

ServiceFaults(s, sources) ==
    [fields |-> ~ s.fieldsOK,
     source |-> \E k \in DOMAIN s.refs : ~ CheckSourceRef(s.refs[k], k, sources)]

----------------------------------------------------------------------------
(* Parse: all errors are collected, and any of them rejects the file. *)

Sources(file) ==
    [n \in {n \in DOMAIN file.sources : ~ Faulty(SourceFaults(file.sources[n]))} |->
        file.sources[n]]

DuplicateID(file, i) ==
    \E j \in 1..(i - 1) : /\ file.services[j].id = file.services[i].id
                          /\ ~ Faulty(ServiceFaults(file.services[j], Sources(file)))

Parses(file) ==
    /\ file.version = 1
    /\ ~ Faulty(LimitFaults(file.limits))
    /\ ~ Faulty(AuditFaults(file.audit))
    /\ DOMAIN file.sources # {}
    /\ Cardinality(DOMAIN file.sources) <= MaxSources
    /\ Sources(file) = file.sources
    /\ Cardinality(DOMAIN file.services) <= MaxServices
    /\ \A i \in DOMAIN file.services :
          /\ ~ Faulty(ServiceFaults(file.services[i], Sources(file)))
          /\ ~ DuplicateID(file, i)
=============================================================================
