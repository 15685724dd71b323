------------------------------ MODULE MCReports ------------------------------
(* Small instances of Reports: the order of the probes and the files.      *)
EXTENDS Reports

C == INSTANCE Config

----------------------------------------------------------------------------
(* Two sources are of the same kind. *)
MCRank == [gatus |-> 1, docker1 |-> 2, docker2 |-> 2]

----------------------------------------------------------------------------
(* The files: one that changes nothing, and those with up to two changes.  *)

Header(name, spelling) == [name |-> name, spelling |-> spelling]

Source(kind) ==
    [kind |-> kind, fieldsOK |-> TRUE, headers |-> {}, tokenHeader |-> C!NoHeader,
     auth |-> IF kind = "healthchecks" THEN {"env"} ELSE {}]

Service(id, refs) == [id |-> id, fieldsOK |-> TRUE, refs |-> refs]

Plain ==
    [version |-> 1,
     limits |-> [f \in DOMAIN C!LimitRules |-> C!Unset],
     audit |-> [file |-> "", max_bytes |-> C!Unset, max_files |-> C!Unset],
     sources |-> [x |-> Source("gatus")],
     services |-> <<Service(1, [gatus |-> "x"])>>]

(* The values where a rule changes its mind.                               *)
Edges(rule) ==
    {C!Unset, C!Malformed, C!Number(-1), C!Number(0)}
    \cup {C!Number(v) : v \in {rule.min - 1, rule.min, rule.max, rule.max + 1}}

LimitFiles ==
    {[Plain EXCEPT !.limits[f] = raw] :
        f \in DOMAIN C!LimitRules, raw \in UNION {Edges(C!LimitRules[g]) : g \in DOMAIN C!LimitRules}}
    \cup UNION {{[Plain EXCEPT !.limits[fs[1]] = r, !.limits[fs[2]] = q] :
                    r \in Edges(C!LimitRules[fs[1]]) , q \in Edges(C!LimitRules[fs[2]])} :
                  fs \in {<<"per_source_timeout", "total_timeout">>,
                          <<"default_window", "max_incident_window">>}}

AuditFiles ==
    {[Plain EXCEPT !.audit = [file |-> f, max_bytes |-> b, max_files |-> n]] :
        f \in {"", "path"}, b \in Edges(C!AuditRules.max_bytes),
        n \in Edges(C!AuditRules.max_files)}

SomeHeaders ==
    {Header("x-api-key", "lower"), Header("host", "lower"),
     Header("x-tenant", "lower"), Header("x-tenant", "upper"),
     Header("x-trace", "lower")}

SourceFiles ==
    {[Plain EXCEPT !.sources = [x |-> [kind |-> k, fieldsOK |-> ok, headers |-> hs,
                                       tokenHeader |-> th, auth |-> a]],
                   !.services = << >>] :
        k \in {"gatus", "healthchecks", "other"}, ok \in BOOLEAN,
        hs \in {hs \in SUBSET SomeHeaders : Cardinality(hs) <= 2},
        th \in {C!NoHeader, Header("x-tenant", "upper"), Header("host", "upper")},
        a \in SUBSET {"env", "file"}}

References ==
    {[gatus |-> "x"], [docker |-> "y"], [docker |-> "x"], [gatus |-> "z"],
     [gatus |-> "x", docker |-> "y"]}

ServiceFiles ==
    {[Plain EXCEPT !.sources = [x |-> Source("gatus"), y |-> s],
                   !.services = list] :
        s \in {Source("docker"), [Source("docker") EXCEPT !.fieldsOK = FALSE]},
        list \in {<<Service(i, r), Service(j, q)>> :
                    i \in 1..2, j \in 1..2, r \in References, q \in References}
                 \cup {<<[Service(1, r) EXCEPT !.fieldsOK = FALSE], Service(1, q)>> :
                    r \in References, q \in References}
                 \cup {<<Service(3, r), Service(1, r), Service(4, r), Service(2, r)>> :
                    r \in References}
                 \cup {[k \in 1..5 |-> Service(k, << >>)]}}

MCFiles ==
    {Plain, [Plain EXCEPT !.version = 2],
     [Plain EXCEPT !.sources = << >>, !.services = << >>],
     [Plain EXCEPT !.sources = [x |-> Source("gatus"), y |-> Source("gatus"),
                                z |-> Source("gatus")]]}
    \cup LimitFiles \cup AuditFiles \cup SourceFiles \cup ServiceFiles
=============================================================================
