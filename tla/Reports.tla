------------------------------- MODULE Reports -------------------------------
(* What the server makes of a whole configuration or of all outcomes: the  *)
(* items of a compact incident response, the doctor's report, and the      *)
(* start with the service registry.  The parts share no state; part        *)
(* chooses one.                                                            *)
EXTENDS Incident, Sequences

CONSTANTS Doctored, Rank, ServicesCount,
          Files, DefaultPage, MaxPage, MaxSources, MaxServices

VARIABLES part,
          dpc, ctx, bound, probed, state, report,
          step, flag, file, code, opened, clients, order, reader

D == INSTANCE Doctor WITH pc <- dpc, Sources <- Doctored
Start == INSTANCE Startup

doctorVars == <<dpc, ctx, bound, probed, state, report>>
startupVars == <<step, flag, file, code, opened, clients, order, reader>>

ASSUME ReportsAssumption ==
    /\ D!DoctorAssumption /\ Start!StartupAssumption
    /\ ItemLimits # {} /\ Budgets # {} /\ Files # {}

----------------------------------------------------------------------------
(* The parts that are not chosen stay where they start.                    *)
AnyLimit == CHOOSE n \in ItemLimits : TRUE
AnyBudget == CHOOSE n \in Budgets : TRUE
AnyFile == CHOOSE f \in Files : TRUE

IncidentIdle ==
    /\ pc = "build" /\ compact = TRUE /\ maxItems = AnyLimit /\ budget = AnyBudget
    /\ count = 0 /\ sourceOf = << >> /\ size = << >> /\ sourceCut = FALSE
    /\ kept = {} /\ planned = 0 /\ bundle = NoLosses /\ byteSize = 0

DoctorIdle ==
    /\ dpc = "probe" /\ ctx = "live"
    /\ bound = [s \in D!Services |-> {}] /\ probed = [b \in {} |-> D!Absent]
    /\ state = [x \in Doctored |->
                  [status |-> "unbound", reason |-> "", error |-> << >>]]
    /\ report = [complete |-> TRUE, warnings |-> {}, exit |-> 0]

StartupIdle ==
    /\ step = "load" /\ flag = "run" /\ file = AnyFile /\ code = 0 /\ opened = FALSE
    /\ clients = [k \in Start!SourceKinds |-> << >>]
    /\ order = << >> /\ reader = Start!NoReader

ReportsInit ==
    \/ part = "incident" /\ Init /\ DoctorIdle /\ StartupIdle
    \/ part = "doctor" /\ IncidentIdle /\ D!Init /\ StartupIdle
    \/ part = "startup" /\ IncidentIdle /\ DoctorIdle /\ Start!Init

ReportsNext ==
    /\ UNCHANGED part
    /\ \/ part = "incident" /\ Next /\ UNCHANGED <<doctorVars, startupVars>>
       \/ part = "doctor" /\ D!Next /\ UNCHANGED <<vars, startupVars>>
       \/ part = "startup" /\ Start!Next /\ UNCHANGED <<vars, doctorVars>>

reportsVars == <<part, vars, doctorVars, startupVars>>

ReportsSpec == ReportsInit /\ [][ReportsNext]_reportsVars

----------------------------------------------------------------------------
(* The properties of the modules, of their instances here.                 *)
DoctorTruthful == D!DoctorTruthful
MixedIsPartial == D!MixedIsPartial
AcceptedConfigUsable == Start!AcceptedConfigUsable
EveryServiceListed == Start!EveryServiceListed
=============================================================================
