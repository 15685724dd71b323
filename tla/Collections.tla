---------------------------- MODULE Collections ----------------------------
(* What a tool call goes through: the budget that admits it, and then one  *)
(* collection of one source, by an adapter that makes one request, of      *)
(* Beszel systems page by page, or of Healthchecks transitions.  The parts *)
(* share no state; part chooses one.                                       *)
EXTENDS ToolBudget, Sequences

CONSTANTS Windows, Snapshots, Limits, Serials,
          GatusReplies, DockerReplies, LokiSources, HealthchecksReplies,
          NtfyReplies, MaxTransitionChecks, MaxFlipsPerCheck, MaxMatched,
          Wanted, Others, PageSize, MaxPages, MaxRecords, MaxSystems, MaxChanges

VARIABLES part,
          apc, request, rows, answer, outcome,
          tpc, ctx, sctx, matched, next, requests, result, toutcome, refused,
          at, number, all, expected, listed, hub, form, changes, totals

A == INSTANCE Adapters WITH pc <- apc
T == INSTANCE Transitions WITH pc <- tpc, outcome <- toutcome
B == INSTANCE Beszel

adapterVars == <<apc, request, rows, answer, outcome>>
transitionsVars ==
    <<tpc, ctx, sctx, matched, next, requests, result, toutcome, refused>>
beszelVars ==
    <<at, number, all, expected, listed, hub, form, changes, totals>>

ASSUME CollectionsAssumption ==
    A!AdaptersAssumption /\ T!TransitionsAssumption /\ B!BeszelAssumption

----------------------------------------------------------------------------
CollectionsInit ==
    /\ part \in {"budget", "adapter", "transitions", "beszel"}
    /\ Init /\ A!Init /\ T!Init /\ B!Init
    /\ part # "beszel" => hub = << >> /\ form = "plain"

CollectionsNext ==
    /\ UNCHANGED part
    /\ \/ /\ part = "budget" /\ Next
          /\ UNCHANGED <<adapterVars, transitionsVars, beszelVars>>
       \/ /\ part = "adapter" /\ A!Next
          /\ UNCHANGED <<vars, transitionsVars, beszelVars>>
       \/ /\ part = "transitions" /\ T!Next
          /\ UNCHANGED <<vars, adapterVars, beszelVars>>
       \/ /\ part = "beszel" /\ B!Next
          /\ UNCHANGED <<vars, adapterVars, transitionsVars>>

collectionsVars == <<part, vars, adapterVars, transitionsVars, beszelVars>>

CollectionsSpec == CollectionsInit /\ [][CollectionsNext]_collectionsVars

----------------------------------------------------------------------------
(* The states of the budget and of the longer collections are of the right *)
(* types.                                                                  *)
TypesOK == TypeOK /\ T!TypeOK /\ B!TypeOK

(* The properties of the modules, of their instances here.                 *)
CompleteIsEverything == A!CompleteIsEverything
KeepsNewest == A!KeepsNewest
RowOrderIrrelevant == A!RowOrderIrrelevant
EveryCheckAccounted == T!EveryCheckAccounted
OkHasAnAnswer == T!OkHasAnAnswer
PagesAgree == B!PagesAgree
=============================================================================
