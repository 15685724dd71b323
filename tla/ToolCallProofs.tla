--------------------------- MODULE ToolCallProofs ---------------------------
(***************************************************************************)
(* Proofs about ToolCall for any number of concurrent calls, any bindings, *)
(* any answers of the sources and any limits.                              *)
(***************************************************************************)
EXTENDS ToolCall, FiniteSetTheorems, TLAPS

(* The types that the steps below need.                                    *)
Types ==
    /\ bpc \in [Calls -> {"idle", "slot", "running"}]
    /\ call \in [Calls -> [phase : CallPhases, tool : Tools \cup {"none"},
                           service : SUBSET Kinds]]
    /\ worker \in [Calls -> [Kinds -> WorkerPhases]]
    /\ sourceSem \in 0..MaxSources

(* A call has a body only while it holds its slot of the tool budget.      *)
Coupled == \A c \in Calls : call[c].phase # "idle" => bpc[c] = "running"

(* NoOrphans alone is not inductive: the goroutines of a call are started  *)
(* in a body, and that the body holds a slot is Coupled.                   *)
IInv == Types /\ Coupled /\ NoOrphans /\ SourceSlotsExact

Held == {"begun", "asking"}

(* The kinds are finitely many, so the slot holders are.                   *)
LEMMA HoldersFinite == IsFiniteSet(SlotHolders)
<1>1. IsFiniteSet(Kinds)
  <2>1. IsFiniteSet({})
    BY FS_EmptySet
  <2>2. IsFiniteSet({"gatus"}) /\ IsFiniteSet({"gatus", "docker"})
    <3>1. {"gatus"} = {} \cup {"gatus"}
          /\ {"gatus", "docker"} = {"gatus"} \cup {"docker"}
      OBVIOUS
    <3> QED BY <2>1, <3>1, FS_AddElement
  <2>3. IsFiniteSet({"gatus", "docker"} \cup {"loki"})
    BY <2>2, FS_AddElement
  <2>4. IsFiniteSet(({"gatus", "docker"} \cup {"loki"}) \cup {"healthchecks"})
    BY <2>3, FS_AddElement
  <2>5. IsFiniteSet((({"gatus", "docker"} \cup {"loki"}) \cup {"healthchecks"})
                    \cup {"beszel"})
    BY <2>4, FS_AddElement
  <2>6. IsFiniteSet(((({"gatus", "docker"} \cup {"loki"}) \cup {"healthchecks"})
                     \cup {"beszel"}) \cup {"ntfy"})
    BY <2>5, FS_AddElement
  <2>7. Kinds = ((({"gatus", "docker"} \cup {"loki"}) \cup {"healthchecks"})
                 \cup {"beszel"}) \cup {"ntfy"}
    BY DEF Kinds
  <2> QED BY <2>6, <2>7
<1>2. IsFiniteSet(Calls \X Kinds)
  BY <1>1, ToolCallAssumption, FS_Product
<1> QED BY <1>2, FS_Subset DEF SlotHolders

(* A goroutine takes a slot.                                               *)
LEMMA SlotTaken ==
    ASSUME Types, SourceSlotsExact, NEW c \in Calls, NEW k \in Kinds,
           worker[c][k] \notin Held, NEW w \in Held,
           worker' = [worker EXCEPT ![c][k] = w],
           sourceSem' = sourceSem + 1
    PROVE  SourceSlotsExact'
<1>1. SlotHolders' = SlotHolders \cup {<<c, k>>} /\ <<c, k>> \notin SlotHolders
  BY DEF Types, SlotHolders, Held
<1>2. Cardinality(SlotHolders') = Cardinality(SlotHolders) + 1
  BY <1>1, HoldersFinite, FS_AddElement
<1> QED BY <1>2 DEF SourceSlotsExact

(* A goroutine gives its slot back; there is one to give back.             *)
LEMMA SlotReturned ==
    ASSUME Types, SourceSlotsExact, NEW c \in Calls, NEW k \in Kinds,
           worker[c][k] \in Held,
           worker' = [worker EXCEPT ![c][k] = "finished"],
           sourceSem' = sourceSem - 1
    PROVE  SourceSlotsExact' /\ sourceSem' \in 0..MaxSources
<1>1. SlotHolders' = SlotHolders \ {<<c, k>>} /\ <<c, k>> \in SlotHolders
  BY DEF Types, SlotHolders, Held
<1>2. Cardinality(SlotHolders') = Cardinality(SlotHolders) - 1
  BY <1>1, HoldersFinite, FS_RemoveElement
<1>3. Cardinality(SlotHolders) \in Nat /\ Cardinality(SlotHolders) # 0
  BY <1>1, HoldersFinite, FS_CardinalityType, FS_EmptySet
<1>4. SourceSlotsExact'
  BY <1>2 DEF SourceSlotsExact
<1>5. sourceSem \in 0..MaxSources /\ MaxSources \in Nat /\ sourceSem # 0
  BY <1>3, ToolCallAssumption DEF SourceSlotsExact, Types
<1> QED BY <1>4, <1>5

(* A step of a goroutine that neither takes nor returns a slot.            *)
LEMMA SlotsKept ==
    ASSUME Types, SourceSlotsExact, NEW c \in Calls, NEW k \in Kinds,
           NEW w \in WorkerPhases, worker[c][k] \in Held <=> w \in Held,
           worker' = [worker EXCEPT ![c][k] = w],
           sourceSem' = sourceSem
    PROVE  SourceSlotsExact'
<1>1. SlotHolders' = SlotHolders
  BY DEF Types, SlotHolders, Held
<1> QED BY <1>1 DEF SourceSlotsExact

(* A goroutine that runs belongs to a call that still collects, so what it *)
(* does next is no orphan's doing.                                         *)
LEMMA WorkerMoves ==
    ASSUME IInv, NEW c \in Calls, NEW k \in Kinds,
           worker[c][k] \notin {"none", "finished"}, NEW w \in WorkerPhases,
           worker' = [worker EXCEPT ![c][k] = w],
           bpc' = bpc, call' = call
    PROVE  Coupled' /\ NoOrphans' /\ worker' \in [Calls -> [Kinds -> WorkerPhases]]
<1>1. bpc[c] = "running" /\ call[c].phase = "collecting"
  BY DEF IInv, NoOrphans
<1> QED BY <1>1 DEF IInv, Types, Coupled, NoOrphans

(* A step that leaves goroutines and slots alone.                          *)
LEMMA WorkersKept ==
    ASSUME IInv, worker' = worker, sourceSem' = sourceSem
    PROVE  SourceSlotsExact' /\ sourceSem' \in 0..MaxSources
           /\ worker' \in [Calls -> [Kinds -> WorkerPhases]]
<1>1. SlotHolders' = SlotHolders
  BY DEF SlotHolders
<1> QED BY <1>1 DEF IInv, Types, SourceSlotsExact

(* The workers of a call that does not collect are at rest; replacing them *)
(* by others at rest, or by ones about to start, changes no slot.          *)
LEMMA WorkersReset ==
    ASSUME IInv, NEW c \in Calls, call[c].phase # "collecting",
           NEW row \in [Kinds -> {"none", "start"}],
           worker' = [worker EXCEPT ![c] = row], sourceSem' = sourceSem
    PROVE  SourceSlotsExact' /\ sourceSem' \in 0..MaxSources
           /\ worker' \in [Calls -> [Kinds -> WorkerPhases]]
<1>1. \A k \in Kinds : worker[c][k] \in {"none", "finished"}
  BY DEF IInv, NoOrphans
<1>2. SlotHolders' = SlotHolders
  BY <1>1 DEF IInv, Types, SlotHolders
<1>3. worker' \in [Calls -> [Kinds -> WorkerPhases]]
  BY DEF IInv, Types, WorkerPhases
<1> QED BY <1>2, <1>3 DEF IInv, Types, SourceSlotsExact

----------------------------------------------------------------------------
LEMMA InitIInv == Init => IInv
<1> SUFFICES ASSUME Init PROVE IInv
  OBVIOUS
<1>1. Types
  BY ToolCallAssumption
  DEF Init, Types, Budget!Init, NoCall, CallPhases, Tools, WorkerPhases
<1>2. SlotHolders = {}
  BY DEF Init, SlotHolders
<1>3. SourceSlotsExact
  BY <1>2, FS_EmptySet DEF Init, SourceSlotsExact
<1>4. Coupled /\ NoOrphans
  BY DEF Init, Coupled, NoOrphans, NoCall
<1> QED BY <1>1, <1>3, <1>4 DEF IInv

(* The steps of the tool budget that start no body.                        *)
LEMMA BudgetStep ==
    ASSUME IInv, NEW c \in Calls, TakeSlot(c) \/ RateLimit(c)
    PROVE  IInv'
<1>1. /\ bpc[c] # "running"
      /\ \E p \in {"slot", "idle"} : bpc' = [bpc EXCEPT ![c] = p]
      /\ UNCHANGED <<call, worker, sourceSem>>
  BY DEF TakeSlot, RateLimit, Refuse, Budget!TakeSlot, Budget!RateLimit, sourceVars
<1>2. SourceSlotsExact' /\ sourceSem' \in 0..MaxSources
      /\ worker' \in [Calls -> [Kinds -> WorkerPhases]]
  BY <1>1, WorkersKept
<1>3. call[c].phase = "idle"
  BY <1>1 DEF IInv, Coupled
<1>4. Types' /\ Coupled'
  BY <1>1, <1>2, <1>3 DEF IInv, Types, Coupled
<1>5. NoOrphans'
  BY <1>1, <1>3 DEF IInv, Types, NoOrphans
<1> QED BY <1>2, <1>4, <1>5 DEF IInv

LEMMA AdmitStep ==
    ASSUME IInv, NEW c \in Calls, Admit(c)
    PROVE  IInv'
<1>1. bpc[c] = "slot" /\ bpc' = [bpc EXCEPT ![c] = "running"]
      /\ UNCHANGED <<worker, sourceSem>>
  BY DEF Admit, Budget!Admit, sourceVars
<1>2. PICK tool \in Tools, service \in Services :
         call' = [call EXCEPT ![c] = [phase |-> "running", tool |-> tool,
                                      service |-> service]]
  BY DEF Admit
<1>3. SourceSlotsExact' /\ sourceSem' \in 0..MaxSources
      /\ worker' \in [Calls -> [Kinds -> WorkerPhases]]
  BY <1>1, WorkersKept
<1>4. service \in SUBSET Kinds
  BY ToolCallAssumption
<1>5. Types'
  BY <1>1, <1>2, <1>3, <1>4 DEF IInv, Types, CallPhases
<1>6. Coupled'
  BY <1>1, <1>2 DEF IInv, Types, Coupled
<1>7. NoOrphans'
  BY <1>1, <1>2 DEF IInv, Types, NoOrphans
<1> QED BY <1>3, <1>5, <1>6, <1>7 DEF IInv

LEMMA ReleaseStep ==
    ASSUME IInv, NEW c \in Calls, Release(c)
    PROVE  IInv'
<1>1. /\ call[c].phase = "answered"
      /\ bpc' = [bpc EXCEPT ![c] = "idle"]
      /\ call' = [call EXCEPT ![c] = NoCall]
      /\ worker' = [worker EXCEPT ![c] = [k \in Kinds |-> "none"]]
      /\ sourceSem' = sourceSem
  BY DEF Release, Budget!Release
<1>2. [k \in Kinds |-> "none"] \in [Kinds -> {"none", "start"}]
  OBVIOUS
<1>3. SourceSlotsExact' /\ sourceSem' \in 0..MaxSources
      /\ worker' \in [Calls -> [Kinds -> WorkerPhases]]
  BY <1>1, <1>2, WorkersReset
<1>4. Types'
  BY <1>1, <1>3 DEF IInv, Types, NoCall, CallPhases
<1>5. Coupled'
  BY <1>1 DEF IInv, Types, Coupled, NoCall
<1>6. NoOrphans'
  BY <1>1 DEF IInv, Types, NoOrphans
<1> QED BY <1>3, <1>4, <1>5, <1>6 DEF IInv

(* A call is answered, when its goroutines are at rest.                    *)
LEMMA AnswerStep ==
    ASSUME IInv, NEW c \in Calls, call[c].phase \in {"running", "collecting"},
           call[c].phase = "collecting" => Joined(c),
           call' = [call EXCEPT ![c].phase = "answered"],
           UNCHANGED <<bpc, worker, sourceSem>>
    PROVE  IInv'
<1>1. SourceSlotsExact' /\ sourceSem' \in 0..MaxSources
      /\ worker' \in [Calls -> [Kinds -> WorkerPhases]]
  BY WorkersKept
<1>2. \A k \in Kinds : worker[c][k] \in {"none", "finished"}
  BY DEF IInv, NoOrphans, Joined
<1>3. Types'
  BY <1>1 DEF IInv, Types, CallPhases
<1>4. Coupled'
  BY DEF IInv, Types, Coupled
<1>5. NoOrphans'
  BY <1>2 DEF IInv, Types, NoOrphans
<1> QED BY <1>1, <1>3, <1>4, <1>5 DEF IInv

LEMMA FanOutStep ==
    ASSUME IInv, NEW c \in Calls, NEW tool, NEW others, FanOut(c, tool, others)
    PROVE  IInv'
<1> DEFINE row == [k \in Kinds |-> IF k \in Asked(c) THEN "start" ELSE "none"]
<1>1. /\ call[c].phase = "running"
      /\ call' = [call EXCEPT ![c].phase = "collecting"]
      /\ worker' = [worker EXCEPT ![c] = row]
      /\ UNCHANGED <<bpc, sourceSem>>
  BY DEF FanOut, budgetVars
<1>2. row \in [Kinds -> {"none", "start"}]
  OBVIOUS
<1> HIDE DEF row
<1>3. SourceSlotsExact' /\ sourceSem' \in 0..MaxSources
      /\ worker' \in [Calls -> [Kinds -> WorkerPhases]]
  BY <1>1, <1>2, WorkersReset
<1>4. bpc[c] = "running"
  BY <1>1 DEF IInv, Coupled
<1>5. Types'
  <2>1. call' = [call EXCEPT ![c].phase = "collecting"] /\ bpc' = bpc
    BY <1>1
  <2> QED BY <2>1, <1>3 DEF IInv, Types, CallPhases
<1>6. Coupled'
  BY <1>1, <1>4 DEF IInv, Types, Coupled
<1>7. NoOrphans'
  BY <1>1, <1>4 DEF IInv, Types, NoOrphans
<1> QED BY <1>3, <1>5, <1>6, <1>7 DEF IInv

(* The goroutine of a source.                                              *)
LEMMA GoroutineStep ==
    ASSUME IInv, NEW c \in Calls, NEW k \in Kinds, Goroutine(c, k)
    PROVE  IInv'
<1>0. Types /\ SourceSlotsExact
  BY DEF IInv
<1>1. SUFFICES
        /\ UNCHANGED <<bpc, call>>
        /\ Coupled' /\ NoOrphans' /\ SourceSlotsExact'
        /\ worker' \in [Calls -> [Kinds -> WorkerPhases]]
        /\ sourceSem' \in 0..MaxSources
  BY <1>0 DEF IInv, Types
<1>2. CASE StartDead(c, k) \/ GiveUp(c, k)
  <2>1. /\ worker[c][k] \in {"start", "waiting"}
        /\ worker' = [worker EXCEPT ![c][k] = "finished"]
        /\ UNCHANGED <<bpc, call, sourceSem>>
    BY <1>2 DEF StartDead, GiveUp, Add, budgetVars
  <2>2. "finished" \in WorkerPhases /\ (worker[c][k] \in Held <=> "finished" \in Held)
        /\ worker[c][k] \notin {"none", "finished"}
    BY <2>1 DEF WorkerPhases, Held
  <2> QED BY <1>0, <2>1, <2>2, SlotsKept, WorkerMoves DEF Types
<1>3. CASE Start(c, k)
  <2>1. /\ worker[c][k] = "start"
        /\ worker' = [worker EXCEPT ![c][k] = "waiting"]
        /\ UNCHANGED <<bpc, call, sourceSem>>
    BY <1>3 DEF Start, budgetVars
  <2>2. "waiting" \in WorkerPhases /\ (worker[c][k] \in Held <=> "waiting" \in Held)
        /\ worker[c][k] \notin {"none", "finished"}
    BY <2>1 DEF WorkerPhases, Held
  <2> QED BY <1>0, <2>1, <2>2, SlotsKept, WorkerMoves DEF Types
<1>4. CASE EnterSource(c, k)
  <2>1. /\ worker[c][k] = "waiting"
        /\ worker' = [worker EXCEPT ![c][k] = "begun"]
        /\ sourceSem < MaxSources /\ sourceSem' = sourceSem + 1
        /\ UNCHANGED <<bpc, call>>
    BY <1>4 DEF EnterSource, budgetVars
  <2>2. "begun" \in WorkerPhases /\ "begun" \in Held /\ worker[c][k] \notin Held
        /\ worker[c][k] \notin {"none", "finished"}
    BY <2>1 DEF WorkerPhases, Held
  <2>3. SourceSlotsExact'
    BY <1>0, <2>1, <2>2, SlotTaken
  <2>4. MaxSources \in Nat /\ sourceSem \in 0..MaxSources
    BY <1>0, ToolCallAssumption DEF Types
  <2>5. sourceSem' \in 0..MaxSources
    BY <2>1, <2>4
  <2> QED BY <2>1, <2>2, <2>3, <2>5, WorkerMoves
<1>5. CASE Ask(c, k)
  <2>1. /\ worker[c][k] = "begun"
        /\ worker' = [worker EXCEPT ![c][k] = "asking"]
        /\ UNCHANGED <<bpc, call, sourceSem>>
    BY <1>5 DEF Ask, budgetVars
  <2>2. "asking" \in WorkerPhases /\ (worker[c][k] \in Held <=> "asking" \in Held)
        /\ worker[c][k] \notin {"none", "finished"}
    BY <2>1 DEF WorkerPhases, Held
  <2> QED BY <1>0, <2>1, <2>2, SlotsKept, WorkerMoves DEF Types
<1>6. CASE Abort(c, k) \/ Answer(c, k)
  <2>1. /\ worker[c][k] \in Held
        /\ worker' = [worker EXCEPT ![c][k] = "finished"]
        /\ sourceSem' = sourceSem - 1
        /\ UNCHANGED <<bpc, call>>
    BY <1>6 DEF Abort, Answer, Add, Held, budgetVars
  <2>2. "finished" \in WorkerPhases /\ worker[c][k] \notin {"none", "finished"}
    BY <2>1 DEF WorkerPhases, Held
  <2>3. SourceSlotsExact' /\ sourceSem' \in 0..MaxSources
    BY <1>0, <2>1, SlotReturned
  <2> QED BY <2>1, <2>2, <2>3, WorkerMoves
<1>7. CASE SourceTimeout(c, k)
  <2>1. UNCHANGED <<bpc, call, worker, sourceSem>>
    BY <1>7 DEF SourceTimeout, budgetVars
  <2>2. Coupled' /\ NoOrphans'
    BY <2>1 DEF IInv, Coupled, NoOrphans
  <2> QED BY <2>1, <2>2, WorkersKept
<1> QED BY <1>2, <1>3, <1>4, <1>5, <1>6, <1>7 DEF Goroutine

(* A step that touches neither calls, nor goroutines, nor slots.           *)
LEMMA OtherStep ==
    ASSUME IInv, UNCHANGED <<bpc, call, worker, sourceSem>>
    PROVE  IInv'
<1>1. SourceSlotsExact'
  BY WorkersKept
<1>2. Types' /\ Coupled' /\ NoOrphans'
  BY DEF IInv, Types, Coupled, NoOrphans
<1> QED BY <1>1, <1>2 DEF IInv

LEMMA StepIInv == IInv /\ [Next]_vars => IInv'
<1> SUFFICES ASSUME IInv, [Next]_vars PROVE IInv'
  OBVIOUS
<1>1. ASSUME NEW c \in Calls, TakeSlot(c) \/ RateLimit(c) PROVE IInv'
  BY <1>1, BudgetStep
<1>2. ASSUME NEW c \in Calls, Admit(c) PROVE IInv'
  BY <1>2, AdmitStep
<1>3. ASSUME NEW c \in Calls, Release(c) PROVE IInv'
  BY <1>3, ReleaseStep
<1>4. ASSUME NEW c \in Calls, Reject(c) \/ LocalAnswer(c) PROVE IInv'
  <2>1. /\ call[c].phase = "running"
        /\ call' = [call EXCEPT ![c].phase = "answered"]
        /\ UNCHANGED <<bpc, worker, sourceSem>>
    BY <1>4 DEF Reject, LocalAnswer, Respond, budgetVars, sourceVars
  <2> QED BY <2>1, AnswerStep
<1>5. ASSUME NEW c \in Calls,
             \/ ServiceStatus(c) \/ IncidentContext(c)
             \/ SearchLogs(c) \/ FailedCrons(c)
      PROVE IInv'
  BY <1>5, FanOutStep
  DEF ServiceStatus, IncidentContext, SearchLogs, FailedCrons
<1>6. ASSUME NEW c \in Calls,
             \/ JoinStatus(c) \/ JoinIncident(c)
             \/ JoinCrons(c) \/ JoinSearch(c)
      PROVE IInv'
  <2>1. /\ call[c].phase = "collecting" /\ Joined(c)
        /\ call' = [call EXCEPT ![c].phase = "answered"]
        /\ UNCHANGED <<bpc, worker, sourceSem>>
    BY <1>6 DEF JoinStatus, JoinIncident, JoinCrons, JoinSearch, JoinAll,
                Respond, budgetVars, sourceVars
  <2> QED BY <2>1, AnswerStep
<1>7. ASSUME NEW c \in Calls, TooMany(c) \/ Cancel(c) \/ TotalTimeout(c) PROVE IInv'
  BY <1>7, OtherStep DEF TooMany, Refuse, Cancel, TotalTimeout, budgetVars, sourceVars
<1>8. ASSUME NEW c \in Calls, NEW k \in Bound, Goroutine(c, k) PROVE IInv'
  <2>1. k \in Kinds
    BY ToolCallAssumption DEF Bound
  <2> QED BY <1>8, <2>1, GoroutineStep
<1>9. CASE Tick
  BY <1>9, OtherStep DEF Tick, Budget!Tick, sourceVars
<1>10. CASE UNCHANGED vars
  BY <1>10, OtherStep DEF vars, budgetVars, sourceVars
<1> QED BY <1>1, <1>2, <1>3, <1>4, <1>5, <1>6, <1>7, <1>8, <1>9, <1>10 DEF Next

LEMMA Inductive == Spec => []IInv
BY InitIInv, StepIInv, PTL DEF Spec

----------------------------------------------------------------------------
(* No goroutine outlives the budget slot of its call or adds an outcome to *)
(* a response that was given (wg.Wait before every answer).                *)
THEOREM NoOrphansCorrect == Spec => []NoOrphans
<1>1. IInv => NoOrphans
  BY DEF IInv
<1> QED BY <1>1, Inductive, PTL

(* The source semaphore counts exactly the goroutines that hold a slot of  *)
(* it (withSourceTimeout), over all calls and on every way out.            *)
THEOREM SlotsCorrect == Spec => []SourceSlotsExact
<1>1. IInv => SourceSlotsExact
  BY DEF IInv
<1> QED BY <1>1, Inductive, PTL

(* The requests to sources that run at once stay within the limit          *)
(* max_concurrent_source_requests.                                         *)
THEOREM SourceLimit == Spec => [](Cardinality(SlotHolders) <= MaxSources)
<1>1. IInv => Cardinality(SlotHolders) <= MaxSources
  BY ToolCallAssumption DEF IInv, Types, SourceSlotsExact
<1> QED BY <1>1, Inductive, PTL

----------------------------------------------------------------------------
(* What an outcome says *)

(* The fields of an outcome.                                               *)
Shaped(o) ==
    DOMAIN o = {"status", "reason", "itemCount", "complete", "truncated",
                "upstreamTruncated", "localTruncated", "discarded", "omitted"}

(* The outcome of a goroutine: never an absence, complete or with a reason *)
(* not to be, and with items only if its source answered.                  *)
Reported(o) ==
    /\ Shaped(o)
    /\ o.status \in {"ok", "error", "timeout", "canceled"}
    /\ o.reason # "no_binding"
    /\ o.complete \in BOOLEAN
    /\ o.complete \/ o.reason # ""
    /\ o.itemCount > 0 => o.status = "ok"

(* A mark function makes p of o: it leaves the status and never completes  *)
(* what was not.                                                           *)
MarkOf(o, p) == Reported(p) /\ p.status = o.status /\ (p.complete => o.complete)

LEMMA MarkEmptyOf == ASSUME NEW o, Reported(o) PROVE MarkOf(o, MarkEmpty(o))
BY DEF MarkOf, Reported, Shaped, MarkEmpty
LEMMA MarkMissingOf == ASSUME NEW o, Reported(o) PROVE MarkOf(o, MarkMissing(o))
BY DEF MarkOf, Reported, Shaped, MarkMissing
LEMMA MarkTruncatedOf ==
    ASSUME NEW o, Reported(o), NEW u \in BOOLEAN, NEW l \in BOOLEAN
    PROVE  /\ MarkOf(o, MarkTruncated(o, u, l))
           /\ MarkTruncated(o, u, l).complete => ~ u /\ ~ l
BY DEF MarkOf, Reported, Shaped, MarkTruncated
LEMMA MarkDiscardedOf ==
    ASSUME NEW o, Reported(o), NEW d \in Nat
    PROVE  /\ MarkOf(o, MarkDiscarded(o, d))
           /\ MarkDiscarded(o, d).complete => d = 0
<1>1. CASE d = 0
  <2>1. MarkDiscarded(o, d) = o
    BY <1>1 DEF MarkDiscarded
  <2> QED BY <1>1, <2>1 DEF MarkOf
<1>2. CASE d # 0
  <2>1. MarkDiscarded(o, d) = [o EXCEPT !.discarded = d, !.complete = FALSE,
                                        !.reason = "partial_invalid_records"]
    <3>1. ~ (d <= 0)
      BY <1>2
    <3> QED BY <3>1 DEF MarkDiscarded
  <2> DEFINE p == [o EXCEPT !.discarded = d, !.complete = FALSE,
                            !.reason = "partial_invalid_records"]
  <2>2. MarkOf(o, p) /\ ~ p.complete
    BY DEF MarkOf, Reported, Shaped
  <2> HIDE DEF p
  <2> QED BY <2>1, <2>2 DEF p
<1> QED BY <1>1, <1>2
LEMMA MarkSnapshotHistoryOf ==
    ASSUME NEW o, Reported(o), NEW past \in BOOLEAN
    PROVE  MarkOf(o, MarkSnapshotHistory(o, past))
BY DEF MarkOf, Reported, Shaped, MarkSnapshotHistory
LEMMA SourceOutcomeIs ==
    ASSUME NEW cx, NEW sx, NEW a, a.err \in Errors \cup {"none"}
    PROVE  /\ Reported(SourceOutcome(cx, sx, a))
           /\ SourceOutcome(cx, sx, a).complete => a.err = "none"
           /\ cx = "canceled" => SourceOutcome(cx, sx, a).status \in {"ok", "canceled"}
BY DEF Reported, Shaped, SourceOutcome, SourceErrorOutcome, Outcome, ReasonForError, Errors

LEMMA OfMarks ==
    ASSUME NEW o, NEW p, NEW q, MarkOf(o, p), MarkOf(p, q)
    PROVE  MarkOf(o, q)
BY DEF MarkOf

(* What a collector makes of an answer its adapter can give.               *)
LEMMA CollectedIs ==
    ASSUME NEW a \in Answers, NEW collector \in Collectors, CanAnswer(collector, a),
           NEW cx, NEW sx, NEW past \in BOOLEAN
    PROVE  /\ Reported(Collected(collector, cx, sx, a, past))
           /\ Collected(collector, cx, sx, a, past).complete => Unbroken(a)
           /\ cx = "canceled" =>
                 Collected(collector, cx, sx, a, past).status \in {"ok", "canceled"}
<1> DEFINE t == Taken(collector, a)
           o == SourceOutcome(cx, sx, t)
           items == ItemsOf(collector, a)
           end == Collected(collector, cx, sx, a, past)
<1>0. a \in AnswerSet
  BY ToolCallAssumption
<1>1. /\ a.err \in Errors \cup {"none"} /\ a.upstream \in BOOLEAN /\ a.local \in BOOLEAN
      /\ a.discarded \in Nat
  BY <1>0 DEF AnswerSet
<1>2. t.err = a.err
  BY <1>0 DEF Taken, FilterCurrentSnapshots, AnswerSet
<1>3. /\ Reported(o)
      /\ o.complete => a.err = "none"
      /\ cx = "canceled" => o.status \in {"ok", "canceled"}
  BY <1>1, <1>2, SourceOutcomeIs
<1> HIDE DEF t, o, items, end
(* The sources that never cut an answer and never discard a record.        *)
<1>4. a.err = "none" =>
         /\ collector \notin {"gatus_window", "loki", "ntfy"} => ~ a.local
         /\ collector # "ntfy" => ~ a.upstream
         /\ collector # "loki" => a.discarded = 0
  BY <1>1 DEF CanAnswer, Collectors, Uncut, GatusState, DockerState, BeszelState,
              GatusHistory, LokiLines, NtfyMessages, Checks
<1>5. SUFFICES /\ MarkOf(o, end)
               /\ end.complete =>
                     /\ collector \in {"gatus_window", "loki", "ntfy"} => ~ a.local
                     /\ collector = "ntfy" => ~ a.upstream
                     /\ collector = "loki" => a.discarded = 0
  BY <1>3, <1>4 DEF MarkOf, Unbroken, end
<1>6. CASE collector \in {"gatus_status", "docker_status", "beszel_status"}
  <2>1. end = MarkEmpty(StatusOutcome(o, items))
    BY <1>6 DEF end, Collected, o, t, items, SnapshotWindows
  <2>2. MarkOf(o, StatusOutcome(o, items))
    BY <1>3, MarkMissingOf DEF StatusOutcome, MarkOf
  <2>3. MarkOf(StatusOutcome(o, items), end)
    BY <2>1, <2>2, MarkEmptyOf DEF MarkOf
  <2> QED BY <1>6, <2>2, <2>3, OfMarks
<1>7. CASE collector = "healthchecks_status"
  <2>1. end = MarkEmpty(o)
    BY <1>7 DEF end, Collected, o, t, items, SnapshotWindows
  <2> QED BY <1>3, <1>7, <2>1, MarkEmptyOf
<1>8. CASE collector = "gatus_window"
  <2> DEFINE w == WindowOutcome(o, items)
             m == MarkTruncated(w, FALSE, a.local)
  <2>1. end = MarkEmpty(m)
    BY <1>8 DEF end, Collected, o, t, items, SnapshotWindows
  <2>2. MarkOf(o, w)
    BY <1>3, MarkMissingOf DEF WindowOutcome, MarkOf
  <2> HIDE DEF w
  <2>3. Reported(w)
    BY <2>2 DEF MarkOf
  <2>4. MarkOf(w, m) /\ (m.complete => ~ a.local)
    BY <1>1, <2>3, MarkTruncatedOf
  <2> HIDE DEF m
  <2>5. MarkOf(m, end)
    BY <2>1, <2>4, MarkEmptyOf DEF MarkOf
  <2>6. MarkOf(o, end)
    BY <2>2, <2>4, <2>5, OfMarks
  <2> QED BY <1>8, <2>4, <2>5, <2>6 DEF MarkOf
<1>9. CASE collector \in SnapshotWindows
  <2> DEFINE m == MarkSnapshotHistory(o, past)
  <2>1. end = MarkEmpty(m)
    BY <1>9 DEF end, Collected, o, t, items, SnapshotWindows
  <2>2. MarkOf(o, m)
    BY <1>3, MarkSnapshotHistoryOf
  <2> HIDE DEF m
  <2>3. MarkOf(m, end)
    BY <2>1, <2>2, MarkEmptyOf DEF MarkOf
  <2> QED BY <1>9, <2>2, <2>3, OfMarks DEF SnapshotWindows
<1>10. CASE collector = "loki"
  <2> DEFINE m == MarkTruncated(o, FALSE, a.local)
             d == MarkDiscarded(m, a.discarded)
  <2>1. end = MarkEmpty(d)
    BY <1>10 DEF end, Collected, o, t, items, SnapshotWindows
  <2>2. MarkOf(o, m) /\ (m.complete => ~ a.local)
    BY <1>1, <1>3, MarkTruncatedOf
  <2> HIDE DEF m
  <2>3. MarkOf(m, d) /\ (d.complete => a.discarded = 0)
    BY <1>1, <2>2, MarkDiscardedOf DEF MarkOf
  <2> HIDE DEF d
  <2>4. MarkOf(d, end)
    BY <2>1, <2>3, MarkEmptyOf DEF MarkOf
  <2>5. MarkOf(o, end)
    BY <2>2, <2>3, <2>4, OfMarks
  <2> QED BY <1>10, <2>2, <2>3, <2>4, <2>5 DEF MarkOf
<1>11. CASE collector = "ntfy"
  <2> DEFINE m == MarkTruncated(o, a.upstream, a.local)
  <2>1. end = MarkEmpty(m)
    BY <1>11 DEF end, Collected, o, t, items, SnapshotWindows
  <2>2. MarkOf(o, m) /\ (m.complete => ~ a.upstream /\ ~ a.local)
    BY <1>1, <1>3, MarkTruncatedOf
  <2> HIDE DEF m
  <2>3. MarkOf(m, end)
    BY <2>1, <2>2, MarkEmptyOf DEF MarkOf
  <2>4. MarkOf(o, end)
    BY <2>2, <2>3, OfMarks
  <2> QED BY <1>11, <2>2, <2>3, <2>4 DEF MarkOf
<1> QED BY <1>6, <1>7, <1>8, <1>9, <1>10, <1>11 DEF Collectors, SnapshotWindows

----------------------------------------------------------------------------
(* The outcomes of a call *)

(* One row for every call.                                                 *)
Histories ==
    /\ DOMAIN answers = Calls /\ DOMAIN sources = Calls
    /\ DOMAIN stored = Calls /\ DOMAIN response = Calls

(* What a goroutine that is done leaves behind.                            *)
Settled(c, k) ==
    /\ k \in DOMAIN sources[c]
    /\ Reported(sources[c][k])
    /\ sources[c][k].complete => k \in DOMAIN answers[c] /\ Unbroken(answers[c][k])

(* While a call collects, the goroutines it has are those of the kinds it  *)
(* asks, each one that is done is settled, and the outcomes of the other   *)
(* kinds are those FanOut gave.                                            *)
Collecting(c) ==
    /\ call[c].tool \in SourceTools
    /\ \A k \in Kinds : worker[c][k] # "none" <=> k \in Asked(c)
    /\ \A k \in Kinds : worker[c][k] = "finished" => Settled(c, k)
    /\ DOMAIN sources[c] \subseteq Kinds
    /\ \A k \in DOMAIN sources[c] \ Asked(c) :
          \/ sources[c][k] = Absent /\ k \notin call[c].service
          \/ sources[c][k] = Skipped
    /\ call[c].tool \in GroupedTools => Kinds \ Asked(c) \subseteq DOMAIN sources[c]
    /\ call[c].tool = "search_logs" => /\ DOMAIN sources[c] \subseteq Asked(c)
                                       /\ "loki" \in Asked(c)

(* EverySourceAccounted and CompleteMeansWhole, of one call.               *)
Accounted(c) ==
    /\ Configured(sources[c]) = Asked(c)
    /\ call[c].tool \in GroupedTools => DOMAIN sources[c] = Kinds
    /\ \A k \in DOMAIN sources[c] :
          /\ sources[c][k].reason = "no_binding" => k \notin call[c].service
          /\ sources[c][k].complete \/ sources[c][k].reason # ""
    /\ \A k \in stored[c] : sources[c][k].status = "ok"

Whole(c) ==
    /\ response[c].complete <=> response[c].audit = "ok"
    /\ response[c].complete =>
          \A k \in Asked(c) : k \in DOMAIN answers[c] /\ Unbroken(answers[c][k])

(* Neither property is inductive: a response is right because of what the  *)
(* call collected before it.                                               *)
Right(c) ==
    /\ call[c].phase = "collecting" => Collecting(c)
    /\ Given(c) => Accounted(c) /\ Whole(c)

RightInv == Histories /\ \A c \in Calls : Right(c)

(* A step that is not about this call.                                     *)
SameRow(c) ==
    /\ call'[c] = call[c] /\ worker'[c] = worker[c] /\ sources'[c] = sources[c]
    /\ answers'[c] = answers[c] /\ stored'[c] = stored[c]
    /\ response'[c] = response[c]

LEMMA RowKept == ASSUME NEW c \in Calls, SameRow(c), Right(c) PROVE Right(c)'
<1>1. Collecting(c) => Collecting(c)'
  BY DEF SameRow, Collecting, Settled, Asked
<1>2. Accounted(c) /\ Whole(c) => Accounted(c)' /\ Whole(c)'
  BY DEF SameRow, Accounted, Whole, Configured, Asked
<1>3. Given(c)' <=> Given(c)
  BY DEF SameRow, Given
<1> QED BY <1>1, <1>2, <1>3 DEF Right, SameRow

(* One call changes its own rows.                                          *)
LEMMA RowsKept ==
    ASSUME RightInv, NEW c \in Calls, \A d \in Calls \ {c} : SameRow(d), Histories',
           Right(c)'
    PROVE  RightInv'
<1>1. ASSUME NEW d \in Calls PROVE Right(d)'
  <2>1. CASE d = c
    BY <2>1
  <2>2. CASE d # c
    BY <2>2, RowKept DEF RightInv
  <2> QED BY <2>1, <2>2
<1> QED BY <1>1 DEF RightInv

LEMMA RightInit == Init => RightInv
BY DEF Init, RightInv, Histories, Right, Given, NoCall

(* The goroutines of a call ask what the call asks.                        *)
LEMMA Moves ==
    ASSUME Types, Histories, NEW c \in Calls, NEW k \in Kinds, Collecting(c),
           call[c].phase = "collecting",
           worker[c][k] # "none", NEW w \in WorkerPhases \ {"none", "finished"},
           worker' = [worker EXCEPT ![c][k] = w],
           UNCHANGED <<call, answers, sources, stored, response>>
    PROVE  Right(c)'
<1>1. \A j \in Kinds : /\ worker'[c][j] # "none" <=> worker[c][j] # "none"
                       /\ worker'[c][j] = "finished" => worker[c][j] = "finished"
  BY DEF Types
<1>2. Collecting(c)'
  BY <1>1 DEF Collecting, Settled, Asked
<1>3. ~ Given(c)'
  BY DEF Given
<1> QED BY <1>2, <1>3 DEF Right

(* A goroutine adds its outcome.                                           *)
LEMMA Finishes ==
    ASSUME Types, Histories, NEW c \in Calls, NEW k \in Kinds, Collecting(c),
           call[c].phase = "collecting", worker[c][k] # "none",
           NEW o, Add(c, k, o), Reported(o),
           o.complete => k \in DOMAIN answers'[c] /\ Unbroken(answers'[c][k]),
           \A j \in DOMAIN answers[c] \ {k} :
              j \in DOMAIN answers'[c] /\ answers'[c][j] = answers[c][j],
           UNCHANGED <<call, stored, response>>
    PROVE  Right(c)'
<1>1. \A j \in Kinds : worker'[c][j] = IF j = k THEN "finished" ELSE worker[c][j]
  BY DEF Types, Add
<1>2. /\ DOMAIN sources'[c] = DOMAIN sources[c] \cup {k}
      /\ sources'[c][k] = o
      /\ \A j \in DOMAIN sources[c] \ {k} : sources'[c][j] = sources[c][j]
  BY DEF Histories, Add, Put
<1>3. k \in Asked(c) /\ Asked(c)' = Asked(c)
  BY DEF Collecting, Asked
<1>4. ASSUME NEW j \in Kinds, worker'[c][j] = "finished" PROVE Settled(c, j)'
  <2>1. CASE j = k
    BY <1>2, <2>1 DEF Settled
  <2>2. CASE j # k
    <3>1. Settled(c, j)
      BY <1>1, <1>4, <2>2 DEF Collecting
    <3> QED BY <1>2, <2>2, <3>1 DEF Settled
  <2> QED BY <2>1, <2>2
<1>5. Collecting(c)'
  BY <1>1, <1>2, <1>3, <1>4 DEF Collecting
<1>6. ~ Given(c)'
  BY DEF Given
<1> QED BY <1>5, <1>6 DEF Right

LEMMA ErrorIs ==
    ASSUME NEW cx, NEW sx, NEW err
    PROVE  /\ Reported(SourceErrorOutcome(cx, sx, err))
           /\ ~ SourceErrorOutcome(cx, sx, err).complete
           /\ cx = "canceled" => SourceErrorOutcome(cx, sx, err).status = "canceled"
BY DEF Reported, Shaped, SourceErrorOutcome, Outcome, ReasonForError

(* The goroutines start, and the outcomes of the kinds that are not asked  *)
(* are there from the start.                                               *)
LEMMA Fans ==
    ASSUME Types, Histories, NEW c \in Calls, NEW tool \in SourceTools, NEW others,
           FanOut(c, tool, others),
           DOMAIN others \subseteq Kinds \ Asked(c),
           \A k \in DOMAIN others : \/ others[k] = Absent /\ k \notin call[c].service
                                    \/ others[k] = Skipped,
           tool \in GroupedTools => Kinds \ Asked(c) \subseteq DOMAIN others,
           tool = "search_logs" => DOMAIN others = {} /\ "loki" \in Asked(c)
    PROVE  Right(c)' /\ Histories'
<1>1. /\ call[c].tool = tool
      /\ call' = [call EXCEPT ![c].phase = "collecting"]
      /\ worker' = [worker EXCEPT ![c] =
                       [k \in Kinds |-> IF k \in Asked(c) THEN "start" ELSE "none"]]
      /\ sources' = [sources EXCEPT ![c] = others]
      /\ UNCHANGED <<answers, stored, response>>
  BY DEF FanOut
<1>2. /\ call'[c].phase = "collecting" /\ call'[c].tool = tool
      /\ call'[c].service = call[c].service
  BY <1>1 DEF Types
<1>3. Asked(c)' = Asked(c)
  BY <1>1, <1>2 DEF Asked
<1>4. \A k \in Kinds : /\ worker'[c][k] # "none" <=> k \in Asked(c)
                       /\ worker'[c][k] # "finished"
  BY <1>1 DEF Types
<1>5. sources'[c] = others
  BY <1>1 DEF Histories
<1>6. Collecting(c)'
  <2>1. \A k \in Kinds : worker'[c][k] # "none" <=> k \in Asked(c)'
    BY <1>3, <1>4
  <2>2. \A k \in Kinds : worker'[c][k] = "finished" => Settled(c, k)'
    BY <1>4
  <2> QED BY <1>2, <1>3, <1>5, <2>1, <2>2 DEF Collecting
<1>7. ~ Given(c)'
  BY <1>2 DEF Given
<1>8. Histories'
  BY <1>1 DEF Histories
<1> QED BY <1>2, <1>6, <1>7, <1>8 DEF Right

(* Only the outcomes of kinds that were not asked are normalized.          *)
LEMMA NormalizedIs ==
    ASSUME NEW o
    PROVE  /\ Reported(o) => NormalizeOutcome(o) = o
           /\ o = Absent => NormalizeOutcome(o) =
                              [Absent EXCEPT !.reason = "no_binding", !.complete = TRUE]
           /\ o = Skipped => NormalizeOutcome(o) =
                              [Skipped EXCEPT !.reason = "not_queried_by_tool",
                                              !.complete = TRUE]
<1>1. ASSUME Reported(o) PROVE NormalizeOutcome(o) = o
  <2>1. o.status # "absent" /\ o.status # "skipped"
    BY <1>1 DEF Reported
  <2> QED BY <2>1 DEF NormalizeOutcome
<1>2. Absent.reason = "" /\ Absent.status = "absent"
  BY DEF Absent, Outcome
<1>3. Skipped.reason = "" /\ Skipped.status = "skipped"
  BY DEF Skipped, Outcome
<1>4. ASSUME o = Absent
      PROVE  NormalizeOutcome(o) = [Absent EXCEPT !.reason = "no_binding", !.complete = TRUE]
  BY <1>2, <1>4 DEF NormalizeOutcome
<1>5. ASSUME o = Skipped
      PROVE  NormalizeOutcome(o) = [Skipped EXCEPT !.reason = "not_queried_by_tool",
                                                   !.complete = TRUE]
  BY <1>3, <1>5 DEF NormalizeOutcome
<1> QED BY <1>1, <1>4, <1>5

(* The outcomes of a call that is done collecting.                         *)
LEMMA JoinedIs ==
    ASSUME NEW c \in Calls, Collecting(c), Joined(c)
    PROVE  /\ \A k \in Asked(c) : k \in Kinds /\ Settled(c, k)
           /\ \A k \in Found(c) : k \in Asked(c) /\ sources[c][k].status = "ok"
<1>1. ASSUME NEW k \in Asked(c) PROVE k \in Kinds /\ Settled(c, k)
  <2>1. k \in Kinds
    BY DEF Asked, Asks, Kinds
  <2>2. worker[c][k] = "finished"
    BY <2>1 DEF Joined, Collecting
  <2> QED BY <2>1, <2>2 DEF Collecting
<1>2. ASSUME NEW k \in Found(c) PROVE k \in Asked(c) /\ sources[c][k].status = "ok"
  <2>1. k \in DOMAIN sources[c] /\ sources[c][k].itemCount > 0
    BY DEF Found
  <2>2. k \in Asked(c)
    <3>1. Absent.itemCount = 0 /\ Skipped.itemCount = 0
      BY DEF Absent, Skipped, Outcome
    <3> QED BY <2>1, <3>1 DEF Collecting
  <2>3. Reported(sources[c][k])
    BY <1>1, <2>2 DEF Settled
  <2> QED BY <2>1, <2>2, <2>3 DEF Reported
<1> QED BY <1>1, <1>2

(* The response of the tools with more than one source.                    *)
LEMMA JoinsAll ==
    ASSUME Types, Histories, NEW c \in Calls, NEW tool \in SourceTools, tool # "search_logs",
           JoinAll(c, tool), Right(c)
    PROVE  Right(c)' /\ Histories'
<1> DEFINE all == [k \in DOMAIN sources[c] |-> NormalizeOutcome(sources[c][k])]
           coverage == OutcomeCoverage(all)
           r == [isError |-> FALSE, complete |-> coverage.complete,
                 audit |-> AuditStatus(coverage)]
<1>1. /\ call[c].phase = "collecting" /\ call[c].tool = tool /\ Joined(c)
      /\ sources' = [sources EXCEPT ![c] = all]
      /\ response' = [response EXCEPT ![c] = r]
      /\ call' = [call EXCEPT ![c].phase = "answered"]
      /\ UNCHANGED <<worker, answers>>
  BY DEF JoinAll, Respond
<1>2. PICK kept \in SUBSET Found(c) : stored' = [stored EXCEPT ![c] = kept]
  BY DEF JoinAll, PutAll
<1>3. /\ Collecting(c)
      /\ \A k \in Asked(c) : k \in Kinds /\ Settled(c, k)
      /\ \A k \in Found(c) : k \in Asked(c) /\ sources[c][k].status = "ok"
  BY <1>1, JoinedIs DEF Right
<1>4. DOMAIN all = DOMAIN sources[c] /\ Asked(c) \subseteq DOMAIN all
  BY <1>3 DEF Settled
<1>5. \A k \in Asked(c) : all[k] = sources[c][k] /\ Reported(all[k])
  BY <1>3, <1>4, NormalizedIs DEF Settled
<1>6. ASSUME NEW k \in DOMAIN all, k \notin Asked(c)
      PROVE  /\ all[k].status \in {"absent", "skipped"}
             /\ all[k].complete
             /\ all[k].reason = "no_binding" => k \notin call[c].service
  <2>1. CASE sources[c][k] = Absent /\ k \notin call[c].service
    <3>1. all[k] = [Absent EXCEPT !.reason = "no_binding", !.complete = TRUE]
      BY <2>1, NormalizedIs
    <3> HIDE DEF all
    <3> QED BY <2>1, <3>1 DEF Absent, Outcome
  <2>2. CASE sources[c][k] = Skipped
    <3>1. all[k] = [Skipped EXCEPT !.reason = "not_queried_by_tool", !.complete = TRUE]
      BY <2>2, NormalizedIs
    <3> HIDE DEF all
    <3> QED BY <3>1 DEF Skipped, Outcome
  <2>3. k \in DOMAIN sources[c] \ Asked(c)
    BY <1>4, <1>6
  <2>4. \/ sources[c][k] = Absent /\ k \notin call[c].service
        \/ sources[c][k] = Skipped
    BY <1>3, <2>3 DEF Collecting
  <2> QED BY <2>1, <2>2, <2>4
<1> HIDE DEF all
<1>7. Configured(all) = Asked(c)
  <2>1. \A k \in Asked(c) : all[k].status \notin {"absent", "skipped"}
    BY <1>5 DEF Reported
  <2> QED BY <1>4, <1>6, <2>1 DEF Configured
<1>8. coverage.complete <=> \A k \in Asked(c) : sources[c][k].complete
  BY <1>5, <1>7 DEF OutcomeCoverage
<1>9. coverage.complete <=> AuditStatus(coverage) = "ok"
  <2> HIDE DEF coverage
  <2> QED BY DEF AuditStatus
<1> HIDE DEF coverage
<1>10. /\ sources'[c] = all /\ response'[c] = r /\ stored'[c] = kept
       /\ answers'[c] = answers[c]
       /\ call'[c].phase = "answered" /\ call'[c].tool = tool
       /\ call'[c].service = call[c].service
       /\ Asked(c)' = Asked(c)
  BY <1>1, <1>2 DEF Histories, Types, Asked
<1>11. Accounted(c)'
  <2>1. Configured(sources[c])' = Asked(c)'
    BY <1>7, <1>10 DEF Configured
  <2>2. call'[c].tool \in GroupedTools => DOMAIN sources'[c] = Kinds
    BY <1>1, <1>3, <1>4, <1>10 DEF Collecting
  <2>3. ASSUME NEW k \in DOMAIN sources'[c]
        PROVE  /\ sources'[c][k].reason = "no_binding" => k \notin call'[c].service
               /\ sources'[c][k].complete \/ sources'[c][k].reason # ""
    <3>1. CASE k \in Asked(c)
      BY <1>5, <1>10, <3>1 DEF Reported
    <3>2. CASE k \notin Asked(c)
      BY <1>6, <1>10, <3>2
    <3> QED BY <3>1, <3>2
  <2>4. \A k \in stored'[c] : sources'[c][k].status = "ok"
    BY <1>3, <1>5, <1>10
  <2> QED BY <2>1, <2>2, <2>3, <2>4 DEF Accounted
<1>12. Whole(c)'
  <2>1. /\ response'[c].complete <=> coverage.complete
        /\ response'[c].audit = AuditStatus(coverage)
    BY <1>10
  <2>2. ASSUME coverage.complete, NEW k \in Asked(c)
        PROVE  k \in DOMAIN answers[c] /\ Unbroken(answers[c][k])
    BY <1>3, <1>8, <2>2 DEF Settled
  <2>3. ASSUME response'[c].complete, NEW k \in Asked(c)'
        PROVE  k \in DOMAIN answers'[c] /\ Unbroken(answers[c][k])'
    <3>1. k \in DOMAIN answers[c] /\ Unbroken(answers[c][k])
      BY <1>10, <2>1, <2>2, <2>3
    <3> QED BY <1>10, <3>1 DEF Unbroken
  <2> QED BY <1>9, <2>1, <2>3 DEF Whole
<1>13. Histories'
  BY <1>1, <1>2 DEF Histories
<1> QED BY <1>10, <1>11, <1>12, <1>13 DEF Right

(* The response of search_logs.                                            *)
LEMMA JoinsSearch ==
    ASSUME Types, Histories, NEW c \in Calls, JoinSearch(c), Right(c)
    PROVE  Right(c)' /\ Histories'
<1> DEFINE o == sources[c]["loki"]
<1>1. /\ call[c].phase = "collecting" /\ call[c].tool = "search_logs" /\ Joined(c)
      /\ call' = [call EXCEPT ![c].phase = "answered"]
      /\ UNCHANGED <<worker, answers, sources>>
  BY DEF JoinSearch, Respond, sourceVars
<1>2. /\ Collecting(c)
      /\ \A k \in Asked(c) : k \in Kinds /\ Settled(c, k)
      /\ \A k \in Found(c) : k \in Asked(c) /\ sources[c][k].status = "ok"
  BY <1>1, JoinedIs DEF Right
<1>3. /\ call'[c].phase = "answered" /\ call'[c].tool = "search_logs"
      /\ Asked(c)' = Asked(c)
  BY <1>1 DEF Types, Asked
<1>4. CASE o.status = "ok"
  <2>1. /\ response' = [response EXCEPT ![c] = SearchResponse(o)]
        /\ stored' = [stored EXCEPT ![c] = Found(c)]
    BY <1>4 DEF JoinSearch, Respond, PutAll
  <2>2. Asked(c) = {"loki"} /\ DOMAIN sources[c] = {"loki"}
    BY <1>1, <1>2 DEF Collecting, Asked, Asks, Settled
  <2>3. Reported(o) /\ (o.complete => "loki" \in DOMAIN answers[c]
                                      /\ Unbroken(answers[c]["loki"]))
    BY <1>2, <2>2 DEF Settled
  <2>4. stored'[c] = Found(c) /\ response'[c] = SearchResponse(o)
    BY <2>1 DEF Histories
  <2>5. Accounted(c)'
    <3>1. Configured(sources[c]) = Asked(c)
      BY <2>2, <2>3 DEF Configured, Reported
    <3>2. Configured(sources[c])' = Asked(c)'
      BY <1>1, <1>3, <3>1 DEF Configured
    <3>3. "search_logs" \notin GroupedTools
      BY DEF GroupedTools
    <3>4. \A k \in stored'[c] : sources'[c][k].status = "ok"
      BY <1>1, <1>2, <2>4
    <3> QED BY <1>1, <1>3, <2>2, <2>3, <3>2, <3>3, <3>4 DEF Accounted, Reported
  <2>6. Whole(c)'
    <3>1. response'[c].complete = o.complete
          /\ response'[c].audit = IF o.complete THEN "ok" ELSE "partial"
      BY <2>4 DEF SearchResponse
    <3>2. response'[c].complete <=> response'[c].audit = "ok"
      BY <3>1
    <3> QED BY <1>1, <1>3, <2>2, <2>3, <3>1, <3>2 DEF Whole, Unbroken
  <2>7. Histories'
    BY <1>1, <2>1 DEF Histories
  <2> QED BY <1>3, <2>5, <2>6, <2>7 DEF Right
<1>5. CASE o.status # "ok"
  <2>1. response' = [response EXCEPT ![c] = ErrorResponse] /\ stored' = stored
    BY <1>5 DEF JoinSearch, Respond
  <2>2. ~ Given(c)'
    BY <2>1 DEF Histories, Given, ErrorResponse
  <2>3. Histories'
    BY <1>1, <2>1 DEF Histories
  <2> QED BY <1>3, <2>2, <2>3 DEF Right
<1> QED BY <1>4, <1>5

LEMMA CollectorIs == ASSUME NEW tool, NEW k \in Kinds PROVE CollectorOf(tool, k) \in Collectors
BY DEF Kinds, CollectorOf, Collectors

(* A goroutine ends with an outcome of its source.                         *)
Ends(c, k, o) ==
    /\ Add(c, k, o)
    /\ Reported(o)
    /\ ctx[c] = "canceled" => o.status \in {"ok", "canceled"}
    /\ o.complete => k \in DOMAIN answers'[c] /\ Unbroken(answers'[c][k])
    /\ \A j \in DOMAIN answers[c] \ {k} :
          j \in DOMAIN answers'[c] /\ answers'[c][j] = answers[c][j]

LEMMA GoroutineIs ==
    ASSUME Types, Histories, NEW c \in Calls, NEW k \in Kinds, Goroutine(c, k)
    PROVE  /\ worker[c][k] \in WorkerPhases \ {"none", "finished"}
           /\ UNCHANGED <<call, stored, response>>
           /\ \A d \in Calls \ {c} : answers'[d] = answers[d]
           /\ DOMAIN answers' = Calls
           /\ \/ /\ \E w \in WorkerPhases \ {"none", "finished"} :
                       worker' = [worker EXCEPT ![c][k] = w]
                 /\ UNCHANGED <<answers, sources>>
              \/ \E o : Ends(c, k, o)
<1>1. CASE Start(c, k) \/ EnterSource(c, k) \/ Ask(c, k) \/ SourceTimeout(c, k)
  <2>1. /\ worker[c][k] \in {"start", "waiting", "begun", "asking"}
        /\ UNCHANGED <<call, stored, response, answers, sources>>
    BY <1>1 DEF Start, EnterSource, Ask, SourceTimeout
  <2>2. \E w \in {"waiting", "begun", "asking"} : worker' = [worker EXCEPT ![c][k] = w]
    <3>1. CASE Start(c, k) \/ EnterSource(c, k) \/ Ask(c, k)
      BY <3>1 DEF Start, EnterSource, Ask
    <3>2. CASE SourceTimeout(c, k)
      <4>1. worker[c][k] \in {"begun", "asking"} /\ worker' = worker
        BY <3>2 DEF SourceTimeout
      <4>2. worker' = [worker EXCEPT ![c][k] = worker[c][k]]
        BY <4>1 DEF Types
      <4> QED BY <4>1, <4>2
    <3> QED BY <1>1, <3>1, <3>2
  <2>3. {"start", "waiting", "begun", "asking"} \subseteq WorkerPhases \ {"none", "finished"}
    BY DEF WorkerPhases
  <2> QED BY <2>1, <2>2, <2>3 DEF Histories
<1>2. CASE StartDead(c, k) \/ GiveUp(c, k)
  <2> DEFINE o == SourceErrorOutcome(ctx[c], ctx[c], "upstream")
  <2>1. /\ worker[c][k] \in {"start", "waiting"}
        /\ Add(c, k, o)
        /\ UNCHANGED <<call, stored, response, answers>>
    BY <1>2 DEF StartDead, GiveUp
  <2>2. /\ Reported(o) /\ ~ o.complete
        /\ ctx[c] = "canceled" => o.status = "canceled"
    BY ErrorIs
  <2> HIDE DEF o
  <2>3. Ends(c, k, o)
    BY <2>1, <2>2 DEF Ends
  <2>4. {"start", "waiting"} \subseteq WorkerPhases \ {"none", "finished"}
    BY DEF WorkerPhases
  <2> QED BY <2>1, <2>3, <2>4 DEF Histories
<1>3. CASE Abort(c, k)
  <2> DEFINE o == Failed(c, k, "timeout")
             a == [NoAnswer EXCEPT !.err = "timeout"]
  <2>1. /\ worker[c][k] \in {"begun", "asking"}
        /\ Add(c, k, o)
        /\ UNCHANGED <<call, stored, response>>
        /\ answers' = [answers EXCEPT ![c] = Put(@, k, a)]
    BY <1>3 DEF Abort
  <2>2. /\ Reported(o) /\ ~ o.complete
        /\ ctx[c] = "canceled" => o.status = "canceled"
    BY ErrorIs DEF Failed
  <2> HIDE DEF o, a
  <2>3. \A j \in DOMAIN answers[c] \ {k} :
           j \in DOMAIN answers'[c] /\ answers'[c][j] = answers[c][j]
    BY <2>1 DEF Histories, Put
  <2>4. Ends(c, k, o)
    BY <2>1, <2>2, <2>3 DEF Ends
  <2>5. {"begun", "asking"} \subseteq WorkerPhases \ {"none", "finished"}
    BY DEF WorkerPhases
  <2>6. (\A d \in Calls \ {c} : answers'[d] = answers[d]) /\ DOMAIN answers' = Calls
    BY <2>1 DEF Histories
  <2> QED BY <2>1, <2>4, <2>5, <2>6
<1>4. CASE Answer(c, k)
  <2> DEFINE collector == CollectorOf(call[c].tool, k)
  <2>1. PICK a \in Answers, past \in BOOLEAN :
           /\ CanAnswer(collector, a)
           /\ Add(c, k, Collected(collector, ctx[c], sctx[c][k], a, past))
           /\ answers' = [answers EXCEPT ![c] = Put(@, k, a)]
    BY <1>4 DEF Answer
  <2> DEFINE o == Collected(collector, ctx[c], sctx[c][k], a, past)
  <2>2. collector \in Collectors
    BY CollectorIs
  <2> HIDE DEF collector
  <2>3. /\ Reported(o) /\ (o.complete => Unbroken(a))
        /\ ctx[c] = "canceled" => o.status \in {"ok", "canceled"}
    BY <2>1, <2>2, CollectedIs
  <2>4. Add(c, k, o)
    BY <2>1
  <2> HIDE DEF o
  <2>5. /\ worker[c][k] = "asking"
        /\ UNCHANGED <<call, stored, response>>
    BY <1>4 DEF Answer
  <2>6. /\ k \in DOMAIN answers'[c] /\ answers'[c][k] = a
        /\ \A j \in DOMAIN answers[c] \ {k} :
              j \in DOMAIN answers'[c] /\ answers'[c][j] = answers[c][j]
    BY <2>1 DEF Histories, Put
  <2>7. Ends(c, k, o)
    <3>1. o.complete => Unbroken(answers'[c][k])
      BY <2>3, <2>6
    <3> QED BY <2>3, <2>4, <2>6, <3>1 DEF Ends
  <2>8. "asking" \in WorkerPhases \ {"none", "finished"}
    BY DEF WorkerPhases
  <2>9. (\A d \in Calls \ {c} : answers'[d] = answers[d]) /\ DOMAIN answers' = Calls
    BY <2>1 DEF Histories
  <2> QED BY <2>5, <2>7, <2>8, <2>9
<1> QED BY <1>1, <1>2, <1>3, <1>4 DEF Goroutine

LEMMA RightGoroutine ==
    ASSUME IInv, RightInv, NEW c \in Calls, NEW k \in Kinds, Goroutine(c, k)
    PROVE  RightInv'
<1>0. Types /\ Histories
  BY DEF IInv, RightInv
<1>1. /\ worker[c][k] \in WorkerPhases \ {"none", "finished"}
      /\ UNCHANGED <<call, stored, response>>
      /\ \A d \in Calls \ {c} : answers'[d] = answers[d]
      /\ DOMAIN answers' = Calls
      /\ \/ /\ \E w \in WorkerPhases \ {"none", "finished"} :
                  worker' = [worker EXCEPT ![c][k] = w]
            /\ UNCHANGED <<answers, sources>>
         \/ \E o : Ends(c, k, o)
  BY <1>0, GoroutineIs
<1>2. call[c].phase = "collecting" /\ Collecting(c)
  BY <1>1 DEF IInv, NoOrphans, RightInv, Right
<1>3. CASE /\ \E w \in WorkerPhases \ {"none", "finished"} :
                 worker' = [worker EXCEPT ![c][k] = w]
           /\ UNCHANGED <<answers, sources>>
  <2>1. PICK w \in WorkerPhases \ {"none", "finished"} : worker' = [worker EXCEPT ![c][k] = w]
    BY <1>3
  <2>2. Right(c)'
    BY <1>0, <1>1, <1>2, <1>3, <2>1, Moves
  <2>3. \A d \in Calls \ {c} : SameRow(d)
    BY <1>0, <1>1, <1>3, <2>1 DEF Types, SameRow
  <2>4. Histories'
    BY <1>0, <1>1, <1>3 DEF Histories
  <2> QED BY <2>2, <2>3, <2>4, RowsKept
<1>4. CASE \E o : Ends(c, k, o)
  <2>1. PICK o : Ends(c, k, o)
    BY <1>4
  <2>2. Right(c)'
    BY <1>0, <1>1, <1>2, <2>1, Finishes DEF Ends
  <2>3. \A d \in Calls \ {c} : SameRow(d)
    BY <1>0, <1>1, <2>1 DEF Types, Histories, SameRow, Ends, Add
  <2>4. Histories'
    BY <1>0, <1>1, <2>1 DEF Histories, Ends, Add
  <2> QED BY <2>2, <2>3, <2>4, RowsKept
<1> QED BY <1>1, <1>3, <1>4

LEMMA RightFans ==
    ASSUME IInv, RightInv, NEW c \in Calls,
           \/ ServiceStatus(c) \/ IncidentContext(c)
           \/ SearchLogs(c) \/ FailedCrons(c)
    PROVE  Right(c)' /\ Histories'
<1>0. Types /\ Histories
  BY DEF IInv, RightInv
<1>1. /\ Asked(c) \subseteq Kinds /\ Asks(call[c].tool) \subseteq Kinds
      /\ Asked(c) = Asks(call[c].tool) \cap call[c].service
  BY DEF Asked, Asks, Kinds
<1>2. {"service_status", "incident_context", "search_logs", "failed_crons"} \subseteq SourceTools
  BY DEF SourceTools, GroupedTools
<1>3. /\ DOMAIN Others(c) = Kinds \ Asked(c)
      /\ \A k \in DOMAIN Others(c) : \/ Others(c)[k] = Absent /\ k \notin call[c].service
                                     \/ Others(c)[k] = Skipped
  BY <1>1 DEF Others
<1>4. CASE ServiceStatus(c)
  <2>1. FanOut(c, "service_status", Others(c))
    BY <1>4 DEF ServiceStatus
  <2> QED BY <1>0, <1>2, <1>3, <2>1, Fans
<1>5. CASE IncidentContext(c)
  <2>1. FanOut(c, "incident_context", Others(c))
    BY <1>5 DEF IncidentContext
  <2> QED BY <1>0, <1>2, <1>3, <2>1, Fans
<1>6. CASE SearchLogs(c)
  <2>1. FanOut(c, "search_logs", << >>) /\ Asked(c) # {}
    BY <1>6 DEF SearchLogs
  <2>2. call[c].tool = "search_logs"
    BY <2>1 DEF FanOut
  <2>3. "loki" \in Asked(c)
    BY <2>1, <2>2 DEF Asked, Asks
  <2>4. DOMAIN << >> = {} /\ "search_logs" \notin GroupedTools
    BY DEF GroupedTools
  <2> DEFINE none == << >>
  <2>5. FanOut(c, "search_logs", none) /\ DOMAIN none = {}
    BY <2>1, <2>4
  <2> HIDE DEF none
  <2> QED BY <1>0, <1>2, <2>3, <2>4, <2>5, Fans
<1>7. CASE FailedCrons(c)
  <2> DEFINE others == IF Asked(c) = {} THEN [k \in {"healthchecks"} |-> Absent] ELSE << >>
  <2>1. FanOut(c, "failed_crons", others)
    BY <1>7 DEF FailedCrons
  <2>2. call[c].tool = "failed_crons"
    BY <2>1 DEF FanOut
  <2>3. "healthchecks" \in Kinds /\ Asks("failed_crons") = {"healthchecks"}
    BY DEF Kinds, Asks
  <2>4. /\ DOMAIN others \subseteq Kinds \ Asked(c)
        /\ \A k \in DOMAIN others : others[k] = Absent /\ k \notin call[c].service
    <3>1. CASE Asked(c) = {}
      <4>1. others = [k \in {"healthchecks"} |-> Absent]
        BY <3>1
      <4> HIDE DEF others
      <4>2. "healthchecks" \notin call[c].service
        BY <1>1, <2>2, <2>3, <3>1
      <4> QED BY <2>3, <3>1, <4>1, <4>2
    <3>2. CASE Asked(c) # {}
      <4>1. others = << >> /\ DOMAIN << >> = {}
        BY <3>2
      <4> HIDE DEF others
      <4> QED BY <4>1
    <3> QED BY <3>1, <3>2
  <2>5. "failed_crons" \notin GroupedTools
    BY DEF GroupedTools
  <2> HIDE DEF others
  <2> QED BY <1>0, <1>2, <2>1, <2>4, <2>5, Fans
<1> QED BY <1>4, <1>5, <1>6, <1>7

LEMMA RightStep == IInv /\ RightInv /\ [Next]_vars => RightInv'
<1> SUFFICES ASSUME IInv, RightInv, [Next]_vars PROVE RightInv'
  OBVIOUS
<1>0. Types /\ Histories
  BY DEF IInv, RightInv
<1>1. CASE UNCHANGED <<call, worker, answers, sources, stored, response>>
  <2>1. \A c \in Calls : Right(c)'
    BY <1>1, RowKept DEF RightInv, SameRow
  <2> QED BY <1>0, <1>1, <2>1 DEF RightInv, Histories
<1>2. ASSUME NEW c \in Calls, Admit(c) PROVE RightInv'
  <2>1. UNCHANGED <<worker, answers, sources, stored, response>>
    BY <1>2 DEF Admit, sourceVars
  <2>2. PICK tool \in Tools, service \in Services :
           call' = [call EXCEPT ![c] = [phase |-> "running", tool |-> tool,
                                        service |-> service]]
    BY <1>2 DEF Admit
  <2>3. Right(c)'
    BY <1>0, <2>2 DEF Types, Right, Given
  <2>4. Histories' /\ \A d \in Calls \ {c} : SameRow(d)
    BY <1>0, <2>1, <2>2 DEF Types, Histories, SameRow
  <2> QED BY <2>3, <2>4, RowsKept
<1>3. ASSUME NEW c \in Calls, Release(c) PROVE RightInv'
  <2>1. Right(c)'
    BY <1>0, <1>3 DEF Release, NoCall, Types, Right, Given
  <2>2. Histories' /\ \A d \in Calls \ {c} : SameRow(d)
    BY <1>0, <1>3 DEF Release, Types, Histories, SameRow
  <2> QED BY <2>1, <2>2, RowsKept
<1>4. ASSUME NEW c \in Calls, Reject(c) \/ LocalAnswer(c) PROVE RightInv'
  <2>1. PICK r : Respond(c, r) /\ (r.isError \/ call[c].tool \in LocalTools)
    BY <1>4 DEF Reject, LocalAnswer, ErrorResponse
  <2>2. UNCHANGED <<worker, answers, sources, stored>>
    BY <1>4 DEF Reject, LocalAnswer, sourceVars
  <2>3. LocalTools \cap SourceTools = {}
    BY DEF LocalTools, SourceTools, GroupedTools
  <2>4. Right(c)'
    BY <1>0, <2>1, <2>3 DEF Respond, Types, Histories, Right, Given
  <2>5. Histories' /\ \A d \in Calls \ {c} : SameRow(d)
    BY <1>0, <2>1, <2>2 DEF Respond, Types, Histories, SameRow
  <2> QED BY <2>4, <2>5, RowsKept
<1>5. ASSUME NEW c \in Calls,
             \/ ServiceStatus(c) \/ IncidentContext(c)
             \/ SearchLogs(c) \/ FailedCrons(c)
      PROVE  RightInv'
  <2>1. Right(c)' /\ Histories'
    BY <1>5, RightFans
  <2>2. PICK tool, others : FanOut(c, tool, others)
    BY <1>5 DEF ServiceStatus, IncidentContext, SearchLogs, FailedCrons
  <2>3. \A d \in Calls \ {c} : SameRow(d)
    BY <1>0, <2>2 DEF FanOut, Types, Histories, SameRow
  <2> QED BY <2>1, <2>3, RowsKept
<1>6. ASSUME NEW c \in Calls, NEW tool \in {"service_status", "incident_context", "failed_crons"},
             JoinAll(c, tool)
      PROVE  RightInv'
  <2>1. tool \in SourceTools /\ tool # "search_logs"
    BY DEF SourceTools, GroupedTools
  <2>2. Right(c)' /\ Histories'
    BY <1>0, <1>6, <2>1, JoinsAll DEF RightInv
  <2>3. \A d \in Calls \ {c} : SameRow(d)
    BY <1>0, <1>6 DEF JoinAll, Respond, PutAll, Types, Histories, SameRow
  <2> QED BY <2>2, <2>3, RowsKept
<1>7. ASSUME NEW c \in Calls, JoinSearch(c) PROVE RightInv'
  <2>1. Right(c)' /\ Histories'
    BY <1>0, <1>7, JoinsSearch DEF RightInv
  <2>2. \A d \in Calls \ {c} : SameRow(d)
    BY <1>0, <1>7 DEF JoinSearch, Respond, PutAll, sourceVars, Types, Histories, SameRow
  <2> QED BY <2>1, <2>2, RowsKept
<1>8. ASSUME NEW c \in Calls, NEW k \in Bound, Goroutine(c, k) PROVE RightInv'
  <2>1. k \in Kinds
    BY ToolCallAssumption DEF Bound
  <2> QED BY <1>8, <2>1, RightGoroutine
<1>9. ASSUME NEW c \in Calls, Cancel(c) \/ TotalTimeout(c) PROVE RightInv'
  BY <1>1, <1>9 DEF Cancel, TotalTimeout, sourceVars
<1>11. ASSUME NEW c \in Calls, TakeSlot(c) \/ TooMany(c) \/ RateLimit(c)
       PROVE  RightInv'
  <2>1. /\ bpc[c] # "running"
        /\ \E r : response' = [response EXCEPT ![c] = r]
        /\ UNCHANGED <<call, worker, answers, sources, stored>>
    BY <1>11 DEF TakeSlot, TooMany, RateLimit, Refuse, Budget!TakeSlot,
                 Budget!RateLimit, sourceVars
  <2>2. call'[c].phase = "idle"
    BY <1>0, <2>1 DEF IInv, Coupled
  <2>3. Right(c)'
    BY <2>2 DEF Right, Given
  <2>4. Histories' /\ \A d \in Calls \ {c} : SameRow(d)
    BY <1>0, <2>1 DEF Histories, SameRow
  <2> QED BY <2>3, <2>4, RowsKept
<1>10. CASE Tick \/ UNCHANGED vars
  BY <1>1, <1>10 DEF Tick, vars, sourceVars
<1> QED BY <1>2, <1>3, <1>4, <1>5, <1>6, <1>7, <1>8, <1>9, <1>10, <1>11
        DEF Next, JoinStatus, JoinIncident, JoinCrons

LEMMA RightAlways == Spec => []RightInv
BY RightInit, RightStep, Inductive, PTL DEF Spec

(* A response accounts for every source (outcomeCoverage over the outcomes *)
(* of all goroutines): a failure is never turned into an absence, and only *)
(* a source that answered leaves evidence.                                 *)
THEOREM SourcesAccounted == Spec => []EverySourceAccounted
<1>1. RightInv => EverySourceAccounted
  BY DEF RightInv, Right, Accounted, EverySourceAccounted
<1> QED BY <1>1, RightAlways, PTL

(* A response is complete, and audited "ok", only if every source it asked *)
(* answered and no answer was cut or had records discarded: no mark of a   *)
(* collector is lost on the way to the coverage.                           *)
THEOREM CompleteIsWhole == Spec => []CompleteMeansWhole
<1>1. RightInv => CompleteMeansWhole
  BY DEF RightInv, Right, Whole, CompleteMeansWhole
<1> QED BY <1>1, RightAlways, PTL

(* The only steps that end a goroutine are its own.                        *)
LEMMA OwnEnd ==
    ASSUME IInv, RightInv, [Next]_vars, NEW c \in Calls, NEW k \in Kinds,
           worker[c][k] # "finished", worker'[c][k] = "finished"
    PROVE  Goroutine(c, k)
<1>0. Types /\ Histories
  BY DEF IInv, RightInv
<1>1. ~ UNCHANGED worker
  OBVIOUS
<1>2. ASSUME NEW d \in Calls, Release(d) PROVE FALSE
  BY <1>0, <1>2 DEF Release, Types
<1>3. ASSUME NEW d \in Calls, NEW tool, NEW others, FanOut(d, tool, others) PROVE FALSE
  BY <1>0, <1>3 DEF FanOut, Types
<1>4. ASSUME NEW d \in Calls, NEW j \in Bound, Goroutine(d, j) PROVE Goroutine(c, k)
  <2>1. j \in Kinds
    BY ToolCallAssumption DEF Bound
  <2>2. \E w : worker' = [worker EXCEPT ![d][j] = w]
    BY <1>0, <1>4, <2>1, GoroutineIs DEF Ends, Add
  <2>3. d = c /\ j = k
    BY <1>0, <2>1, <2>2 DEF Types
  <2> QED BY <1>4, <2>3
<1>5. ASSUME NEW d \in Calls,
             \/ TakeSlot(d) \/ TooMany(d) \/ RateLimit(d) \/ Admit(d)
             \/ Reject(d) \/ LocalAnswer(d)
             \/ JoinStatus(d) \/ JoinIncident(d) \/ JoinCrons(d) \/ JoinSearch(d)
             \/ Cancel(d) \/ TotalTimeout(d)
      PROVE  FALSE
  BY <1>1, <1>5
  DEF TakeSlot, TooMany, RateLimit, Refuse, Admit, Reject, LocalAnswer, JoinStatus,
      JoinIncident, JoinCrons,
      JoinSearch, JoinAll, Cancel, TotalTimeout, sourceVars
<1>6. CASE Tick \/ UNCHANGED vars
  BY <1>1, <1>6 DEF Tick, vars, sourceVars
<1> QED BY <1>2, <1>3, <1>4, <1>5, <1>6
        DEF Next, ServiceStatus, IncidentContext, SearchLogs, FailedCrons

(* A source that failed while its call was canceled says so, whatever      *)
(* deadline or error came on top (sourceErrorOutcome).                     *)
THEOREM CanceledIsSaid == Spec => CanceledSaysCanceled
<1>1. IInv /\ RightInv /\ [Next]_vars =>
        [\A c \in Calls, k \in Kinds :
            ctx[c] = "canceled" /\ worker[c][k] # "finished"
               /\ worker'[c][k] = "finished" =>
            sources'[c][k].status \in {"ok", "canceled"}]_vars
  <2> SUFFICES ASSUME IInv, RightInv, [Next]_vars, NEW c \in Calls, NEW k \in Kinds,
                      ctx[c] = "canceled", worker[c][k] # "finished",
                      worker'[c][k] = "finished"
               PROVE  sources'[c][k].status \in {"ok", "canceled"}
    OBVIOUS
  <2>0. Types /\ Histories
    BY DEF IInv, RightInv
  <2>1. Goroutine(c, k)
    BY OwnEnd
  <2>2. \E o : Ends(c, k, o)
    <3>1. ASSUME NEW w \in WorkerPhases \ {"none", "finished"},
                 worker' = [worker EXCEPT ![c][k] = w]
          PROVE  FALSE
      BY <2>0, <3>1 DEF Types
    <3> QED BY <2>0, <2>1, <3>1, GoroutineIs
  <2>3. PICK o : Ends(c, k, o)
    BY <2>2
  <2>4. sources'[c][k] = o
    BY <2>0, <2>3 DEF Ends, Add, Put, Histories
  <2> QED BY <2>3, <2>4 DEF Ends
<1> QED BY <1>1, Inductive, RightAlways, PTL DEF Spec, CanceledSaysCanceled

----------------------------------------------------------------------------
(* The budget, and the types of everything *)

BudgetProofs == INSTANCE ToolBudgetProofs WITH Callers <- Calls, pc <- bpc

(* The parameters of the budget are as its proofs assume.                  *)
LEMMA BudgetParameters == BudgetProofs!BudgetAssumption
<1>1. BudgetProofs!IsFiniteSet(Calls) <=> IsFiniteSet(Calls)
  BY DEF BudgetProofs!IsFiniteSet, IsFiniteSet
<1> QED BY <1>1, ToolCallAssumption DEF BudgetProofs!BudgetAssumption

(* Every step of a call is a step of the budget or leaves it alone.        *)
LEMMA BudgetSteps == [Next]_vars => [Budget!Next]_(Budget!vars)
<1> SUFFICES ASSUME [Next]_vars PROVE [Budget!Next]_(Budget!vars)
  OBVIOUS
<1>1. ASSUME UNCHANGED budgetVars PROVE UNCHANGED Budget!vars
  BY <1>1 DEF budgetVars, Budget!vars
<1>2. ASSUME NEW c \in Calls, TakeSlot(c) \/ RateLimit(c) \/ Admit(c) \/ Release(c)
      PROVE  Budget!Next
  BY <1>2 DEF TakeSlot, RateLimit, Admit, Release, Budget!Next
<1>3. ASSUME NEW c \in Calls,
             \/ Reject(c) \/ LocalAnswer(c)
             \/ ServiceStatus(c) \/ IncidentContext(c)
             \/ SearchLogs(c) \/ FailedCrons(c)
             \/ JoinStatus(c) \/ JoinIncident(c) \/ JoinCrons(c) \/ JoinSearch(c)
             \/ Cancel(c) \/ TotalTimeout(c) \/ TooMany(c)
      PROVE  UNCHANGED budgetVars
  BY <1>3
  DEF Reject, LocalAnswer, ServiceStatus, IncidentContext, SearchLogs, FailedCrons, FanOut,
      JoinStatus, JoinIncident, JoinCrons, JoinSearch, JoinAll, Cancel, TotalTimeout,
      TooMany
<1>4. ASSUME NEW c \in Calls, NEW k \in Bound, Goroutine(c, k) PROVE UNCHANGED budgetVars
  BY <1>4
  DEF Goroutine, StartDead, Start, EnterSource, GiveUp, Ask, Abort, Answer, SourceTimeout
<1>5. CASE Tick
  BY <1>5 DEF Tick, Budget!Next
<1>6. CASE UNCHANGED vars
  BY <1>1, <1>6 DEF vars
<1> QED BY <1>1, <1>2, <1>3, <1>4, <1>5, <1>6 DEF Next

(* With the calls of the tools as its callers the budget does what         *)
(* ToolBudget says, so what is proved of ToolBudget holds of the calls.    *)
THEOREM KeepsBudget == Spec => Budget!Spec
<1>1. Init => Budget!Init
  BY DEF Init
<1> QED BY <1>1, BudgetSteps, PTL DEF Spec, Budget!Spec

LEMMA BudgetTypes == Spec => [](Budget!TypeOK)
<1>1. Budget!Init => BudgetProofs!Init
  BY DEF Budget!Init, BudgetProofs!Init
<1>2. [Budget!Next]_(Budget!vars) => [BudgetProofs!Next]_(BudgetProofs!vars)
  BY DEF Budget!Next, Budget!vars, Budget!TakeSlot, Budget!Admit, Budget!RateLimit,
         Budget!Release, Budget!Tick, Budget!CountNow, Budget!ResetWindow,
         Budget!WindowOver,
         BudgetProofs!Next, BudgetProofs!vars, BudgetProofs!TakeSlot,
         BudgetProofs!Admit, BudgetProofs!RateLimit, BudgetProofs!Release,
         BudgetProofs!Tick, BudgetProofs!CountNow, BudgetProofs!ResetWindow,
         BudgetProofs!WindowOver
<1>3. BudgetProofs!Spec => [](BudgetProofs!TypeOK)
  BY BudgetParameters, BudgetProofs!TypeCorrect
<1>4. BudgetProofs!TypeOK => Budget!TypeOK
  BY DEF BudgetProofs!TypeOK, Budget!TypeOK
<1> QED BY <1>1, <1>2, <1>3, <1>4, KeepsBudget, PTL DEF Budget!Spec, BudgetProofs!Spec

(* The rest of TypeOK.  That a call is audited once is that it is audited  *)
(* with its answer, or when it is refused.                                 *)
MoreTypes ==
    /\ \A c \in Calls : call[c].service \in Services \cup {{}}
    /\ ctx \in [Calls -> Contexts]
    /\ sctx \in [Calls -> [Kinds -> Contexts]]
    /\ audits \in [Calls -> 0..1]
    /\ \A c \in Calls :
          bpc[c] # "idle" /\ call[c].phase # "answered" => audits[c] = 0

LEMMA MoreTypesInit == Init => MoreTypes
BY DEF Init, Budget!Init, MoreTypes, NoCall, Contexts

LEMMA MoreTypesStep == IInv /\ MoreTypes /\ [Next]_vars => MoreTypes'
<1> SUFFICES ASSUME IInv, MoreTypes, [Next]_vars PROVE MoreTypes'
  OBVIOUS
<1>0. Types /\ Coupled
  BY DEF IInv
<1>1. CASE UNCHANGED <<bpc, call, ctx, sctx, audits>>
  BY <1>1 DEF MoreTypes
<1>2. ASSUME NEW c \in Calls, Admit(c) PROVE MoreTypes'
  <2>1. bpc[c] = "slot" /\ UNCHANGED <<ctx, sctx, audits>>
    BY <1>2 DEF Admit, Budget!Admit, sourceVars
  <2>2. PICK tool \in Tools, service \in Services :
           call' = [call EXCEPT ![c] = [phase |-> "running", tool |-> tool,
                                        service |-> service]]
    BY <1>2 DEF Admit
  <2>3. call[c].phase # "answered"
    BY <1>0, <2>1 DEF Coupled
  <2>4. audits[c] = 0 /\ bpc' = [bpc EXCEPT ![c] = "running"]
    BY <1>2, <2>1, <2>3 DEF Admit, Budget!Admit, MoreTypes
  <2> QED BY <1>0, <2>1, <2>2, <2>3, <2>4 DEF MoreTypes, Types
<1>3. ASSUME NEW c \in Calls, Release(c) PROVE MoreTypes'
  <2>1. /\ call' = [call EXCEPT ![c] = NoCall]
        /\ ctx' = [ctx EXCEPT ![c] = "live"]
        /\ sctx' = [sctx EXCEPT ![c] = [k \in Kinds |-> "live"]]
        /\ audits' = [audits EXCEPT ![c] = 0]
        /\ bpc' = [bpc EXCEPT ![c] = "idle"]
    BY <1>3 DEF Release, Budget!Release
  <2> QED BY <1>0, <2>1 DEF MoreTypes, Types, NoCall, Contexts
<1>4. ASSUME NEW c \in Calls, NEW r, Respond(c, r),
             call[c].phase \notin {"idle", "answered"}, UNCHANGED <<bpc, ctx, sctx>>
      PROVE  MoreTypes'
  <2>1. audits[c] = 0
    BY <1>0, <1>4 DEF Coupled, MoreTypes
  <2> QED BY <1>0, <1>4, <2>1 DEF Respond, MoreTypes, Types
<1>5. ASSUME NEW c \in Calls,
             \/ Reject(c) \/ LocalAnswer(c)
             \/ JoinStatus(c) \/ JoinIncident(c) \/ JoinCrons(c) \/ JoinSearch(c)
      PROVE  MoreTypes'
  <2>1. /\ \E r : Respond(c, r)
        /\ call[c].phase \notin {"idle", "answered"} /\ UNCHANGED <<bpc, ctx, sctx>>
    <3>1. CASE Reject(c) \/ LocalAnswer(c)
      BY <3>1 DEF Reject, LocalAnswer, budgetVars, sourceVars
    <3>2. ASSUME NEW tool, JoinAll(c, tool)
          PROVE  /\ \E r : Respond(c, r)
        /\ call[c].phase \notin {"idle", "answered"} /\ UNCHANGED <<bpc, ctx, sctx>>
      BY <3>2 DEF JoinAll, budgetVars
    <3>3. CASE JoinSearch(c)
      BY <3>3 DEF JoinSearch, budgetVars, sourceVars
    <3> QED BY <1>5, <3>1, <3>2, <3>3 DEF JoinStatus, JoinIncident, JoinCrons
  <2> QED BY <1>4, <2>1
<1>6. ASSUME NEW c \in Calls, NEW tool, NEW others, FanOut(c, tool, others) PROVE MoreTypes'
  BY <1>0, <1>6 DEF FanOut, MoreTypes, Types, budgetVars
<1>7. ASSUME NEW c \in Calls, NEW how \in Contexts, ctx' = [ctx EXCEPT ![c] = how],
             Reach(c, how), UNCHANGED <<bpc, call, audits>>
      PROVE  MoreTypes'
  BY <1>7 DEF Reach, MoreTypes
<1>8. ASSUME NEW c \in Calls, Cancel(c) \/ TotalTimeout(c) PROVE MoreTypes'
  <2>1. {"canceled", "deadline"} \subseteq Contexts
    BY DEF Contexts
  <2> QED BY <1>7, <1>8, <2>1 DEF Cancel, TotalTimeout, budgetVars
<1>9. ASSUME NEW c \in Calls, NEW k \in Bound, Goroutine(c, k) PROVE MoreTypes'
  <2>1. UNCHANGED <<bpc, call, ctx, audits>>
    BY <1>9
    DEF Goroutine, StartDead, Start, EnterSource, GiveUp, Ask, Abort, Answer, SourceTimeout,
        budgetVars
  <2>2. sctx' \in [Calls -> [Kinds -> Contexts]]
    <3>1. CASE EnterSource(c, k)
      <4>1. sctx' = [sctx EXCEPT ![c][k] = ctx[c]]
        BY <3>1 DEF EnterSource
      <4> QED BY <4>1 DEF MoreTypes
    <3>2. CASE SourceTimeout(c, k)
      <4>1. sctx' = [sctx EXCEPT ![c][k] = "deadline"] /\ "deadline" \in Contexts
        BY <3>2 DEF SourceTimeout, Contexts
      <4> QED BY <4>1 DEF MoreTypes
    <3>3. CASE sctx' = sctx
      BY <3>3 DEF MoreTypes
    <3> QED BY <1>9, <3>1, <3>2, <3>3
        DEF Goroutine, StartDead, Start, GiveUp, Ask, Abort, Answer
  <2> QED BY <2>1, <2>2 DEF MoreTypes
<1>10. ASSUME NEW c \in Calls, TakeSlot(c) PROVE MoreTypes'
  <2>1. /\ audits' = [audits EXCEPT ![c] = 0] /\ UNCHANGED <<call, ctx, sctx>>
        /\ \A d \in Calls \ {c} : bpc'[d] = bpc[d]
    BY <1>0, <1>10 DEF TakeSlot, Budget!TakeSlot, Types, sourceVars
  <2> QED BY <2>1 DEF MoreTypes
<1>12. ASSUME NEW c \in Calls, TooMany(c) \/ RateLimit(c) PROVE MoreTypes'
  <2>1. /\ audits' = [audits EXCEPT ![c] = 1] /\ UNCHANGED <<call, ctx, sctx>>
        /\ bpc'[c] = "idle" /\ \A d \in Calls \ {c} : bpc'[d] = bpc[d]
    BY <1>0, <1>12 DEF TooMany, RateLimit, Refuse, Budget!RateLimit, Types, budgetVars,
                       sourceVars
  <2> QED BY <2>1 DEF MoreTypes
<1>11. CASE Tick \/ UNCHANGED vars
  BY <1>1, <1>11 DEF Tick, Budget!Tick, vars, budgetVars, sourceVars
<1> QED BY <1>2, <1>3, <1>5, <1>6, <1>8, <1>9, <1>10, <1>11, <1>12
        DEF Next, ServiceStatus, IncidentContext, SearchLogs, FailedCrons

(* The variables keep their types; so a call that has ended was audited    *)
(* once, and the source slots stay within their limit.                     *)
THEOREM TypeCorrect == Spec => []TypeOK
<1>1. IInv /\ MoreTypes /\ Budget!TypeOK => TypeOK
  BY DEF IInv, Types, MoreTypes, TypeOK
<1>2. Spec => []MoreTypes
  BY MoreTypesInit, MoreTypesStep, Inductive, PTL DEF Spec
<1> QED BY <1>1, <1>2, Inductive, BudgetTypes, PTL
============================================================================
