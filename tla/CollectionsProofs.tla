--------------------------- MODULE CollectionsProofs ---------------------------
(***************************************************************************)
(* Proofs about the collections: the transitions of a Healthchecks binding *)
(* and the pages of a Beszel hub, which send one request after another and *)
(* make one result of the answers, for any bounds; and the adapters that   *)
(* make one request, for any rows, windows and limits.                     *)
(***************************************************************************)
EXTENDS Collections, ToolBudgetProofs

----------------------------------------------------------------------------
(* The transitions *)

(* The outcome of an adapter answer is ok exactly if the answer has no     *)
(* error, and then it carries the count of omitted checks.                 *)
LEMMA TransitionOutcome ==
    ASSUME NEW c, NEW s, NEW a,
           NEW o, o = T!MarkTransitions(T!SourceOutcome(c, s, a), a)
    PROVE  /\ o.status = "ok" <=> a.err = "none"
           /\ a.err = "none" => o.omitted = a.omitted
<1>1. CASE a.err # "none"
  <2> DEFINE e == T!SourceErrorOutcome(c, s, a.err)
  <2>1. e.status # "ok"
    BY DEF T!SourceErrorOutcome, T!Outcome
  <2>2. o = e
    BY <1>1, <2>1 DEF T!SourceOutcome, T!MarkTransitions
  <2> QED BY <1>1, <2>1, <2>2
<1>2. CASE a.err = "none"
  BY <1>2 DEF T!SourceOutcome, T!MarkTransitions, T!Outcome
<1> QED BY <1>1, <1>2

(* While the checks are asked in turn, those that are done were asked or   *)
(* have no key; no more requests failed than were made, and one of them    *)
(* brought an answer if there are any items.                               *)
Progress ==
    /\ tpc \in {"list", "flips", "returned", "done"}
    /\ ctx \in T!Contexts /\ sctx \in T!Contexts
    /\ next \in Nat \ {0} /\ requests \in Nat
    /\ Len(matched) \in Nat
    /\ next <= T!LastAsked + 1
    /\ result \in T!AnswerSet
    /\ result.failures <= requests
    /\ result.items # << >> => result.failures < requests

CheckByCheck ==
    /\ tpc = "list" => /\ matched = << >> /\ next = 1 /\ requests = 0
                       /\ result = T!NoAnswer
    /\ tpc # "list" => result.omitted = Len(matched) - T!LastAsked
    /\ tpc \in {"list", "flips"} => result.err = "none"
    /\ tpc = "flips" => next = requests + result.missingIdentity + 1
    /\ requests + result.missingIdentity <= T!LastAsked

(* What a result without an error stands for, and an outcome that is ok.   *)
AtTheEnd ==
    /\ tpc \in {"returned", "done"} /\ result.err = "none" =>
          /\ requests + result.missingIdentity = T!LastAsked
          /\ requests = 0 \/ result.failures < requests
    /\ T!Ok => toutcome.omitted = result.omitted /\ result.err = "none"

TransitionsInv == Progress /\ CheckByCheck /\ AtTheEnd

LEMMA LastAskedIs ==
    ASSUME T!TransitionsAssumption, Len(matched) \in Nat
    PROVE  T!LastAsked \in Nat /\ T!LastAsked <= MaxTransitionChecks
           /\ T!LastAsked <= Len(matched)
BY DEF T!TransitionsAssumption, T!LastAsked

LEMMA TransitionsInit ==
    ASSUME T!TransitionsAssumption, T!Init PROVE TransitionsInv
<1>1. Len(matched) = 0 /\ matched = << >>
  BY DEF T!Init
<1>2. T!LastAsked = 0
  BY <1>1 DEF T!LastAsked, T!TransitionsAssumption
<1>3. result = T!NoAnswer /\ result \in T!AnswerSet
  BY DEF T!Init, T!NoAnswer, T!AnswerSet, T!Errors
<1>4. /\ result.failures = 0 /\ result.missingIdentity = 0 /\ result.items = << >>
      /\ result.err = "none"
  BY <1>3 DEF T!NoAnswer
<1> QED BY <1>1, <1>2, <1>3, <1>4
        DEF T!Init, TransitionsInv, Progress, CheckByCheck, AtTheEnd, T!Contexts, T!Ok

(* The adapter returns with an error, and nothing else changes but perhaps *)
(* the number of requests.                                                 *)
LEMMA FailsKeeps ==
    ASSUME TransitionsInv, NEW err \in T!Errors, T!Return(err),
           tpc \in {"list", "flips"},
           requests' \in {requests, requests + 1},
           requests' + result.missingIdentity <= T!LastAsked,
           T!TransitionsAssumption
    PROVE  TransitionsInv'
<1>0. /\ result \in T!AnswerSet /\ result.failures \in Nat /\ requests \in Nat
      /\ err # "none"
  BY DEF TransitionsInv, Progress, T!AnswerSet, T!Errors
<1>1. /\ tpc' = "returned" /\ ~ T!Ok' /\ UNCHANGED <<ctx, sctx, matched, next>>
      /\ result' = [result EXCEPT !.err = err] /\ T!LastAsked' = T!LastAsked
  BY DEF T!Return, T!Ok, T!LastAsked
<1>2. /\ result' \in T!AnswerSet /\ result'.err = err
      /\ result'.failures = result.failures /\ result'.items = result.items
      /\ result'.missingIdentity = result.missingIdentity
      /\ result'.omitted = result.omitted
  BY <1>0, <1>1 DEF T!AnswerSet
<1>3. Progress'
  BY <1>0, <1>1, <1>2 DEF TransitionsInv, Progress
<1>4. CheckByCheck'
  BY <1>0, <1>1, <1>2, LastAskedIs
  DEF TransitionsInv, Progress, CheckByCheck, T!NoAnswer, T!LastAsked,
      T!TransitionsAssumption
<1> QED BY <1>0, <1>1, <1>2, <1>3, <1>4 DEF TransitionsInv, AtTheEnd

LEMMA TransitionsStep ==
    ASSUME T!TransitionsAssumption, TransitionsInv, [T!Next]_(T!vars)
    PROVE  TransitionsInv'
<1>0. /\ Progress /\ CheckByCheck /\ AtTheEnd
      /\ result \in T!AnswerSet /\ result.failures \in Nat
      /\ result.missingIdentity \in Nat /\ result.discarded \in Nat
      /\ T!LastAsked \in Nat /\ requests \in Nat /\ next \in Nat
      /\ Len(matched) \in Nat
  BY LastAskedIs DEF TransitionsInv, Progress, T!AnswerSet
<1>1. tpc = "list" => /\ T!LastAsked = 0 /\ requests = 0 /\ result.missingIdentity = 0
                      /\ next = 1 /\ result = T!NoAnswer
  BY <1>0 DEF CheckByCheck, T!LastAsked, T!TransitionsAssumption, T!NoAnswer
<1>2. CASE T!ListFails
  <2>1. PICK err \in {"authentication", "timeout", "upstream"} : T!Return(err)
    BY <1>2 DEF T!ListFails
  <2>2. err \in T!Errors /\ tpc = "list" /\ requests' = requests
    BY <1>2 DEF T!ListFails, T!Errors
  <2> QED BY <1>1, <2>1, <2>2, FailsKeeps
<1>3. CASE T!NoMatch
  <2>1. /\ "no_match" \in T!Errors /\ T!Return("no_match")
        /\ tpc = "list" /\ requests' = requests
    BY <1>3 DEF T!NoMatch, T!Errors
  <2> QED BY <1>1, <2>1, FailsKeeps
<1>4. CASE T!ListChecks
  <2>1. PICK n \in 0..MaxMatched : \E keys \in [1..n -> BOOLEAN] :
           matched' = keys /\ result' = T!CutResult(keys)
    BY <1>4 DEF T!ListChecks
  <2>2. PICK keys \in [1..n -> BOOLEAN] :
           matched' = keys /\ result' = T!CutResult(keys)
    BY <2>1
  <2>3. matched' \in Seq(BOOLEAN) /\ Len(matched') \in Nat
    BY <2>2 DEF T!TransitionsAssumption
  <2> DEFINE cut == IF Len(matched') > MaxTransitionChecks
                    THEN Len(matched') - MaxTransitionChecks ELSE 0
             over == Len(matched') > MaxTransitionChecks
  <2>4. cut \in Nat /\ over \in BOOLEAN
    BY <2>3 DEF T!TransitionsAssumption
  <2>5. result' = [T!NoAnswer EXCEPT !.local = over, !.omitted = cut]
    BY <2>2 DEF T!CutResult
  <2>6. T!NoAnswer \in T!AnswerSet
    BY DEF T!NoAnswer, T!AnswerSet
  <2>7. /\ result'.err = "none" /\ result'.items = << >> /\ result'.failures = 0
        /\ result'.missingIdentity = 0
        /\ result'.omitted = cut
    <3> HIDE DEF cut, over
    <3> QED BY <2>5 DEF T!NoAnswer
  <2>8. result' \in T!AnswerSet
    <3> HIDE DEF cut, over
    <3> QED BY <2>4, <2>5, <2>6 DEF T!AnswerSet
  <2>9. T!LastAsked' \in Nat /\ result'.omitted = Len(matched') - T!LastAsked'
    BY <2>3, <2>7 DEF T!LastAsked, T!TransitionsAssumption
  <2>10. tpc' = "flips" /\ UNCHANGED <<ctx, sctx, next, requests>> /\ ~ T!Ok'
    BY <1>4 DEF T!ListChecks, T!Ok
  <2>11. next' = 1 /\ requests' = 0
    BY <1>1, <1>4, <2>10 DEF T!ListChecks
  <2>12. Progress'
    <3>1. next' <= T!LastAsked' + 1 /\ result'.failures <= requests'
      BY <2>7, <2>9, <2>11
    <3> QED BY <1>0, <2>3, <2>10, <2>11, <2>7, <2>8, <3>1 DEF Progress
  <2>13. CheckByCheck'
    BY <2>9, <2>10, <2>11, <2>7 DEF CheckByCheck
  <2> QED BY <2>10, <2>12, <2>13 DEF TransitionsInv, AtTheEnd
<1>5. ASSUME T!AtCheck, UNCHANGED <<tpc, ctx, sctx, matched>>, next' = next + 1,
             NEW i \in Nat, NEW m \in Nat, i + m = 1,
             requests' = requests + i,
             result' \in T!AnswerSet, result'.omitted = result.omitted,
             result'.err = "none",
             result'.missingIdentity = result.missingIdentity + m,
             result'.failures <= requests',
             result'.items # << >> => result'.failures < requests'
      PROVE  TransitionsInv'
  <2>1. tpc' = "flips" /\ tpc = "flips" /\ next <= T!LastAsked
        /\ T!LastAsked' = T!LastAsked /\ Len(matched') = Len(matched)
    BY <1>5 DEF T!AtCheck, T!LastAsked
  <2>2. requests' + result'.missingIdentity <= T!LastAsked
        /\ next' = requests' + result'.missingIdentity + 1
    <3>1. next = requests + result.missingIdentity + 1
      BY <1>0, <2>1 DEF CheckByCheck
    <3>2. /\ requests \in Nat /\ result.missingIdentity \in Nat
          /\ T!LastAsked \in Nat /\ next <= T!LastAsked
      BY <1>0, <2>1
    <3>3. /\ requests' = requests + i /\ next' = next + 1 /\ i + m = 1
          /\ result'.missingIdentity = result.missingIdentity + m
      BY <1>5
    <3> QED BY <3>1, <3>2, <3>3
  <2>3. Progress'
    BY <1>0, <1>5, <2>1 DEF Progress
  <2>4. CheckByCheck'
    BY <1>0, <1>5, <2>1, <2>2 DEF CheckByCheck
  <2> QED BY <2>1, <2>3, <2>4 DEF TransitionsInv, AtTheEnd, T!Ok
<1>6. CASE T!SkipWithoutKey
  <2>1. /\ result'.missingIdentity = result.missingIdentity + 1
        /\ result'.omitted = result.omitted /\ result'.err = result.err
        /\ result'.failures = result.failures /\ result'.items = result.items
        /\ result' \in T!AnswerSet
    BY <1>0, <1>6 DEF T!SkipWithoutKey, T!AnswerSet
  <2>2. T!AtCheck /\ UNCHANGED <<tpc, ctx, sctx, matched, requests>> /\ next' = next + 1
    BY <1>6 DEF T!SkipWithoutKey
  <2>3. /\ tpc = "flips" /\ result.err = "none" /\ requests' = requests + 0
        /\ result'.failures <= requests'
        /\ result'.items # << >> => result'.failures < requests'
    BY <1>0, <2>1, <2>2 DEF T!AtCheck, Progress, CheckByCheck
  <2>4. UNCHANGED <<tpc, ctx, sctx, matched>> /\ 0 \in Nat /\ 1 \in Nat /\ 0 + 1 = 1
    BY <2>2
  <2> QED BY <2>1, <2>2, <2>3, <2>4, <1>5
<1>7. CASE T!FlipsFail
  <2>1. /\ result'.missingIdentity = result.missingIdentity
        /\ result'.omitted = result.omitted /\ result'.err = result.err
        /\ result'.failures = result.failures + 1 /\ result'.items = result.items
        /\ result' \in T!AnswerSet
    <3>1. result' = [result EXCEPT !.failures = @ + 1]
      BY <1>7 DEF T!FlipsFail
    <3>2. result \in T!AnswerSet /\ result.failures + 1 \in Nat
      BY <1>0
    <3> QED BY <3>1, <3>2 DEF T!AnswerSet
  <2>2. T!AtCheck /\ UNCHANGED <<tpc, ctx, sctx, matched>> /\ next' = next + 1
        /\ requests' = requests + 1
    BY <1>7 DEF T!FlipsFail
  <2>3. /\ tpc = "flips" /\ result.err = "none"
        /\ result'.missingIdentity = result.missingIdentity + 0
        /\ result'.failures <= requests'
        /\ result'.items # << >> => result'.failures < requests'
    BY <1>0, <2>1, <2>2 DEF T!AtCheck, Progress, CheckByCheck
  <2>4. 0 \in Nat /\ 1 \in Nat /\ 1 + 0 = 1
    OBVIOUS
  <2> QED BY <2>1, <2>2, <2>3, <2>4, <1>5
<1>8. ASSUME NEW n \in 0..MaxFlipsPerCheck + 1, NEW d \in 0..1, T!Flips(n, d)
      PROVE  TransitionsInv'
  <2> DEFINE more == [i \in 1..(IF n > MaxFlipsPerCheck
                                THEN MaxFlipsPerCheck ELSE n) |-> T!Flip]
             Item == [missing : BOOLEAN, inWindow : BOOLEAN]
  <2>1. more \in Seq(Item)
    BY DEF T!Flip, T!TransitionsAssumption
  <2>2. result' = [result EXCEPT
                    !.discarded = @ + d,
                    !.local = @ \/ n > MaxFlipsPerCheck,
                    !.items = @ \o more]
    BY <1>8 DEF T!Flips
  <2>3. result.items \in Seq(Item) /\ result.local \in BOOLEAN
    BY <1>0 DEF T!AnswerSet
  <2> HIDE DEF more
  <2>4. result.items \o more \in Seq(Item) /\ result.discarded + d \in Nat
    BY <1>0, <2>1, <2>3
  <2>5. /\ result'.missingIdentity = result.missingIdentity
        /\ result'.omitted = result.omitted /\ result'.err = result.err
        /\ result'.failures = result.failures
        /\ result' \in T!AnswerSet
    BY <1>0, <2>2, <2>4 DEF T!AnswerSet
  <2>6. T!AtCheck /\ UNCHANGED <<tpc, ctx, sctx, matched>> /\ next' = next + 1
        /\ requests' = requests + 1
    BY <1>8 DEF T!Flips
  <2>7. /\ tpc = "flips" /\ result.err = "none"
        /\ result'.missingIdentity = result.missingIdentity + 0
        /\ result'.failures <= requests'
        /\ result'.items # << >> => result'.failures < requests'
    BY <1>0, <2>5, <2>6 DEF T!AtCheck, Progress, CheckByCheck
  <2>8. 0 \in Nat /\ 1 \in Nat /\ 1 + 0 = 1
    OBVIOUS
  <2> QED BY <2>5, <2>6, <2>7, <2>8, <1>5
<1>9. CASE T!FlipsUnauthorized
  <2>1. /\ "authentication" \in T!Errors /\ T!Return("authentication")
        /\ tpc = "flips" /\ next <= T!LastAsked /\ requests' = requests + 1
    BY <1>9 DEF T!FlipsUnauthorized, T!AtCheck, T!Errors
  <2>2. requests' + result.missingIdentity <= T!LastAsked
    BY <1>0, <2>1 DEF CheckByCheck
  <2> QED BY <2>1, <2>2, FailsKeeps
<1>10. CASE T!Finish
  <2>1. tpc = "flips" /\ next > T!LastAsked /\ requests' = requests
    BY <1>10 DEF T!Finish
  <2>2. requests + result.missingIdentity = T!LastAsked
    BY <1>0, <2>1 DEF CheckByCheck
  <2>3. CASE T!AllFailed
    <3>1. "upstream" \in T!Errors /\ T!Return("upstream")
      BY <1>10, <2>3 DEF T!Finish, T!Errors
    <3>2. requests' + result.missingIdentity <= T!LastAsked
      BY <1>0, <2>1, <2>2
    <3> QED BY <2>1, <3>1, <3>2, FailsKeeps
  <2>4. CASE ~ T!AllFailed
    <3>1. T!Return("none")
      BY <1>10, <2>4 DEF T!Finish
    <3>2. /\ tpc' = "returned" /\ ~ T!Ok' /\ T!LastAsked' = T!LastAsked
          /\ UNCHANGED <<ctx, sctx, matched, next, requests, result>>
      <4>1. result' = [result EXCEPT !.err = "none"] /\ result.err = "none"
        BY <1>0, <2>1, <3>1 DEF T!Return, CheckByCheck
      <4>2. result' = result
        BY <1>0, <4>1 DEF T!AnswerSet
      <4> QED BY <2>1, <3>1, <4>2 DEF T!Return, T!Ok, T!LastAsked
    <3>3. requests = 0 \/ result.failures < requests
      BY <1>0, <2>4 DEF T!AllFailed, Progress
    <3>4. Progress'
      BY <1>0, <3>2 DEF Progress
    <3>5. CheckByCheck'
      BY <1>0, <2>1, <3>2 DEF CheckByCheck
    <3>6. AtTheEnd'
      BY <2>2, <3>2, <3>3 DEF AtTheEnd
    <3> QED BY <3>4, <3>5, <3>6 DEF TransitionsInv
  <2> QED BY <2>3, <2>4
<1>13. CASE T!Conclude
  <2>1. /\ tpc = "returned" /\ tpc' = "done"
        /\ toutcome' = T!MarkTransitions(T!SourceOutcome(ctx, sctx, result), result)
        /\ UNCHANGED <<ctx, sctx, matched, next, requests, result>>
    BY <1>13 DEF T!Conclude
  <2>2. /\ T!LastAsked' = T!LastAsked
        /\ T!Ok' => result.err = "none" /\ toutcome'.omitted = result.omitted
    BY <2>1, TransitionOutcome DEF T!Ok, T!LastAsked
  <2>3. Progress' /\ CheckByCheck'
    BY <1>0, <2>1, <2>2 DEF Progress, CheckByCheck
  <2> QED BY <1>0, <2>1, <2>2, <2>3 DEF TransitionsInv, AtTheEnd
<1>11. CASE T!Cancel \/ T!SourceTimeout
  BY <1>0, <1>11 DEF T!Cancel, T!SourceTimeout, TransitionsInv, Progress,
                     CheckByCheck, AtTheEnd, T!Contexts, T!Ok, T!LastAsked
<1>12. CASE UNCHANGED T!vars
  BY <1>12 DEF T!vars, TransitionsInv, Progress, CheckByCheck, AtTheEnd, T!Ok,
               T!LastAsked
<1> QED BY <1>2, <1>3, <1>4, <1>6, <1>7, <1>8, <1>9, <1>10, <1>11, <1>12, <1>13
        DEF T!Next

LEMMA TransitionsAlways ==
    ASSUME T!TransitionsAssumption PROVE T!Spec => []TransitionsInv
<1>1. T!Init => TransitionsInv
  BY TransitionsInit
<1>2. TransitionsInv /\ [T!Next]_(T!vars) => TransitionsInv'
  BY TransitionsStep
<1> QED BY <1>1, <1>2, PTL DEF T!Spec

(* The place in the list of checks and the number of requests stay within  *)
(* the bound of the adapter.                                               *)
THEOREM TransitionsTypeCorrect ==
    ASSUME T!TransitionsAssumption PROVE T!Spec => []T!TypeOK
<1>1. TransitionsInv => T!TypeOK
  <2> SUFFICES ASSUME TransitionsInv PROVE T!TypeOK
    OBVIOUS
  <2>1. T!LastAsked \in Nat /\ T!LastAsked <= MaxTransitionChecks
    BY LastAskedIs DEF TransitionsInv, Progress
  <2>2. requests <= T!LastAsked
    <3>1. result.missingIdentity \in Nat /\ requests \in Nat
      BY DEF TransitionsInv, Progress, T!AnswerSet
    <3> QED BY <2>1, <3>1 DEF TransitionsInv, Progress, CheckByCheck
  <2> QED BY <2>1, <2>2 DEF TransitionsInv, Progress, T!TypeOK, T!TransitionsAssumption
<1> QED BY <1>1, TransitionsAlways, PTL

(* A collection of transitions that is reported as ok accounts for every   *)
(* check of the binding: asked, without a key, or counted as omitted       *)
(* (Client.Transitions, collectHCWindow).                                  *)
THEOREM ChecksAccounted ==
    ASSUME T!TransitionsAssumption PROVE T!Spec => []EveryCheckAccounted
<1>1. TransitionsInv => EveryCheckAccounted
  <2> SUFFICES ASSUME TransitionsInv, T!Ok
               PROVE  toutcome.omitted + result.missingIdentity + requests = Len(matched)
    BY DEF EveryCheckAccounted, T!EveryCheckAccounted
  <2>1. /\ toutcome.omitted = Len(matched) - T!LastAsked
        /\ requests + result.missingIdentity = T!LastAsked
    BY DEF TransitionsInv, CheckByCheck, AtTheEnd, T!Ok
  <2>2. /\ result.missingIdentity \in Nat /\ requests \in Nat /\ Len(matched) \in Nat
        /\ T!LastAsked \in Nat
    BY LastAskedIs DEF TransitionsInv, Progress, T!AnswerSet
  <2> QED BY <2>1, <2>2
<1> QED BY <1>1, TransitionsAlways, PTL

(* It is ok only if a request brought an answer, or none could be made.    *)
THEOREM OkIsAnswered ==
    ASSUME T!TransitionsAssumption PROVE T!Spec => []OkHasAnAnswer
<1>1. TransitionsInv => OkHasAnAnswer
  BY DEF TransitionsInv, AtTheEnd, OkHasAnAnswer, T!OkHasAnAnswer, T!Ok
<1> QED BY <1>1, TransitionsAlways, PTL

----------------------------------------------------------------------------
(* The pages of the Beszel hub *)

(* What a quotient is between, and that a product grows with its factor.   *)
LEMMA Divided ==
    ASSUME NEW a \in Nat, NEW b \in Nat \ {0}
    PROVE  /\ a \div b \in Nat
           /\ (a \div b) * b <= a /\ a < (a \div b) * b + b
OBVIOUS

LEMMA Multiplied ==
    ASSUME NEW n \in Nat, NEW k \in Nat, n <= k, NEW size \in Nat
    PROVE  n * size <= k * size /\ n * size \in Nat
OBVIOUS

(* The number of pages is the least that holds all systems.                *)
LEMMA PagesHold ==
    ASSUME B!BeszelAssumption, NEW len \in Nat, NEW n \in Nat
    PROVE  /\ B!Pages(len) \in Nat
           /\ n < B!Pages(len) <=> n * PageSize < len
<1> DEFINE q == (len + PageSize - 1) \div PageSize
<1>0. PageSize \in Nat \ {0}
  BY DEF B!BeszelAssumption
<1>1. q \in Nat /\ q * PageSize <= len + PageSize - 1
      /\ len + PageSize - 1 < q * PageSize + PageSize
  <2>1. len + PageSize - 1 \in Nat
    BY <1>0
  <2> QED BY <1>0, <2>1, Divided
<1>2. q = B!Pages(len)
  BY DEF B!Pages
<1> HIDE DEF q
<1>3. ASSUME n < q PROVE n * PageSize < len
  <2>1. (n + 1) * PageSize <= q * PageSize
    BY <1>0, <1>1, <1>3, Multiplied
  <2>2. (n + 1) * PageSize = n * PageSize + PageSize
    BY <1>0
  <2> QED BY <1>0, <1>1, <2>1, <2>2
<1>4. ASSUME n * PageSize < len, q <= n PROVE FALSE
  <2>1. q * PageSize <= n * PageSize
    BY <1>0, <1>1, <1>4, Multiplied
  <2> QED BY <1>0, <1>1, <2>1, <1>4
<1> QED BY <1>1, <1>2, <1>3, <1>4

LEMMA HubIs ==
    ASSUME NEW h \in B!Hubs, B!BeszelAssumption
    PROVE  h \in Seq(B!Systems) /\ Len(h) \in Nat
<1>1. PICK n \in 0..MaxSystems : h \in [1..n -> B!Systems]
  BY DEF B!Hubs
<1> QED BY <1>1 DEF B!BeszelAssumption

(* A page with metadata: what it holds, and what its number of pages says. *)
LEMMA PageIs ==
    ASSUME B!BeszelAssumption, hub \in B!Hubs, form \in B!Forms \ {"plain"},
           NEW n \in Nat \ {0}, NEW p, p = B!PageOf(n)
    PROVE  /\ p.paginated /\ p.page = n
           /\ p.items = SubSeq(hub, (n - 1) * PageSize + 1,
                               IF n * PageSize < Len(hub) THEN n * PageSize
                               ELSE Len(hub))
           /\ p.hasTotalItems <=> form \in {"items", "both"}
           /\ p.totalItems = Len(hub)
           /\ B!TotalPages(p) \in Nat
           /\ \A m \in Nat \ {0} : m < B!TotalPages(p) => m * PageSize < Len(hub)
           /\ \A m \in Nat \ {0} : m >= B!TotalPages(p) => m * PageSize >= Len(hub)
<1>1. /\ p.paginated /\ p.page = n /\ p.totalItems = Len(hub)
      /\ p.items = SubSeq(hub, (n - 1) * PageSize + 1,
                          IF n * PageSize < Len(hub) THEN n * PageSize
                          ELSE Len(hub))
      /\ p.hasTotalItems <=> form \in {"items", "both"}
      /\ p.hasTotalPages <=> form \in {"pages", "both"}
      /\ p.totalPages = B!Pages(Len(hub))
  BY DEF B!PageOf
<1>2. Len(hub) \in Nat /\ PageSize \in Nat \ {0}
  BY HubIs DEF B!BeszelAssumption
<1> DEFINE q == B!Pages(Len(hub))
<1>3. q \in Nat /\ \A m \in Nat : m < q <=> m * PageSize < Len(hub)
  BY <1>2, PagesHold
<1> HIDE DEF q
<1>4. B!TotalPages(p) = q \/ (B!TotalPages(p) \in {0, 1} /\ q = 0)
  <2>1. CASE p.hasTotalPages
    BY <1>1, <1>3, <2>1 DEF B!TotalPages, q
  <2>2. CASE ~ p.hasTotalPages
    <3>1. p.hasTotalItems
      BY <1>1, <2>2 DEF B!Forms
    <3> QED BY <1>1, <1>3, <2>2, <3>1 DEF B!TotalPages, q
  <2> QED BY <2>1, <2>2
<1>5. \A m \in Nat : m * PageSize \in Nat
  BY <1>2, Multiplied
<1>6. ASSUME NEW m \in Nat \ {0}
      PROVE  m < B!TotalPages(p) <=> m * PageSize < Len(hub)
  BY <1>3, <1>4
<1>7. B!TotalPages(p) \in Nat
  BY <1>3, <1>4
<1>8. \A m \in Nat \ {0} : m >= B!TotalPages(p) => m * PageSize >= Len(hub)
  BY <1>2, <1>5, <1>6, <1>7
<1> QED BY <1>1, <1>6, <1>7, <1>8

(* As long as nothing changed, what was read is the beginning of the hub,  *)
(* and there is more; all pages that were read stated the same total.      *)
PagesSoFar ==
    /\ number = 1 => all = << >> /\ totals = << >>
    /\ number > 1 =>
          /\ form # "plain"
          /\ number <= expected.pages /\ expected.pages <= MaxPages
          /\ expected.pages \in Nat
          /\ form \in {"items", "both"} =>
                \A k \in DOMAIN totals : totals[k] = expected.totalItems
          /\ changes = 0 =>
                /\ (number - 1) * PageSize < Len(hub)
                /\ all = SubSeq(hub, 1, (number - 1) * PageSize)

HubTypes ==
    /\ at \in {"page", "alternate", "done"}
    /\ number \in 0..MaxPages + 1
    /\ hub \in B!Hubs /\ form \in B!Forms /\ changes \in 0..MaxChanges
    /\ all \in Seq(B!Systems) /\ Len(all) <= MaxRecords
    /\ totals \in Seq(Nat)
    /\ listed.err \in B!Errors \cup {"none"}

HubInv ==
    /\ HubTypes
    /\ at = "page" => number >= 1 /\ PagesSoFar
    /\ at = "alternate" => totals = << >> /\ number <= 2
    /\ B!Listed /\ totals # << >> =>
          /\ changes = 0 => listed.systems = hub
          /\ form \in {"items", "both"} =>
                \A k \in DOMAIN totals : totals[k] = Len(listed.systems)

LEMMA HubInit == ASSUME B!BeszelAssumption, B!Init PROVE HubInv
<1>1. << >> \in Seq(B!Systems) /\ << >> \in Seq(Nat) /\ Len(<< >>) = 0
  OBVIOUS
<1>2. listed.err = "none"
  BY DEF B!Init, B!NotListed
<1> QED BY <1>1, <1>2 DEF B!Init, HubInv, HubTypes, PagesSoFar, B!Listed,
                          B!BeszelAssumption

(* A collection that fails.                                                *)
LEMMA ErrorKeeps ==
    ASSUME HubInv, NEW err \in B!Errors, B!Done(B!ListError(err)),
           UNCHANGED <<all, hub, form, changes>>, totals' \in Seq(Nat)
    PROVE  HubInv'
<1>1. at' = "done" /\ listed'.err = err /\ number' = number
  BY DEF B!Done, B!ListError
<1>2. listed'.err # "none"
  BY <1>1 DEF B!Errors
<1> QED BY <1>1, <1>2 DEF HubInv, HubTypes, B!Listed

(* What a page that is used says, of the hub as it is now.                 *)
LEMMA UsedPage ==
    ASSUME B!BeszelAssumption, HubInv, at = "page", form # "plain",
           NEW p, p = B!PageOf(number), B!Usable(p), B!Agrees(p)
    PROVE  /\ p.items \in Seq(B!Systems) /\ Len(p.items) \in Nat
           /\ Len(all) + Len(p.items) <= MaxRecords
           /\ B!Expected(p).pages = B!TotalPages(p)
           /\ B!TotalPages(p) \in Nat /\ number <= B!TotalPages(p)
           /\ B!TotalPages(p) <= MaxPages
           /\ form \in {"items", "both"} =>
                 /\ B!Expected(p).hasTotalItems
                 /\ B!Expected(p).totalItems = Len(hub)
                 /\ \A k \in DOMAIN totals : totals[k] = Len(hub)
           /\ changes = 0 =>
                 /\ (number - 1) * PageSize \in Nat
                 /\ (number - 1) * PageSize <= Len(hub)
                 /\ all = SubSeq(hub, 1, (number - 1) * PageSize)
<1>0. /\ HubTypes /\ PagesSoFar /\ number \in Nat \ {0}
      /\ hub \in Seq(B!Systems) /\ Len(hub) \in Nat /\ PageSize \in Nat \ {0}
      /\ MaxRecords \in Nat /\ MaxPages \in Nat \ {0} /\ form \in B!Forms \ {"plain"}
  BY HubIs DEF HubInv, HubTypes, B!BeszelAssumption
<1>1. /\ p.paginated /\ p.page = number
      /\ p.hasTotalItems <=> form \in {"items", "both"}
      /\ p.totalItems = Len(hub) /\ B!TotalPages(p) \in Nat
      /\ p.items = SubSeq(hub, (number - 1) * PageSize + 1,
                          IF number * PageSize < Len(hub) THEN number * PageSize
                          ELSE Len(hub))
  BY <1>0, PageIs DEF HubTypes
<1>2. number * PageSize \in Nat /\ (number - 1) * PageSize \in Nat
  BY <1>0, Multiplied
<1>3. p.items \in Seq(B!Systems) /\ Len(p.items) \in Nat
  BY <1>0, <1>1, <1>2
<1>4. Len(all) \in Nat /\ Len(all) + Len(p.items) <= MaxRecords
  BY <1>0, <1>3 DEF B!Usable, B!TooMany, HubTypes
<1>5. /\ B!Expected(p).pages = B!TotalPages(p)
      /\ B!Expected(p).hasTotalItems = p.hasTotalItems
      /\ p.hasTotalItems => B!Expected(p).totalItems = Len(hub)
  <2>1. /\ B!Metadata(p).pages = B!TotalPages(p)
        /\ B!Metadata(p).hasTotalItems = p.hasTotalItems
        /\ p.hasTotalItems => B!Metadata(p).totalItems = Len(hub)
    BY <1>1 DEF B!Metadata
  <2> QED BY <2>1 DEF B!Agrees
<1>6. number <= B!TotalPages(p)
  BY <1>1 DEF B!Usable, B!Decodes
<1>7. CASE number = 1
  <2>1. B!TotalPages(p) <= MaxPages
    <3>1. ~ (B!TotalPages(p) > MaxPages)
      BY <1>1, <1>7, Zenon DEF B!Usable, B!TooMany
    <3> QED BY <1>0, <1>1, <3>1
  <2>2. all = << >> /\ totals = << >> /\ (number - 1) * PageSize = 0
    BY <1>0, <1>7 DEF PagesSoFar
  <2>3. SubSeq(hub, 1, 0) = << >> /\ DOMAIN totals = {}
    BY <1>0, <2>2
  <2> QED BY <1>0, <1>1, <1>3, <1>4, <1>5, <1>6, <2>1, <2>2, <2>3
<1>8. CASE number > 1
  <2>1. B!Expected(p) = expected
    BY <1>0, <1>8 DEF B!Expected
  <2> QED BY <1>0, <1>1, <1>2, <1>3, <1>4, <1>5, <1>6, <1>8, <2>1 DEF PagesSoFar
<1> QED BY <1>0, <1>7, <1>8

LEMMA ReadPageKeeps ==
    ASSUME B!BeszelAssumption, HubInv, B!ReadPage PROVE HubInv'
<1> DEFINE p == B!PageOf(number)
<1>1. /\ at = "page" /\ B!Usable(p) /\ p.paginated /\ B!Agrees(p) /\ ~ B!LastPage(p)
      /\ expected' = B!Expected(p) /\ all' = all \o p.items
      /\ totals' = Append(totals, Len(hub)) /\ number' = number + 1
      /\ UNCHANGED <<at, listed, hub, form, changes>>
  BY DEF B!ReadPage
<1>2. form # "plain"
  BY <1>1 DEF B!PageOf
<1>3. /\ p.items \in Seq(B!Systems) /\ Len(p.items) \in Nat
      /\ Len(all) + Len(p.items) <= MaxRecords
      /\ B!Expected(p).pages = B!TotalPages(p)
      /\ B!TotalPages(p) \in Nat /\ number <= B!TotalPages(p)
      /\ B!TotalPages(p) <= MaxPages
      /\ form \in {"items", "both"} =>
            /\ B!Expected(p).totalItems = Len(hub)
            /\ \A k \in DOMAIN totals : totals[k] = Len(hub)
      /\ changes = 0 =>
            /\ (number - 1) * PageSize \in Nat
            /\ (number - 1) * PageSize <= Len(hub)
            /\ all = SubSeq(hub, 1, (number - 1) * PageSize)
  BY <1>1, <1>2, UsedPage
<1>4. /\ p.items = SubSeq(hub, (number - 1) * PageSize + 1,
                          IF number * PageSize < Len(hub) THEN number * PageSize
                          ELSE Len(hub))
      /\ \A m \in Nat \ {0} : m < B!TotalPages(p) => m * PageSize < Len(hub)
  <2>1. number \in Nat \ {0}
    BY <1>1 DEF HubInv, HubTypes
  <2> HIDE DEF p
  <2> QED BY <1>2, <2>1, PageIs DEF p, HubInv, HubTypes
<1>5. /\ number \in Nat \ {0} /\ hub \in Seq(B!Systems) /\ Len(hub) \in Nat
      /\ MaxPages \in Nat /\ all \in Seq(B!Systems) /\ totals \in Seq(Nat)
      /\ PageSize \in Nat \ {0} /\ number * PageSize \in Nat
  BY <1>1, HubIs DEF HubInv, HubTypes, B!BeszelAssumption
<1> HIDE DEF p
<1>6. number < B!TotalPages(p) /\ number + 1 <= B!TotalPages(p)
  BY <1>1, <1>3, <1>5 DEF B!LastPage
<1>7. number * PageSize < Len(hub)
  BY <1>4, <1>5, <1>6
<1>8. ASSUME changes = 0 PROVE all' = SubSeq(hub, 1, number * PageSize)
  <2>1. (number - 1) * PageSize <= number * PageSize
    BY <1>5, Multiplied
  <2>2. p.items = SubSeq(hub, (number - 1) * PageSize + 1, number * PageSize)
    BY <1>4, <1>7
  <2> DEFINE i == (number - 1) * PageSize
             j == number * PageSize
  <2>3. all = SubSeq(hub, 1, i) /\ i \in Nat /\ j \in Nat /\ i <= j /\ j <= Len(hub)
    BY <1>3, <1>5, <1>7, <1>8, <2>1
  <2> HIDE DEF i, j
  <2>4. p.items = SubSeq(hub, i + 1, j)
    BY <2>2 DEF i, j
  <2>5. all' = SubSeq(hub, 1, j)
    <3>1. SubSeq(hub, 1, i) \o SubSeq(hub, i + 1, j) = SubSeq(hub, 1, j)
      BY <1>5, <2>3, Pieces
    <3> QED BY <1>1, <2>3, <2>4, <3>1
  <2> QED BY <2>5 DEF j
<1>9. all' \in Seq(B!Systems) /\ Len(all') = Len(all) + Len(p.items)
  BY <1>1, <1>3, <1>5
<1>10. /\ totals' \in Seq(Nat)
       /\ form \in {"items", "both"} => \A k \in DOMAIN totals' : totals'[k] = Len(hub)
  BY <1>1, <1>3, <1>5
<1>11. HubTypes'
  BY <1>1, <1>3, <1>5, <1>6, <1>9, <1>10 DEF HubInv, HubTypes
<1>12. PagesSoFar'
  <2>1. number' - 1 = number /\ number' > 1
    BY <1>1, <1>5
  <2>2. expected'.pages \in Nat /\ number' <= expected'.pages /\ expected'.pages <= MaxPages
    BY <1>1, <1>3, <1>6
  <2>3. form' \in {"items", "both"} =>
           \A k \in DOMAIN totals' : totals'[k] = expected'.totalItems
    BY <1>1, <1>3, <1>10
  <2>4. changes' = 0 => /\ (number' - 1) * PageSize < Len(hub')
                        /\ all' = SubSeq(hub', 1, (number' - 1) * PageSize)
    BY <1>1, <1>7, <1>8, <2>1
  <2>5. form' # "plain" /\ number' # 1
    BY <1>1, <1>2, <1>5
  <2> QED BY <2>2, <2>3, <2>4, <2>5 DEF PagesSoFar
<1> QED BY <1>1, <1>5, <1>11, <1>12 DEF HubInv, B!Listed

LEMMA ReadLastKeeps ==
    ASSUME B!BeszelAssumption, HubInv, B!ReadLast PROVE HubInv'
<1> DEFINE p == B!PageOf(number)
<1>1. /\ at = "page" /\ B!Usable(p) /\ all' = all \o p.items
      /\ p.paginated => B!Agrees(p) /\ B!LastPage(p) /\ B!Counted(p)
      /\ totals' = Append(totals, Len(hub))
      /\ UNCHANGED <<number, hub, form, changes>>
      /\ at' = "done" /\ listed'.err = "none" /\ listed'.systems = all'
  BY DEF B!ReadLast, B!Done, B!hubVars
<1>2. /\ number \in Nat \ {0} /\ hub \in Seq(B!Systems) /\ Len(hub) \in Nat
      /\ all \in Seq(B!Systems) /\ totals \in Seq(Nat) /\ form \in B!Forms
      /\ PageSize \in Nat \ {0} /\ MaxRecords \in Nat
  BY <1>1, HubIs DEF HubInv, HubTypes, B!BeszelAssumption
<1>3. totals' \in Seq(Nat)
  BY <1>1, <1>2
<1>4. CASE form = "plain"
  <2>1. number = 1 /\ all = << >> /\ p.items = hub
    BY <1>1, <1>2, <1>4 DEF HubInv, PagesSoFar, B!PageOf
  <2> HIDE DEF p
  <2>2. all' = hub /\ Len(hub) <= MaxRecords
    BY <1>1, <1>2, <2>1 DEF B!Usable, B!TooMany
  <2>3. HubTypes'
    BY <1>1, <1>2, <1>3, <2>2 DEF HubInv, HubTypes
  <2> QED BY <1>1, <1>4, <2>2, <2>3 DEF HubInv
<1>5. CASE form # "plain"
  <2>0. p.paginated
    BY <1>5 DEF B!PageOf
  <2>1. /\ p.items \in Seq(B!Systems) /\ Len(p.items) \in Nat
        /\ Len(all) + Len(p.items) <= MaxRecords
        /\ B!Expected(p).pages = B!TotalPages(p)
        /\ B!TotalPages(p) \in Nat /\ number <= B!TotalPages(p)
        /\ form \in {"items", "both"} =>
              /\ B!Expected(p).hasTotalItems
              /\ B!Expected(p).totalItems = Len(hub)
              /\ \A k \in DOMAIN totals : totals[k] = Len(hub)
        /\ changes = 0 =>
              /\ (number - 1) * PageSize \in Nat
              /\ (number - 1) * PageSize <= Len(hub)
              /\ all = SubSeq(hub, 1, (number - 1) * PageSize)
    BY <1>1, <1>5, <2>0, UsedPage
  <2>2. /\ p.items = SubSeq(hub, (number - 1) * PageSize + 1,
                            IF number * PageSize < Len(hub) THEN number * PageSize
                            ELSE Len(hub))
        /\ \A m \in Nat \ {0} : m >= B!TotalPages(p) => m * PageSize >= Len(hub)
    <3> HIDE DEF p
    <3> QED BY <1>2, <1>5, PageIs DEF p, HubInv, HubTypes
  <2> HIDE DEF p
  <2>3. number * PageSize >= Len(hub)
    BY <1>1, <1>2, <2>0, <2>1, <2>2 DEF B!LastPage
  <2>4. ASSUME changes = 0 PROVE all' = hub
    <3>1. p.items = SubSeq(hub, (number - 1) * PageSize + 1, Len(hub))
      <4>1. (IF number * PageSize < Len(hub) THEN number * PageSize
              ELSE Len(hub)) = Len(hub)
        BY <1>2, <2>3, Multiplied
      <4> QED BY <2>2, <4>1
    <3> DEFINE i == (number - 1) * PageSize
    <3>2. all = SubSeq(hub, 1, i) /\ i \in Nat /\ i <= Len(hub)
      BY <2>1, <2>4
    <3> HIDE DEF i
    <3>3. p.items = SubSeq(hub, i + 1, Len(hub))
      BY <3>1 DEF i
    <3>4. all' = SubSeq(hub, 1, Len(hub))
      <4>1. SubSeq(hub, 1, i) \o SubSeq(hub, i + 1, Len(hub)) = SubSeq(hub, 1, Len(hub))
        <5> DEFINE j == Len(hub)
        <5>1. j \in Nat /\ i <= j /\ j <= Len(hub)
          BY <1>2, <3>2
        <5> HIDE DEF j
        <5>2. SubSeq(hub, 1, i) \o SubSeq(hub, i + 1, j) = SubSeq(hub, 1, j)
          BY <1>2, <3>2, <5>1, Pieces
        <5> QED BY <5>2 DEF j
      <4> QED BY <1>1, <3>2, <3>3, <4>1
    <3> QED BY <1>2, <3>4, Pieces
  <2>5. all' \in Seq(B!Systems) /\ Len(all') = Len(all) + Len(p.items)
    BY <1>1, <1>2, <2>1
  <2>6. form \in {"items", "both"} =>
           \A k \in DOMAIN totals' : totals'[k] = Len(all')
    BY <1>1, <1>2, <2>0, <2>1, <2>5 DEF B!Counted
  <2>7. HubTypes'
    BY <1>1, <1>2, <1>3, <2>1, <2>5 DEF HubInv, HubTypes
  <2> QED BY <1>1, <2>4, <2>6, <2>7 DEF HubInv
<1> QED BY <1>4, <1>5

LEMMA HubStep ==
    ASSUME B!BeszelAssumption, HubInv, [B!Next]_(B!vars) PROVE HubInv'
<1>0. HubTypes /\ hub \in Seq(B!Systems) /\ Len(hub) \in Nat /\ totals \in Seq(Nat)
      /\ number \in Nat /\ MaxPages \in Nat \ {0}
  BY HubIs DEF HubInv, HubTypes, B!BeszelAssumption
<1>1. CASE B!ReadPage
  BY <1>1, ReadPageKeeps
<1>2. CASE B!ReadLast
  BY <1>2, ReadLastKeeps
<1>3. CASE B!PageRefused
  <2>1. B!Done(B!ListError("upstream")) /\ UNCHANGED <<all, hub, form, changes>>
        /\ totals' = Append(totals, Len(hub)) /\ "upstream" \in B!Errors
    BY <1>3 DEF B!PageRefused, B!Errors
  <2>2. totals' \in Seq(Nat)
    BY <1>0, <2>1
  <2> QED BY <2>1, <2>2, ErrorKeeps
<1>4. CASE B!PageLost
  <2>1. CASE number = 1
    BY <1>0, <1>4, <2>1 DEF B!PageLost, HubInv, HubTypes, PagesSoFar, B!Listed
  <2>2. CASE number # 1
    <3>1. PICK err \in {"timeout", "upstream"} : B!Done(B!ListError(err))
      BY <1>4, <2>2 DEF B!PageLost, B!Lost
    <3>2. UNCHANGED <<all, hub, form, changes>> /\ totals' \in Seq(Nat)
          /\ err \in B!Errors
      BY <1>0, <1>4 DEF B!PageLost, B!Errors
    <3> QED BY <3>1, <3>2, ErrorKeeps
  <2> QED BY <2>1, <2>2
<1>5. CASE B!Refused
  <2>1. PICK err \in {"authentication", "upstream"} : B!Done(B!ListError(err))
    BY <1>5 DEF B!Refused
  <2>2. UNCHANGED <<all, hub, form, changes>> /\ totals' \in Seq(Nat)
        /\ err \in B!Errors
    BY <1>0, <1>5 DEF B!Refused, B!Errors
  <2> QED BY <2>1, <2>2, ErrorKeeps
<1>6. CASE B!AlternateLost
  <2>1. CASE number < 2
    BY <1>0, <1>6, <2>1 DEF B!AlternateLost, HubInv, HubTypes, B!Listed
  <2>2. CASE ~ (number < 2)
    <3>1. PICK err \in {"timeout", "upstream"} : B!Done(B!ListError(err))
      BY <1>6, <2>2 DEF B!AlternateLost, B!Lost
    <3>2. UNCHANGED <<all, hub, form, changes>> /\ totals' \in Seq(Nat)
          /\ err \in B!Errors
      BY <1>0, <1>6 DEF B!AlternateLost, B!Errors
    <3> QED BY <3>1, <3>2, ErrorKeeps
  <2> QED BY <2>1, <2>2
<1>7. CASE B!ReadAlternate
  <2>1. /\ at = "alternate" /\ at' = "done" /\ UNCHANGED <<number, all, hub, form, changes, totals>>
        /\ listed'.err \in B!Errors \cup {"none"}
    BY <1>7 DEF B!ReadAlternate, B!Done, B!ListError, B!Errors
  <2>2. totals' = << >>
    BY <2>1 DEF HubInv
  <2> QED BY <1>0, <2>1, <2>2 DEF HubInv, HubTypes
<1>8. CASE B!Change
  <2>1. /\ at # "done" /\ hub' \in B!Hubs /\ changes' = changes + 1 /\ changes < MaxChanges
        /\ UNCHANGED <<at, number, all, expected, listed, form, totals>>
    BY <1>8 DEF B!Change
  <2>2. changes' \in 0..MaxChanges /\ changes' # 0
    BY <1>0, <2>1 DEF HubTypes, B!BeszelAssumption
  <2>3. HubTypes'
    BY <1>0, <2>1, <2>2 DEF HubTypes
  <2>4. PagesSoFar => PagesSoFar'
    BY <2>1, <2>2 DEF PagesSoFar
  <2> QED BY <2>1, <2>3, <2>4 DEF HubInv, B!Listed
<1>9. CASE UNCHANGED B!vars
  BY <1>9 DEF B!vars, HubInv, HubTypes, PagesSoFar, B!Listed
<1> QED BY <1>1, <1>2, <1>3, <1>4, <1>5, <1>6, <1>7, <1>8, <1>9 DEF B!Next

LEMMA HubAlways == ASSUME B!BeszelAssumption PROVE B!Spec => []HubInv
<1>1. B!Init => HubInv
  BY HubInit
<1>2. HubInv /\ [B!Next]_(B!vars) => HubInv'
  BY HubStep
<1> QED BY <1>1, <1>2, PTL DEF B!Spec

(* The status of the system that the binding names, of a list of systems.  *)
LEMMA StatusIs ==
    ASSUME listed.err = "none"
    PROVE  B!Collected("beszel_status", "live", "live",
                       B!BeszelAnswer(TRUE), FALSE).complete
              <=> Wanted \in B!Range(listed.systems)
<1> DEFINE a == B!BeszelAnswer(TRUE)
           missing == B!FindSystem(listed.systems) = {}
           item == [missing |-> missing, inWindow |-> TRUE]
           o == B!SourceOutcome("live", "live", a)
<1>1. missing <=> ~ Wanted \in B!Range(listed.systems)
  BY DEF B!FindSystem, B!Range
<1>2. a.err = "none" /\ a.items = <<item>>
  BY DEF B!BeszelAnswer, B!NoAnswer
<1>3. B!Taken("beszel_status", a) = a /\ B!ItemsOf("beszel_status", a) = <<item>>
  BY <1>2 DEF B!Taken, B!ItemsOf
<1>4. o = B!Outcome("ok", "", 1, TRUE)
  <2>1. Len(<<item>>) = 1
    OBVIOUS
  <2> QED BY <1>2, <2>1 DEF B!SourceOutcome
<1>5. B!Collected("beszel_status", "live", "live", a, FALSE)
         = B!MarkEmpty(B!StatusOutcome(o, <<item>>))
  <2> DEFINE i == B!ItemsOf("beszel_status", a)
             t == B!Taken("beszel_status", a)
  <2>1. B!Collected("beszel_status", "live", "live", a, FALSE)
           = B!MarkEmpty(B!StatusOutcome(B!SourceOutcome("live", "live", t), i))
    <3> HIDE DEF a, i, t
    <3> QED BY DEF B!Collected, B!SnapshotWindows, i, t
  <2> HIDE DEF a, item, missing
  <2> QED BY <1>3, <2>1 DEF o
<1>6. Len(<<item>>) = 1 /\ <<item>>[1].missing = missing
  OBVIOUS
<1> HIDE DEF a, item, missing, o
<1>7. CASE missing
  <2>1. B!StatusOutcome(o, <<item>>) = B!MarkMissing(o)
    BY <1>6, <1>7 DEF B!StatusOutcome
  <2>2. B!MarkMissing(o).complete = FALSE /\ B!MarkMissing(o).reason = "unmatched_binding"
    BY <1>4 DEF B!MarkMissing, B!Outcome
  <2> QED BY <1>1, <1>5, <1>7, <2>1, <2>2 DEF B!MarkEmpty, a
<1>8. CASE ~ missing
  <2>1. B!StatusOutcome(o, <<item>>) = o
    BY <1>6, <1>8 DEF B!StatusOutcome
  <2>2. o.complete = TRUE /\ o.itemCount = 1
    BY <1>4 DEF B!Outcome
  <2>3. B!MarkEmpty(o) = o
    BY <2>2 DEF B!MarkEmpty
  <2>4. B!Collected("beszel_status", "live", "live", a, FALSE) = o
    BY <1>5, <2>1, <2>3
  <2> QED BY <1>1, <1>8, <2>2, <2>4 DEF a
<1> QED BY <1>7, <1>8

(* The pages that are read, the records that are kept and what is returned *)
(* stay in their ranges.                                                   *)
THEOREM HubTypeCorrect ==
    ASSUME B!BeszelAssumption PROVE B!Spec => []B!TypeOK
<1>1. HubInv => B!TypeOK
  BY DEF HubInv, HubTypes, B!TypeOK
<1> QED BY <1>1, HubAlways, PTL

(* A list of systems that is returned is one that the pages agree on, and  *)
(* the whole hub if it did not change (fetchSystems), whatever the hub     *)
(* holds, the size of its pages and the changes between them.              *)
THEOREM PagesAgreeCorrect ==
    ASSUME B!BeszelAssumption PROVE B!Spec => []PagesAgree
<1>1. HubInv => PagesAgree
  <2> SUFFICES ASSUME HubInv, B!Listed, totals # << >> PROVE PagesAgree
    BY DEF PagesAgree, B!PagesAgree
  <2>1. listed.err = "none"
    BY DEF B!Listed
  <2>2. /\ changes = 0 => listed.systems = hub
        /\ form \in {"items", "both"} =>
              \A k \in DOMAIN totals : totals[k] = Len(listed.systems)
    BY DEF HubInv
  <2>3. changes = 0 => B!Range(listed.systems) = B!Range(hub)
    BY <2>2
  <2>4. changes = 0 => (B!Collected("beszel_status", "live", "live",
                                   B!BeszelAnswer(TRUE), FALSE).complete
                          <=> Wanted \in B!Range(hub))
    BY <2>1, <2>3, StatusIs
  <2> QED BY <2>2, <2>4 DEF PagesAgree, B!PagesAgree
<1> QED BY <1>1, HubAlways, PTL

----------------------------------------------------------------------------
(* The adapters of one request: how items are sorted and the newest kept   *)

LEMMA SameRanked ==
    ASSUME NEW S, NEW before PROVE A!Ranked(S, before) = Ranked(S, before)
BY Zenon DEF A!Ranked, Ranked, A!Cardinality, Cardinality

LEMMA SameArranged ==
    ASSUME NEW list, NEW ks, NEW before
    PROVE  /\ A!Arranged(list, ks, before) = Arranged(list, ks, before)
           /\ A!Chosen(list, ks) = Chosen(list, ks)
BY SameRanked DEF A!Arranged, Arranged, A!Chosen, Chosen, A!ByPosition, ByPosition

(* What decides the place of an item.                                      *)
Placed(item) ==
    /\ item.time \in Nat /\ item.sourceID \in Nat
    /\ item.order \in Nat /\ item.serial \in Nat

LEMMA PrecedesIs ==
    ASSUME NEW a, NEW b
    PROVE  A!Precedes(a, b) <=>
              \/ a.time < b.time
              \/ a.time = b.time /\ a.sourceID < b.sourceID
              \/ a.time = b.time /\ a.sourceID = b.sourceID /\ a.order < b.order
              \/ /\ a.time = b.time /\ a.sourceID = b.sourceID
                 /\ a.order = b.order /\ A!IdKey(a.serial) < A!IdKey(b.serial)
<1> DEFINE x == A!SortKey(a)
           y == A!SortKey(b)
<1>1. /\ DOMAIN x = 1..4
      /\ x[1] = a.time /\ x[2] = a.sourceID /\ x[3] = a.order
      /\ x[4] = A!IdKey(a.serial)
      /\ y[1] = b.time /\ y[2] = b.sourceID /\ y[3] = b.order
      /\ y[4] = A!IdKey(b.serial)
  BY DEF A!SortKey
<1>2. A!Precedes(a, b) <=>
         \E k \in DOMAIN x : x[k] < y[k] /\ \A j \in 1..k - 1 : x[j] = y[j]
  BY DEF A!Precedes
<1> HIDE DEF x, y
<1>3. A!Precedes(a, b) <=> \E k \in {1, 2, 3, 4} :
                              x[k] < y[k] /\ \A j \in 1..k - 1 : x[j] = y[j]
  <2>1. DOMAIN x = {1, 2, 3, 4}
    BY <1>1
  <2> QED BY <1>2, <2>1
<1>4. /\ \A j \in 1..1 - 1 : FALSE
      /\ (\A j \in 1..2 - 1 : x[j] = y[j]) <=> x[1] = y[1]
      /\ (\A j \in 1..3 - 1 : x[j] = y[j]) <=> x[1] = y[1] /\ x[2] = y[2]
      /\ (\A j \in 1..4 - 1 : x[j] = y[j]) <=> x[1] = y[1] /\ x[2] = y[2] /\ x[3] = y[3]
  OBVIOUS
<1> QED BY <1>1, <1>3, <1>4

LEMMA StableOrderIs ==
    ASSUME NEW items, NEW j \in DOMAIN items, NEW k \in DOMAIN items
    PROVE  <<j, k>> \in A!StableOrder(items) <=>
              \/ A!Precedes(items[j], items[k])
              \/ ~ A!Precedes(items[k], items[j]) /\ j < k
BY DEF A!StableOrder

LEMMA StableLinear ==
    ASSUME NEW n \in Nat, NEW items, DOMAIN items = 1..n,
           \A k \in 1..n : Placed(items[k])
    PROVE  Linear(1..n, A!StableOrder(items))
<1> DEFINE t(k) == items[k].time
           s(k) == items[k].sourceID
           o(k) == items[k].order
           d(k) == A!IdKey(items[k].serial)
           Comes(j, k) ==
               \/ t(j) < t(k)
               \/ t(j) = t(k) /\ s(j) < s(k)
               \/ t(j) = t(k) /\ s(j) = s(k) /\ o(j) < o(k)
               \/ t(j) = t(k) /\ s(j) = s(k) /\ o(j) = o(k) /\ d(j) < d(k)
               \/ t(j) = t(k) /\ s(j) = s(k) /\ o(j) = o(k) /\ d(j) = d(k) /\ j < k
<1>1. \A k \in 1..n : t(k) \in Nat /\ s(k) \in Nat /\ o(k) \in Nat /\ d(k) \in Int
  BY DEF Placed, A!IdKey
<1>2. ASSUME NEW j \in 1..n, NEW k \in 1..n
      PROVE  Comes(j, k) <=> <<j, k>> \in A!StableOrder(items)
  <2>1. <<j, k>> \in A!StableOrder(items) <=>
           \/ A!Precedes(items[j], items[k])
           \/ ~ A!Precedes(items[k], items[j]) /\ j < k
    BY StableOrderIs
  <2>2. /\ t(j) \in Int /\ s(j) \in Int /\ o(j) \in Int /\ d(j) \in Int
        /\ t(k) \in Int /\ s(k) \in Int /\ o(k) \in Int /\ d(k) \in Int
    BY <1>1
  <2>3. A!Precedes(items[j], items[k]) <=>
           \/ t(j) < t(k)
           \/ t(j) = t(k) /\ s(j) < s(k)
           \/ t(j) = t(k) /\ s(j) = s(k) /\ o(j) < o(k)
           \/ t(j) = t(k) /\ s(j) = s(k) /\ o(j) = o(k) /\ d(j) < d(k)
    BY PrecedesIs
  <2>4. A!Precedes(items[k], items[j]) <=>
           \/ t(k) < t(j)
           \/ t(k) = t(j) /\ s(k) < s(j)
           \/ t(k) = t(j) /\ s(k) = s(j) /\ o(k) < o(j)
           \/ t(k) = t(j) /\ s(k) = s(j) /\ o(k) = o(j) /\ d(k) < d(j)
    BY PrecedesIs
  <2> HIDE DEF t, s, o, d
  <2>5. ASSUME ~ A!Precedes(items[j], items[k])
        PROVE  ~ A!Precedes(items[k], items[j]) <=>
                  t(j) = t(k) /\ s(j) = s(k) /\ o(j) = o(k) /\ d(j) = d(k)
    BY <2>2, <2>3, <2>4, <2>5
  <2>6. CASE A!Precedes(items[j], items[k])
    BY <2>1, <2>3, <2>6
  <2>7. CASE ~ A!Precedes(items[j], items[k])
    BY <2>1, <2>3, <2>5, <2>7
  <2> QED BY <2>6, <2>7
<1> HIDE DEF t, s, o, d
<1>4. ASSUME NEW k \in 1..n PROVE <<k, k>> \notin A!StableOrder(items)
  <2>1. Comes(k, k) <=> <<k, k>> \in A!StableOrder(items)
    BY <1>2
  <2>2. ~ Comes(k, k)
    BY <1>1
  <2> QED BY <2>1, <2>2
<1>5. ASSUME NEW j \in 1..n, NEW k \in 1..n, j # k
      PROVE  <<j, k>> \in A!StableOrder(items) \/ <<k, j>> \in A!StableOrder(items)
  <2>1. /\ Comes(j, k) <=> <<j, k>> \in A!StableOrder(items)
        /\ Comes(k, j) <=> <<k, j>> \in A!StableOrder(items)
    BY <1>2
  <2>2. Comes(j, k) \/ Comes(k, j)
    BY <1>1, <1>5
  <2> QED BY <2>1, <2>2
<1>6. ASSUME NEW i \in 1..n, NEW j \in 1..n, NEW k \in 1..n,
             <<i, j>> \in A!StableOrder(items), <<j, k>> \in A!StableOrder(items)
      PROVE  <<i, k>> \in A!StableOrder(items)
  <2>1. /\ Comes(i, j) <=> <<i, j>> \in A!StableOrder(items)
        /\ Comes(j, k) <=> <<j, k>> \in A!StableOrder(items)
        /\ Comes(i, k) <=> <<i, k>> \in A!StableOrder(items)
    BY <1>2
  <2>2. Comes(i, j) /\ Comes(j, k) => Comes(i, k)
    <3>1. /\ t(i) \in Int /\ s(i) \in Int /\ o(i) \in Int /\ d(i) \in Int
          /\ t(j) \in Int /\ s(j) \in Int /\ o(j) \in Int /\ d(j) \in Int
          /\ t(k) \in Int /\ s(k) \in Int /\ o(k) \in Int /\ d(k) \in Int
          /\ i \in Int /\ j \in Int /\ k \in Int
      BY <1>1
    <3>2. \/ t(i) < t(j) \/ t(j) < t(k)
          \/ t(i) = t(j) /\ t(j) = t(k)
          \/ ~ (Comes(i, j) /\ Comes(j, k))
      BY <3>1
    <3>3. ASSUME t(i) = t(j), t(j) = t(k), Comes(i, j), Comes(j, k)
          PROVE  Comes(i, k)
      BY <3>1, <3>3
    <3>4. Comes(i, j) => t(i) <= t(j)
      BY <3>1
    <3>5. Comes(j, k) => t(j) <= t(k)
      BY <3>1
    <3>6. t(i) < t(k) => Comes(i, k)
      OBVIOUS
    <3> HIDE DEF Comes
    <3> QED BY <3>1, <3>2, <3>3, <3>4, <3>5, <3>6
  <2> HIDE DEF Comes
  <2> QED BY <1>6, <2>1, <2>2
<1> QED BY <1>4, <1>5, <1>6 DEF Linear

(* What KeepNewest makes of n items that is the same for any of them.      *)
Kept(items, n, max, kept) ==
    /\ kept.cut <=> n > max
    /\ DOMAIN kept.items = 1..(IF n > max THEN max ELSE n)
    /\ Len(kept.items) = IF n > max THEN max ELSE n
    /\ \A i \in DOMAIN kept.items : \E k \in 1..n : kept.items[i] = items[k]
    /\ \A k \in 1..n :
          \/ \E i \in DOMAIN kept.items : kept.items[i] = items[k]
          \/ /\ kept.cut
             /\ \A i \in DOMAIN kept.items : items[k].time <= kept.items[i].time

(* The positions of the items, in the order of the sort.                   *)
Sorted(items) == Ranked(DOMAIN items, A!StableOrder(items))

LEMMA SortedLists ==
    ASSUME NEW n \in Nat, NEW items, DOMAIN items = 1..n,
           \A k \in 1..n : Placed(items[k])
    PROVE  Lists(Sorted(items), n, 1..n, A!StableOrder(items))
<1>1. IsFiniteSet(1..n) /\ Cardinality(1..n) = n
  BY FS_Interval
<1>2. Linear(1..n, A!StableOrder(items))
  BY StableLinear
<1> QED BY <1>1, <1>2, RankedLists DEF Sorted

(* The items that KeepNewest keeps are the last in that order.             *)
LEMMA KeepNewestIs ==
    ASSUME NEW n \in Nat, NEW items, DOMAIN items = 1..n, Len(items) = n,
           \A k \in 1..n : Placed(items[k]), NEW max \in Nat \ {0}
    PROVE  /\ n > max => A!KeepNewest(items, max) =
                 [items |-> [i \in 1..max |-> items[Sorted(items)[n - max + i]]],
                  cut |-> TRUE]
           /\ ~ (n > max) => A!KeepNewest(items, max) =
                 [items |-> [i \in 1..n |-> items[Sorted(items)[i]]],
                  cut |-> FALSE]
<1> DEFINE r == Sorted(items)
           s == A!SortItems(items)
<1>1. r \in [1..n -> 1..n]
  BY SortedLists DEF Lists
<1>2. s = [i \in 1..n |-> items[r[i]]]
  <2>1. s = Arranged(items, 1..n, A!StableOrder(items))
    BY SameArranged DEF A!SortItems
  <2>2. r = Ranked(1..n, A!StableOrder(items))
    BY DEF Sorted
  <2>3. DOMAIN r = 1..n
    BY <1>1
  <2> HIDE DEF r, s
  <2> QED BY <2>1, <2>2, <2>3 DEF Arranged
<1>3. A!KeepNewest(items, max) =
         [items |-> IF max > 0 /\ Len(items) > max
                    THEN SubSeq(s, Len(items) - max + 1, Len(items)) ELSE s,
          cut |-> max > 0 /\ Len(items) > max]
  BY Zenon DEF A!KeepNewest
<1> HIDE DEF r, s
<1>4. ASSUME n > max
      PROVE  SubSeq(s, n - max + 1, n) = [i \in 1..max |-> items[r[n - max + i]]]
  <2> DEFINE Values == {items[k] : k \in 1..n}
  <2>1. s \in [1..n -> Values]
    BY <1>1, <1>2
  <2> HIDE DEF Values
  <2>2. s \in Seq(Values) /\ Len(s) = n
    BY <2>1, LengthIs
  <2>3. n - max + 1 \in 1..n /\ n - (n - max + 1) + 1 = max
    BY <1>4
  <2>4. SubSeq(s, n - max + 1, n) =
           [i \in 1..n - (n - max + 1) + 1 |-> s[(n - max + 1) + i - 1]]
    BY <2>2, <2>3, <1>4
  <2>5. ASSUME NEW i \in 1..max
        PROVE  s[(n - max + 1) + i - 1] = items[r[n - max + i]]
    <3>1. (n - max + 1) + i - 1 = n - max + i /\ n - max + i \in 1..n
      BY <1>4
    <3> QED BY <1>2, <3>1
  <2> QED BY <2>3, <2>4, <2>5
<1>5. ASSUME n > max
      PROVE  A!KeepNewest(items, max) =
                 [items |-> [i \in 1..max |-> items[r[n - max + i]]], cut |-> TRUE]
  <2>1. A!KeepNewest(items, max) =
           [items |-> SubSeq(s, n - max + 1, n), cut |-> TRUE]
    <3>1. (max > 0 /\ Len(items) > max) = TRUE
      BY <1>5
    <3> QED BY <1>3, <3>1
  <2> QED BY <1>4, <1>5, <2>1
<1>6. ASSUME ~ (n > max)
      PROVE  A!KeepNewest(items, max) =
                 [items |-> [i \in 1..n |-> items[r[i]]], cut |-> FALSE]
  <2>1. A!KeepNewest(items, max) = [items |-> s, cut |-> FALSE]
    <3>1. (max > 0 /\ Len(items) > max) = FALSE
      BY <1>6
    <3> QED BY <1>3, <3>1
  <2> QED BY <1>2, <2>1
<1> QED BY <1>5, <1>6 DEF r

LEMMA KeptIs ==
    ASSUME NEW n \in Nat, NEW items, DOMAIN items = 1..n, Len(items) = n,
           \A k \in 1..n : Placed(items[k]), NEW max \in Nat \ {0}
    PROVE  Kept(items, n, max, A!KeepNewest(items, max))
<1> DEFINE kept == A!KeepNewest(items, max)
           r == Sorted(items)
           m == IF n > max THEN max ELSE n
           from(i) == IF n > max THEN n - max + i ELSE i
<1>1. Lists(r, n, 1..n, A!StableOrder(items))
  BY SortedLists
<1>2. /\ n > max => kept = [items |-> [i \in 1..max |-> items[r[n - max + i]]],
                            cut |-> TRUE]
      /\ ~ (n > max) => kept = [items |-> [i \in 1..n |-> items[r[i]]],
                                cut |-> FALSE]
  BY KeepNewestIs
<1> HIDE DEF kept, r
<1>3. /\ m \in Nat /\ m <= n
      /\ kept.items = [i \in 1..m |-> items[r[from(i)]]]
      /\ \A i \in 1..m : from(i) \in 1..n
  <2>1. CASE n > max
    BY <1>2, <2>1
  <2>2. CASE ~ (n > max)
    BY <1>2, <2>2
  <2> QED BY <2>1, <2>2
<1>4. DOMAIN kept.items = 1..m /\ Len(kept.items) = m
  <2> HIDE DEF m, from
  <2>1. kept.items = [i \in 1..m |-> kept.items[i]]
    BY <1>3
  <2> QED BY <1>3, <2>1, LengthIs
<1>5. \A k \in 1..n : r[k] \in 1..n
  BY <1>1 DEF Lists
<1>6. ASSUME NEW i \in DOMAIN kept.items
      PROVE  \E k \in 1..n : kept.items[i] = items[k]
  BY <1>3, <1>4, <1>5
<1>7. ASSUME NEW k \in 1..n
      PROVE  \/ \E i \in DOMAIN kept.items : kept.items[i] = items[k]
             \/ /\ kept.cut
                /\ \A i \in DOMAIN kept.items : items[k].time <= kept.items[i].time
  <2>1. PICK j \in 1..n : r[j] = k
    BY <1>1 DEF Lists
  <2>2. CASE \E i \in 1..m : from(i) = j
    <3>1. PICK i \in 1..m : from(i) = j
      BY <2>2
    <3>2. kept.items[i] = items[k]
      BY <1>3, <2>1, <3>1
    <3> QED BY <1>4, <3>2
  <2>3. CASE ~ \E i \in 1..m : from(i) = j
    <3>1. n > max /\ j <= n - max
      <4>1. n > max
        BY <2>3
      <4>2. j > n - max => j - (n - max) \in 1..m /\ from(j - (n - max)) = j
        BY <4>1
      <4> QED BY <2>3, <4>1, <4>2
    <3>2. ASSUME NEW i \in 1..m PROVE items[k].time <= kept.items[i].time
      <4> DEFINE q == from(i)
      <4>1. q \in 1..n /\ j < q
        BY <1>3, <3>1
      <4>2. kept.items[i] = items[r[q]] /\ r[q] \in 1..n
        BY <1>3, <1>5, <4>1
      <4> HIDE DEF q, m, from
      <4>3. <<k, r[q]>> \in A!StableOrder(items)
        BY <1>1, <2>1, <4>1 DEF Lists
      <4>4. \/ A!Precedes(items[k], items[r[q]])
            \/ ~ A!Precedes(items[r[q]], items[k])
        BY <4>2, <4>3, StableOrderIs
      <4>5. items[k].time \in Nat /\ items[r[q]].time \in Nat
        BY <4>2 DEF Placed
      <4>6. items[k].time <= items[r[q]].time
        BY <4>4, <4>5, PrecedesIs
      <4> QED BY <4>2, <4>6
    <3> QED BY <1>2, <1>4, <3>1, <3>2
  <2> QED BY <2>2, <2>3
<1>8. Len(kept.items) = m /\ DOMAIN kept.items = 1..m /\ (kept.cut <=> n > max)
  <2>1. kept.cut <=> n > max
    BY <1>2
  <2> QED BY <1>4, <2>1
<1> HIDE DEF from
<1> QED BY <1>6, <1>7, <1>8 DEF Kept, kept

----------------------------------------------------------------------------
(* The adapters of one request: a collection is one step *)

Requested(r) ==
    /\ r.start \in Nat /\ r.end \in Nat /\ r.limit \in Nat \ {0}
    /\ r.serial \in Nat /\ r.snapshotAt \in Nat \ {0}

(* The rows are ones that the source of the collector may hold.            *)
HeldBy(collector, held) ==
    /\ collector \in {"gatus_status", "gatus_window"} => held \in GatusReplies
    /\ collector \in {"docker_status", "docker_window"} => held \in DockerReplies
    /\ collector = "loki" => held \in LokiSources
    /\ collector \in {"healthchecks_status", "healthchecks_window"} =>
          held \in HealthchecksReplies
    /\ collector = "healthchecks_status" => A!Selects(held.filter)
    /\ collector = "ntfy" => held \in NtfyReplies

OneRequest ==
    {"gatus_status", "gatus_window", "docker_status", "docker_window", "loki",
     "healthchecks_status", "healthchecks_window", "ntfy"}

(* A collection that ended failed, or answers the request from the rows;   *)
(* the outcome is what the collector makes of that.                        *)
AdapterInv ==
    apc = "done" =>
        /\ request.collector \in OneRequest /\ Requested(request)
        /\ outcome = A!Collected(request.collector, "live", "live", answer,
                                 A!Past(request))
        /\ \/ rows = << >> /\ answer.err # "none"
           \/ /\ HeldBy(request.collector, rows)
              /\ answer = A!AnswerTo(request, rows)

LEMMA RequestsAre ==
    ASSUME A!AdaptersAssumption, NEW c, NEW r \in A!Requests(c)
    PROVE  r.collector = c /\ Requested(r)
<1>1. PICK w \in Windows, l \in Limits, s \in Serials, when \in Snapshots,
           n \in Snapshots :
         r = [collector |-> c, start |-> w.start, end |-> w.end, limit |-> l,
              serial |-> s, snapshotAt |-> when, now |-> n]
  BY DEF A!Requests
<1> QED BY <1>1 DEF Requested, A!AdaptersAssumption

LEMMA Fails ==
    ASSUME A!AdaptersAssumption, NEW c \in OneRequest, NEW r \in A!Requests(c),
           NEW err \in {"authentication", "timeout", "upstream"},
           A!Return(r, << >>, A!Failed(err))
    PROVE  AdapterInv'
<1>1. A!Failed(err).err # "none"
  BY DEF A!Failed, A!NoAnswer
<1>2. r.collector = c /\ Requested(r)
  BY RequestsAre
<1>3. /\ request' = r /\ rows' = << >> /\ answer' = A!Failed(err)
      /\ outcome' = A!Collected(r.collector, "live", "live", A!Failed(err), A!Past(r))
  BY DEF A!Return
<1>4. A!Past(request)' = A!Past(r)
  BY <1>3 DEF A!Past
<1> HIDE DEF OneRequest
<1> QED BY <1>1, <1>2, <1>3, <1>4 DEF AdapterInv

LEMMA Collects ==
    ASSUME A!AdaptersAssumption, NEW c \in OneRequest, NEW held,
           HeldBy(c, held), A!Collect(c, held)
    PROVE  AdapterInv'
<1>1. PICK r \in A!Requests(c) : A!Return(r, held, A!AnswerTo(r, held))
  BY DEF A!Collect
<1>2. r.collector = c /\ Requested(r)
  BY RequestsAre
<1>3. /\ request' = r /\ rows' = held /\ answer' = A!AnswerTo(r, held)
      /\ outcome' = A!Collected(r.collector, "live", "live", A!AnswerTo(r, held),
                                A!Past(r))
  BY <1>1 DEF A!Return
<1>4. A!Past(request)' = A!Past(r) /\ A!AnswerTo(request, rows)' = A!AnswerTo(r, held)
  BY <1>3 DEF A!Past
<1>5. HeldBy(request'.collector, rows')
  BY <1>2, <1>3
<1> HIDE DEF OneRequest
<1> QED BY <1>2, <1>3, <1>4, <1>5 DEF AdapterInv

LEMMA AdapterStep ==
    ASSUME A!AdaptersAssumption, AdapterInv, [A!Next]_(A!vars)
    PROVE  AdapterInv'
<1>1. CASE A!RequestFails
  <2>1. PICK c \in A!Collectors \ {"gatus_status", "gatus_window", "beszel_status",
                                   "beszel_window"},
             err \in {"authentication", "timeout", "upstream"} :
           \E r \in A!Requests(c) : A!Return(r, << >>, A!Failed(err))
    BY <1>1 DEF A!RequestFails
  <2>2. c \in OneRequest
    BY DEF OneRequest, A!Collectors
  <2> QED BY <2>1, <2>2, Fails
<1>2. CASE A!GatusFails
  <2>1. PICK c \in {"gatus_status", "gatus_window"},
             err \in {"authentication", "timeout", "upstream"} :
           \E r \in A!Requests(c) : A!Return(r, << >>, A!Failed(err))
    BY <1>2 DEF A!GatusFails
  <2>2. c \in OneRequest
    BY DEF OneRequest
  <2> QED BY <2>1, <2>2, Fails
<1>3. CASE A!CollectGatus
  <2>1. PICK c \in {"gatus_status", "gatus_window"}, list \in GatusReplies :
           A!Collect(c, list)
    BY <1>3 DEF A!CollectGatus
  <2>2. c \in OneRequest /\ HeldBy(c, list)
    BY DEF OneRequest, HeldBy
  <2> QED BY <2>1, <2>2, Collects
<1>4. CASE A!CollectDocker
  <2>1. PICK c \in {"docker_status", "docker_window"}, list \in DockerReplies :
           A!Collect(c, list)
    BY <1>4 DEF A!CollectDocker
  <2>2. c \in OneRequest /\ HeldBy(c, list)
    BY DEF OneRequest, HeldBy
  <2> QED BY <2>1, <2>2, Collects
<1>5. CASE A!CollectLoki
  <2>1. PICK held \in LokiSources : A!Collect("loki", held)
    BY <1>5 DEF A!CollectLoki
  <2>2. "loki" \in OneRequest /\ HeldBy("loki", held)
    BY DEF OneRequest, HeldBy
  <2> QED BY <2>1, <2>2, Collects
<1>6. CASE A!CollectHealthchecks
  <2>1. PICK held \in HealthchecksReplies :
           \/ A!Selects(held.filter) /\ A!Collect("healthchecks_status", held)
           \/ A!Collect("healthchecks_window", held)
    BY <1>6 DEF A!CollectHealthchecks
  <2>2. /\ "healthchecks_status" \in OneRequest /\ "healthchecks_window" \in OneRequest
        /\ A!Selects(held.filter) => HeldBy("healthchecks_status", held)
        /\ HeldBy("healthchecks_window", held)
    BY DEF OneRequest, HeldBy
  <2> QED BY <2>1, <2>2, Collects
<1>7. CASE A!CollectNtfy
  <2>1. PICK held \in NtfyReplies : A!Collect("ntfy", held)
    BY <1>7 DEF A!CollectNtfy
  <2>2. "ntfy" \in OneRequest /\ HeldBy("ntfy", held)
    BY DEF OneRequest, HeldBy
  <2> QED BY <2>1, <2>2, Collects
<1>8. CASE UNCHANGED A!vars
  BY <1>8 DEF A!vars, AdapterInv, A!Past
<1> QED BY <1>1, <1>2, <1>3, <1>4, <1>5, <1>6, <1>7, <1>8 DEF A!Next

LEMMA AdapterAlways == ASSUME A!AdaptersAssumption PROVE A!Spec => []AdapterInv
<1>1. A!Init => AdapterInv
  BY DEF A!Init, AdapterInv
<1>2. AdapterInv /\ [A!Next]_(A!vars) => AdapterInv'
  BY AdapterStep
<1> QED BY <1>1, <1>2, PTL DEF A!Spec

----------------------------------------------------------------------------
(* The adapters of one request: what an outcome says of the answer         *)

OutcomeFields ==
    {"status", "reason", "itemCount", "complete", "truncated",
     "upstreamTruncated", "localTruncated", "discarded", "omitted"}

LEMMA MarkEmptyKeeps ==
    ASSUME NEW o, DOMAIN o = OutcomeFields
    PROVE  /\ DOMAIN A!MarkEmpty(o) = OutcomeFields
           /\ A!MarkEmpty(o).status = o.status
           /\ A!MarkEmpty(o).complete = o.complete
           /\ A!MarkEmpty(o).localTruncated = o.localTruncated
BY DEF A!MarkEmpty, OutcomeFields

LEMMA MarkMissingKeeps ==
    ASSUME NEW o, DOMAIN o = OutcomeFields, NEW items
    PROVE  /\ DOMAIN A!MarkMissing(o) = OutcomeFields
           /\ DOMAIN A!StatusOutcome(o, items) = OutcomeFields
           /\ DOMAIN A!WindowOutcome(o, items) = OutcomeFields
           /\ A!MarkMissing(o).status = o.status
           /\ A!StatusOutcome(o, items).status = o.status
           /\ A!WindowOutcome(o, items).status = o.status
<1>1. DOMAIN A!MarkMissing(o) = OutcomeFields /\ A!MarkMissing(o).status = o.status
  BY DEF A!MarkMissing, OutcomeFields
<1> QED BY <1>1 DEF A!StatusOutcome, A!WindowOutcome

LEMMA MarkTruncatedKeeps ==
    ASSUME NEW o, DOMAIN o = OutcomeFields, NEW upstream, NEW local
    PROVE  /\ DOMAIN A!MarkTruncated(o, upstream, local) = OutcomeFields
           /\ A!MarkTruncated(o, upstream, local).status = o.status
           /\ A!MarkTruncated(o, upstream, local).localTruncated = local
           /\ A!MarkTruncated(o, upstream, local).complete => ~ upstream /\ ~ local
BY DEF A!MarkTruncated, OutcomeFields

LEMMA MarkCutKeeps ==
    ASSUME NEW o, DOMAIN o = OutcomeFields, NEW local
    PROVE  /\ DOMAIN A!MarkTruncated(o, FALSE, local) = OutcomeFields
           /\ A!MarkTruncated(o, FALSE, local).status = o.status
           /\ A!MarkTruncated(o, FALSE, local).localTruncated = local
           /\ A!MarkTruncated(o, FALSE, local).complete => ~ local
BY DEF A!MarkTruncated, OutcomeFields

LEMMA MarkDiscardedKeeps ==
    ASSUME NEW o, DOMAIN o = OutcomeFields, NEW discarded
    PROVE  /\ DOMAIN A!MarkDiscarded(o, discarded) = OutcomeFields
           /\ A!MarkDiscarded(o, discarded).status = o.status
           /\ A!MarkDiscarded(o, discarded).localTruncated = o.localTruncated
           /\ A!MarkDiscarded(o, discarded).complete =>
                 o.complete /\ discarded <= 0
<1>1. CASE discarded <= 0
  BY <1>1 DEF A!MarkDiscarded
<1>2. CASE ~ (discarded <= 0)
  BY <1>2 DEF A!MarkDiscarded, OutcomeFields
<1> QED BY <1>1, <1>2

LEMMA MarkHistoryKeeps ==
    ASSUME NEW o, DOMAIN o = OutcomeFields, NEW past
    PROVE  /\ DOMAIN A!MarkSnapshotHistory(o, past) = OutcomeFields
           /\ A!MarkSnapshotHistory(o, past).status = o.status
BY DEF A!MarkSnapshotHistory, OutcomeFields

LEMMA SourceOutcomeIs ==
    ASSUME NEW a
    PROVE  /\ DOMAIN A!SourceOutcome("live", "live", a) = OutcomeFields
           /\ A!SourceOutcome("live", "live", a).status = "ok" => a.err = "none"
<1>1. A!SourceErrorOutcome("live", "live", a.err) =
         A!Outcome("error", A!ReasonForError(a.err), 0, FALSE)
  BY DEF A!SourceErrorOutcome
<1>2. CASE a.err # "none"
  <2>1. A!SourceOutcome("live", "live", a) =
           A!Outcome("error", A!ReasonForError(a.err), 0, FALSE)
    BY <1>1, <1>2 DEF A!SourceOutcome
  <2>2. A!SourceOutcome("live", "live", a).status = "error"
        /\ DOMAIN A!SourceOutcome("live", "live", a) = OutcomeFields
    BY <2>1 DEF A!Outcome, OutcomeFields
  <2> QED BY <2>2
<1>3. CASE a.err = "none"
  BY <1>3 DEF A!SourceOutcome, A!Outcome, OutcomeFields
<1> QED BY <1>2, <1>3

(* An outcome that is ok stands for an answer without an error, and one    *)
(* that is complete for one without a mark of anything left out.           *)
LEMMA CollectedIs ==
    ASSUME NEW c \in OneRequest, NEW a, NEW past,
           NEW o, o = A!Collected(c, "live", "live", a, past), o.status = "ok"
    PROVE  /\ a.err = "none"
           /\ c \in {"gatus_window", "loki", "ntfy"} =>
                 (o.localTruncated = a.local /\ (o.complete => ~ a.local))
           /\ c = "loki" /\ o.complete => a.discarded <= 0
           /\ c = "ntfy" /\ o.complete => ~ a.upstream
<1> DEFINE t == A!Taken(c, a)
           s == A!SourceOutcome("live", "live", t)
           items == A!ItemsOf(c, a)
<1>1. DOMAIN s = OutcomeFields /\ (s.status = "ok" => t.err = "none")
  BY SourceOutcomeIs
<1>2. t.err = "none" => a.err = "none"
  BY DEF A!Taken, A!FilterCurrentSnapshots
<1>3. c \in {"gatus_window", "loki", "ntfy"} => t = a
  BY DEF A!Taken
<1>4. CASE c \in {"gatus_status", "docker_status"}
  <2>1. o = A!MarkEmpty(A!StatusOutcome(s, items))
    BY <1>4 DEF A!Collected, A!SnapshotWindows
  <2> HIDE DEF s, items, t
  <2>2. DOMAIN A!StatusOutcome(s, items) = OutcomeFields
        /\ A!StatusOutcome(s, items).status = s.status
    BY <1>1, MarkMissingKeeps
  <2>3. o.status = s.status
    BY <2>1, <2>2, MarkEmptyKeeps
  <2> QED BY <1>1, <1>2, <1>4, <2>3
<1>5. CASE c = "healthchecks_status"
  <2>1. o = A!MarkEmpty(s)
    BY <1>5 DEF A!Collected, A!SnapshotWindows
  <2> HIDE DEF s, items, t
  <2>2. o.status = s.status
    BY <1>1, <2>1, MarkEmptyKeeps
  <2> QED BY <1>1, <1>2, <1>5, <2>2
<1>6. CASE c = "gatus_window"
  <2> DEFINE w == A!WindowOutcome(s, items)
             m == A!MarkTruncated(w, FALSE, a.local)
  <2>1. o = A!MarkEmpty(m)
    BY <1>6 DEF A!Collected, A!SnapshotWindows
  <2> HIDE DEF s, items, t
  <2>2. DOMAIN w = OutcomeFields /\ w.status = s.status
    BY <1>1, MarkMissingKeeps
  <2> HIDE DEF w
  <2>3. /\ DOMAIN m = OutcomeFields /\ m.status = s.status
        /\ m.localTruncated = a.local /\ (m.complete => ~ a.local)
    BY <2>2, MarkCutKeeps
  <2> HIDE DEF m
  <2>4. /\ o.status = m.status /\ o.localTruncated = m.localTruncated
        /\ o.complete = m.complete
    BY <2>1, <2>3, MarkEmptyKeeps
  <2> QED BY <1>1, <1>2, <1>6, <2>3, <2>4
<1>7. CASE c \in {"docker_window", "healthchecks_window"}
  <2> DEFINE m == A!MarkSnapshotHistory(s, past)
  <2>1. o = A!MarkEmpty(m)
    BY <1>7 DEF A!Collected, A!SnapshotWindows
  <2> HIDE DEF s, items, t
  <2>2. DOMAIN m = OutcomeFields /\ m.status = s.status
    BY <1>1, MarkHistoryKeeps
  <2> HIDE DEF m
  <2>3. o.status = s.status
    BY <2>1, <2>2, MarkEmptyKeeps
  <2> QED BY <1>1, <1>2, <1>7, <2>3
<1>8. CASE c = "loki"
  <2> DEFINE w == A!MarkTruncated(s, FALSE, a.local)
             m == A!MarkDiscarded(w, a.discarded)
  <2>1. o = A!MarkEmpty(m)
    BY <1>8 DEF A!Collected, A!SnapshotWindows
  <2> HIDE DEF s, items, t
  <2>2. /\ DOMAIN w = OutcomeFields /\ w.status = s.status
        /\ w.localTruncated = a.local /\ (w.complete => ~ a.local)
    BY <1>1, MarkCutKeeps
  <2> HIDE DEF w
  <2>3. /\ DOMAIN m = OutcomeFields /\ m.status = w.status
        /\ m.localTruncated = w.localTruncated
        /\ (m.complete => w.complete /\ a.discarded <= 0)
    BY <2>2, MarkDiscardedKeeps
  <2> HIDE DEF m
  <2>4. /\ o.status = m.status /\ o.localTruncated = m.localTruncated
        /\ o.complete = m.complete
    BY <2>1, <2>3, MarkEmptyKeeps
  <2> QED BY <1>1, <1>2, <1>8, <2>2, <2>3, <2>4
<1>9. CASE c = "ntfy"
  <2> DEFINE m == A!MarkTruncated(s, a.upstream, a.local)
  <2>1. o = A!MarkEmpty(m)
    BY <1>9 DEF A!Collected, A!SnapshotWindows
  <2> HIDE DEF s, items, t
  <2>2. /\ DOMAIN m = OutcomeFields /\ m.status = s.status
        /\ m.localTruncated = a.local
        /\ (m.complete => ~ a.upstream /\ ~ a.local)
    BY <1>1, MarkTruncatedKeeps
  <2> HIDE DEF m
  <2>3. /\ o.status = m.status /\ o.localTruncated = m.localTruncated
        /\ o.complete = m.complete
    BY <2>1, <2>2, MarkEmptyKeeps
  <2> QED BY <1>1, <1>2, <1>9, <2>2, <2>3
<1> QED BY <1>4, <1>5, <1>6, <1>7, <1>8, <1>9 DEF OneRequest

----------------------------------------------------------------------------
(* The adapters of one request: what is kept of what was asked for         *)

(* Of the records asked for the answer a has all, or it is cut, has as     *)
(* many as it may, and none of those it has not is newer than one it has.  *)
KeepsOf(a, limit, asked) ==
    /\ a.local => Len(a.items) = limit
    /\ \A x \in asked :
          \/ x.id \in A!Records(a.items)
          \/ a.local /\ \A k \in DOMAIN a.items : x.time <= a.items[k].time

(* The items stand for what was asked for.                                 *)
Cover(items, n, asked) ==
    /\ \A k \in 1..n : Placed(items[k])
    /\ \A x \in asked : \E k \in 1..n : /\ items[k].record = x.id
                                        /\ items[k].time = x.time

(* The answer has the items that are kept.                                 *)
ShownAs(a, kept) ==
    /\ a.local = kept.cut
    /\ DOMAIN a.items = DOMAIN kept.items /\ Len(a.items) = Len(kept.items)
    /\ \A k \in DOMAIN a.items : /\ a.items[k].record = kept.items[k].record
                                 /\ a.items[k].time = kept.items[k].time

LEMMA KeepsAsked ==
    ASSUME NEW n \in Nat, NEW items, DOMAIN items = 1..n, Len(items) = n,
           NEW limit \in Nat \ {0}, NEW asked, Cover(items, n, asked),
           NEW a, ShownAs(a, A!KeepNewest(items, limit))
    PROVE  KeepsOf(a, limit, asked)
<1> DEFINE kept == A!KeepNewest(items, limit)
<1>0. /\ a.local = kept.cut
      /\ DOMAIN a.items = DOMAIN kept.items /\ Len(a.items) = Len(kept.items)
      /\ \A k \in DOMAIN a.items : /\ a.items[k].record = kept.items[k].record
                                   /\ a.items[k].time = kept.items[k].time
  BY DEF ShownAs
<1>1. Kept(items, n, limit, kept)
  BY KeptIs DEF Cover
<1> HIDE DEF kept
<1>2. a.local => Len(a.items) = limit
  BY <1>0, <1>1 DEF Kept
<1>3. ASSUME NEW x \in asked
      PROVE  \/ x.id \in A!Records(a.items)
             \/ a.local /\ \A k \in DOMAIN a.items : x.time <= a.items[k].time
  <2>1. PICK k \in 1..n : items[k].record = x.id /\ items[k].time = x.time
    BY DEF Cover
  <2>2. CASE \E i \in DOMAIN kept.items : kept.items[i] = items[k]
    <3>1. PICK i \in DOMAIN kept.items : kept.items[i] = items[k]
      BY <2>2
    <3>2. a.items[i].record = x.id /\ i \in DOMAIN a.items
      BY <1>0, <2>1, <3>1
    <3> QED BY <3>2 DEF A!Records
  <2>3. CASE /\ kept.cut
             /\ \A i \in DOMAIN kept.items : items[k].time <= kept.items[i].time
    BY <1>0, <2>1, <2>3
  <2> QED BY <1>1, <2>2, <2>3 DEF Kept
<1> QED BY <1>2, <1>3 DEF KeepsOf

LEMMA RangeIs ==
    ASSUME NEW S, NEW list \in Seq(S)
    PROVE  /\ Len(list) \in Nat /\ DOMAIN list = 1..Len(list)
           /\ A!Range(list) = {list[k] : k \in 1..Len(list)}
           /\ \A k \in 1..Len(list) : list[k] \in S
BY DEF A!Range

(* Filtering a list.                                                       *)
LEMMA FilterIs ==
    ASSUME NEW S, NEW list \in Seq(S), NEW ks \in SUBSET DOMAIN list
    PROVE  HasElements(A!Chosen(list, ks), list, ks)
<1>1. Len(list) \in Nat /\ ks \in SUBSET (1..Len(list))
  BY RangeIs
<1> QED BY <1>1, ChosenIs, SameArranged

EndpointSet ==
    [id : Nat, match : {"key", "alias", "none"},
     results : Seq([id : Nat, time : Nat])]

LEMMA FoundIs ==
    ASSUME A!AdaptersAssumption, NEW list \in GatusReplies,
           Len(A!FindEndpoint(list)) = 1
    PROVE  /\ A!FindEndpoint(list)[1] \in EndpointSet
           /\ \E k \in DOMAIN list : A!FindEndpoint(list)[1] = list[k]
<1>1. list \in Seq(EndpointSet)
  BY DEF A!AdaptersAssumption, A!RowsAssumption, EndpointSet
<1>2. ASSUME NEW how, Len(A!Matching(list, how)) = 1
      PROVE  \E k \in DOMAIN list : A!Matching(list, how)[1] = list[k]
  <2> DEFINE ks == {k \in DOMAIN list : list[k].match = how}
             m == A!Matching(list, how)
  <2>1. HasElements(m, list, ks)
    BY <1>1, FilterIs DEF A!Matching
  <2>2. ks \subseteq DOMAIN list
    OBVIOUS
  <2> HIDE DEF ks, m
  <2>3. 1 \in DOMAIN m
    BY <1>2, <2>1 DEF HasElements, m
  <2>4. \E k \in ks : m[1] = list[k]
    BY <2>1, <2>3 DEF HasElements
  <2> QED BY <2>2, <2>4 DEF m
<1>3. \/ A!FindEndpoint(list) = A!Matching(list, "key")
      \/ A!FindEndpoint(list) = A!Matching(list, "alias")
  BY DEF A!FindEndpoint
<1>4. \E k \in DOMAIN list : A!FindEndpoint(list)[1] = list[k]
  BY <1>2, <1>3
<1> HIDE DEF EndpointSet
<1> QED BY <1>1, <1>4, RangeIs

(* A result in the window.                                                 *)
Dates(r, results) ==
    {x \in A!Range(results) : x.time > 0 /\ A!Within(r, x.time)}

LEMMA ResultsKept ==
    ASSUME NEW r, Requested(r), NEW ep \in EndpointSet,
           NEW a, a = A!ResultsInWindow(r, ep)
    PROVE  KeepsOf(a, r.limit, Dates(r, ep.results))
<1> DEFINE list == ep.results
           ks == {k \in A!Dated(list) : A!Within(r, list[k].time)}
           in == A!Chosen(list, ks)
           n == Cardinality(ks)
           items == [k \in DOMAIN in |-> A!Item(in[k].id, in[k].time, ep.id, k, 0)]
           kept == A!KeepNewest(items, r.limit)
           last == [k \in DOMAIN kept.items |->
                      [kept.items[k] EXCEPT !.order = 0, !.serial = r.serial + k]]
<1>1. /\ list \in Seq([id : Nat, time : Nat]) /\ ep.id \in Nat
      /\ r.limit \in Nat \ {0}
  BY DEF EndpointSet, Requested
<1>2. ks \in SUBSET DOMAIN list
  BY DEF A!Dated
<1>3. a = [A!Answered(last) EXCEPT !.local = kept.cut]
  BY Zenon DEF A!ResultsInWindow
<1>4. a.items = last /\ a.local = kept.cut
  BY <1>3 DEF A!Answered, A!NoAnswer
<1>5. ASSUME NEW k \in ks PROVE list[k].id \in Nat /\ list[k].time \in Nat
  <2>1. list[k] \in [id : Nat, time : Nat]
    <3> HIDE DEF ks, list
    <3> QED BY <1>1, <1>2, RangeIs
  <2> QED BY <2>1
<1>6. ASSUME NEW x \in Dates(r, list) PROVE \E k \in ks : x = list[k]
  <2>1. PICK k \in DOMAIN list : x = list[k]
    BY <1>1, RangeIs DEF Dates
  <2>2. k \in ks
    BY <2>1 DEF Dates, A!Dated
  <2> QED BY <2>1, <2>2
<1> HIDE DEF ks
<1>7. HasElements(in, list, ks)
  BY <1>1, <1>2, FilterIs
<1> HIDE DEF in, list
<1>8. n \in Nat /\ DOMAIN in = 1..n
  BY <1>7 DEF HasElements
<1> HIDE DEF n
<1>9. ASSUME NEW k \in 1..n
      PROVE  /\ items[k].record = in[k].id /\ items[k].time = in[k].time
             /\ Placed(items[k])
  <2>1. PICK j \in ks : in[k] = list[j]
    BY <1>7, <1>8 DEF HasElements
  <2>2. in[k].id \in Nat /\ in[k].time \in Nat
    BY <1>5, <2>1
  <2>3. items[k] = A!Item(in[k].id, in[k].time, ep.id, k, 0)
    BY <1>8
  <2> HIDE DEF items
  <2> QED BY <1>1, <2>2, <2>3 DEF A!Item, Placed
<1>10. DOMAIN items = 1..n /\ items = [k \in 1..n |-> items[k]]
  BY <1>8
<1> HIDE DEF items
<1>11. Len(items) = n
  BY <1>8, <1>10, LengthIs
<1>12. Kept(items, n, r.limit, kept)
  BY <1>1, <1>8, <1>9, <1>10, <1>11, KeptIs
<1>13. PICK m \in Nat : DOMAIN kept.items = 1..m /\ Len(kept.items) = m
  BY <1>1, <1>8, <1>12 DEF Kept
<1>14. ASSUME NEW k \in DOMAIN kept.items
       PROVE  /\ last[k].record = kept.items[k].record
              /\ last[k].time = kept.items[k].time
  <2>1. PICK j \in 1..n : kept.items[k] = items[j]
    BY <1>12 DEF Kept
  <2>2. PICK id, time, order : kept.items[k] = A!Item(id, time, ep.id, order, 0)
    BY <1>8, <2>1 DEF items
  <2>3. last[k] = [kept.items[k] EXCEPT !.order = 0, !.serial = r.serial + k]
    OBVIOUS
  <2> HIDE DEF last, kept
  <2> QED BY <2>2, <2>3 DEF A!Item
<1>15. DOMAIN last = 1..m /\ last = [k \in 1..m |-> last[k]]
  BY <1>13
<1> HIDE DEF last, kept
<1>16. Len(last) = m
  BY <1>15, LengthIs
<1>17. ASSUME NEW x \in Dates(r, list)
       PROVE  \E k \in 1..n : items[k].record = x.id /\ items[k].time = x.time
  <2>1. PICK j \in ks : x = list[j]
    BY <1>6, <1>17
  <2>2. PICK k \in 1..n : in[k] = list[j]
    BY <1>7, <1>8 DEF HasElements
  <2> QED BY <1>9, <2>1, <2>2
<1>18. KeepsOf(a, r.limit, Dates(r, list))
  <2>1. ShownAs(a, kept)
    BY <1>4, <1>13, <1>14, <1>15, <1>16 DEF ShownAs
  <2>2. Cover(items, n, Dates(r, list))
    BY <1>9, <1>17 DEF Cover
  <2> QED BY <1>1, <1>8, <1>10, <1>11, <2>1, <2>2, KeepsAsked DEF kept
<1> QED BY <1>18 DEF list

MessageSet == [id : Nat, mid : Nat, time : Nat, message : BOOLEAN]

LEMMA EarlierLinear ==
    ASSUME NEW messages \in Seq(MessageSet), NEW ks \in SUBSET DOMAIN messages
    PROVE  Linear(ks, A!EarlierFirst(messages))
<1> DEFINE t(k) == messages[k].time
           d(k) == messages[k].mid
<1>1. ASSUME NEW k \in ks PROVE t(k) \in Int /\ d(k) \in Int /\ k \in Int
  <2>1. messages[k] \in MessageSet /\ k \in 1..Len(messages) /\ Len(messages) \in Nat
    BY RangeIs
  <2> QED BY <2>1 DEF MessageSet
<1>2. ASSUME NEW j \in ks, NEW k \in ks
      PROVE  <<j, k>> \in A!EarlierFirst(messages) <=>
                \/ t(j) < t(k)
                \/ t(j) = t(k) /\ d(j) < d(k)
                \/ t(j) = t(k) /\ d(j) = d(k) /\ j < k
  BY DEF A!EarlierFirst
<1> HIDE DEF t, d
<1>3. ASSUME NEW k \in ks PROVE <<k, k>> \notin A!EarlierFirst(messages)
  BY <1>1, <1>2
<1>4. ASSUME NEW j \in ks, NEW k \in ks, j # k
      PROVE  \/ <<j, k>> \in A!EarlierFirst(messages)
             \/ <<k, j>> \in A!EarlierFirst(messages)
  BY <1>1, <1>2, <1>4
<1>5. ASSUME NEW i \in ks, NEW j \in ks, NEW k \in ks,
             <<i, j>> \in A!EarlierFirst(messages),
             <<j, k>> \in A!EarlierFirst(messages)
      PROVE  <<i, k>> \in A!EarlierFirst(messages)
  <2>1. /\ t(i) \in Int /\ d(i) \in Int /\ i \in Int
        /\ t(j) \in Int /\ d(j) \in Int /\ j \in Int
        /\ t(k) \in Int /\ d(k) \in Int /\ k \in Int
    BY <1>1
  <2>2. \/ t(i) < t(j)
        \/ t(i) = t(j) /\ d(i) < d(j)
        \/ t(i) = t(j) /\ d(i) = d(j) /\ i < j
    BY <1>2, <1>5
  <2>3. \/ t(j) < t(k)
        \/ t(j) = t(k) /\ d(j) < d(k)
        \/ t(j) = t(k) /\ d(j) = d(k) /\ j < k
    BY <1>2, <1>5
  <2>4. \/ t(i) < t(k)
        \/ t(i) = t(k) /\ d(i) < d(k)
        \/ t(i) = t(k) /\ d(i) = d(k) /\ i < k
    BY <2>1, <2>2, <2>3
  <2> QED BY <1>2, <2>4
<1> QED BY <1>3, <1>4, <1>5 DEF Linear

(* The messages that are shown, as items in the order of the sort.         *)
MessageItems(r, in) ==
    [k \in DOMAIN in |->
        A!Item(in[k].id, A!MessageTime(r, in[k]), in[k].mid, 0, r.serial + k)]

DatedMessages(r, held) ==
    {m \in A!Range(held.messages) : m.message /\ m.time > 0 /\ A!Within(r, m.time)}

LEMMA MessagesKept ==
    ASSUME A!AdaptersAssumption, NEW r, Requested(r), NEW held \in NtfyReplies,
           NEW a, a = A!HistoryDetail(r, held)
    PROVE  /\ KeepsOf(a, r.limit, DatedMessages(r, held))
           /\ a.upstream = held.truncated
<1> DEFINE list == held.messages
           ks == A!Shown(r, list)
           in == A!Arranged(list, ks, A!EarlierFirst(list))
           n == Cardinality(ks)
           items == MessageItems(r, in)
           kept == A!KeepNewest(items, r.limit)
<1>1. list \in Seq(MessageSet) /\ r.limit \in Nat \ {0} /\ r.serial \in Nat
      /\ r.snapshotAt \in Nat
  BY DEF A!AdaptersAssumption, A!RowsAssumption, MessageSet, Requested
<1>2. ks \in SUBSET DOMAIN list
  BY DEF A!Shown
<1>3. a = [A!Answered(kept.items) EXCEPT !.upstream = held.truncated,
                                         !.local = kept.cut]
  BY Zenon DEF A!HistoryDetail, MessageItems
<1>4. a.items = kept.items /\ a.local = kept.cut /\ a.upstream = held.truncated
  BY <1>3 DEF A!Answered, A!NoAnswer
<1>5. ASSUME NEW k \in ks
      PROVE  /\ list[k].id \in Nat /\ list[k].mid \in Nat
             /\ A!MessageTime(r, list[k]) \in Nat
  <2>1. list[k] \in MessageSet
    BY <1>1, <1>2, RangeIs
  <2> QED BY <1>1, <2>1 DEF MessageSet, A!MessageTime
<1>6. ASSUME NEW x \in DatedMessages(r, held)
      PROVE  \E k \in ks : x = list[k] /\ A!MessageTime(r, x) = x.time
  <2>1. PICK k \in DOMAIN list : x = list[k]
    BY <1>1, RangeIs DEF DatedMessages
  <2>2. k \in ks
    BY <2>1 DEF DatedMessages, A!Shown, A!MessageInWindow
  <2>3. A!MessageTime(r, x) = x.time
    BY DEF DatedMessages, A!MessageTime
  <2> QED BY <2>1, <2>2, <2>3
<1>7. HasElements(in, list, ks)
  <2> HIDE DEF ks, list
  <2>1. IsFiniteSet(DOMAIN list)
    <3>1. DOMAIN list = 1..Len(list) /\ Len(list) \in Nat
      BY <1>1, RangeIs
    <3> QED BY <3>1, FS_Interval
  <2>2. IsFiniteSet(ks)
    BY <1>2, <2>1, FS_Subset
  <2>3. Linear(ks, A!EarlierFirst(list))
    BY <1>1, <1>2, EarlierLinear
  <2> QED BY <2>2, <2>3, ArrangedIs, SameArranged
<1> HIDE DEF in, list, ks
<1>8. n \in Nat /\ DOMAIN in = 1..n
  BY <1>7 DEF HasElements
<1> HIDE DEF n
<1>9. ASSUME NEW k \in 1..n
      PROVE  /\ items[k].record = in[k].id
             /\ items[k].time = A!MessageTime(r, in[k])
             /\ Placed(items[k])
  <2>1. PICK j \in ks : in[k] = list[j]
    BY <1>7, <1>8 DEF HasElements
  <2>2. /\ in[k].id \in Nat /\ in[k].mid \in Nat
        /\ A!MessageTime(r, in[k]) \in Nat
    BY <1>5, <2>1
  <2>3. items[k] = A!Item(in[k].id, A!MessageTime(r, in[k]), in[k].mid, 0,
                          r.serial + k)
    BY <1>8 DEF MessageItems
  <2> HIDE DEF items
  <2> QED BY <1>1, <2>2, <2>3 DEF A!Item, Placed
<1>10. DOMAIN items = 1..n /\ items = [k \in 1..n |-> items[k]]
  BY <1>8 DEF MessageItems
<1> HIDE DEF items
<1>11. Len(items) = n
  BY <1>8, <1>10, LengthIs
<1>12. ASSUME NEW x \in DatedMessages(r, held)
       PROVE  \E k \in 1..n : items[k].record = x.id /\ items[k].time = x.time
  <2>1. PICK j \in ks : x = list[j] /\ A!MessageTime(r, x) = x.time
    BY <1>6, <1>12
  <2>2. PICK k \in 1..n : in[k] = list[j]
    BY <1>7, <1>8 DEF HasElements
  <2> QED BY <1>9, <2>1, <2>2
<1>13. KeepsOf(a, r.limit, DatedMessages(r, held))
  <2>1. ShownAs(a, kept)
    BY <1>4 DEF ShownAs
  <2>2. Cover(items, n, DatedMessages(r, held))
    BY <1>9, <1>12 DEF Cover
  <2> QED BY <1>1, <1>8, <1>10, <1>11, <2>1, <2>2, KeepsAsked
<1> QED BY <1>4, <1>13

----------------------------------------------------------------------------
(* The adapters of one request: the lines that Loki sends                  *)

LineSet == [id : Nat, stream : Nat, time : Nat, usable : BOOLEAN]
LokiSet == [lines : Seq(LineSet), streams : Seq([name : Nat, labels : Nat]),
            honours : BOOLEAN]

(* What is assumed of what Loki holds.                                     *)
LokiHolds(held) ==
    /\ held \in LokiSet
    /\ \A j, k \in DOMAIN held.lines :
          j < k => held.lines[k].time <= held.lines[j].time
    /\ \A k \in DOMAIN held.lines :
          /\ A!Place(held, k) \in DOMAIN held.streams
          /\ held.streams[A!Place(held, k)].name = held.lines[k].stream

LEMMA LokiIs ==
    ASSUME A!AdaptersAssumption, NEW held \in LokiSources
    PROVE  LokiHolds(held)
<1>1. held \in LokiSet
  BY DEF A!AdaptersAssumption, A!RowsAssumption, LokiSet, LineSet
<1>2. /\ \A j, k \in DOMAIN held.lines :
            j < k => held.lines[k].time <= held.lines[j].time
      /\ \A k \in DOMAIN held.lines : \E p \in DOMAIN held.streams :
            held.streams[p].name = held.lines[k].stream
  BY DEF A!AdaptersAssumption, A!RowsAssumption
<1> QED BY <1>1, <1>2 DEF LokiHolds, A!Place

LEMMA StreamsLinear ==
    ASSUME NEW held, LokiHolds(held), NEW ks \in SUBSET DOMAIN held.lines
    PROVE  Linear(ks, A!StreamByStream(held))
<1> DEFINE p(k) == A!Place(held, k)
<1>1. ASSUME NEW k \in ks PROVE p(k) \in Int /\ k \in Int
  <2>1. /\ held.lines \in Seq(LineSet)
        /\ held.streams \in Seq([name : Nat, labels : Nat])
    BY DEF LokiHolds, LokiSet
  <2>2. DOMAIN held.lines = 1..Len(held.lines)
        /\ DOMAIN held.streams = 1..Len(held.streams)
    BY <2>1, RangeIs
  <2> QED BY <2>2 DEF LokiHolds
<1>2. ASSUME NEW j \in ks, NEW k \in ks
      PROVE  <<j, k>> \in A!StreamByStream(held) <=>
                p(j) < p(k) \/ (p(j) = p(k) /\ j < k)
  BY DEF A!StreamByStream
<1> HIDE DEF p
<1> QED BY <1>1, <1>2 DEF Linear

LEMMA SentAreLines ==
    ASSUME NEW held, LokiHolds(held), NEW r, Requested(r)
    PROVE  /\ A!Sent(r, held) \in SUBSET DOMAIN held.lines
           /\ IsFiniteSet(A!Sent(r, held))
           /\ IsFiniteSet(DOMAIN held.lines) /\ DOMAIN held.lines \in SUBSET Nat
<1> DEFINE asked == {k \in DOMAIN held.lines : A!Within(r, held.lines[k].time)}
           newest == A!Ranked(asked, A!ByPosition(asked))
<1>1. DOMAIN held.lines = 1..Len(held.lines) /\ Len(held.lines) \in Nat
  <2>1. held.lines \in Seq(LineSet)
    BY DEF LokiHolds, LokiSet
  <2> QED BY <2>1, RangeIs
<1>2. IsFiniteSet(DOMAIN held.lines) /\ DOMAIN held.lines \in SUBSET Nat
  BY <1>1, FS_Interval
<1>3. A!Sent(r, held) =
         IF held.honours
         THEN {newest[i] : i \in {i \in DOMAIN newest : i <= A!AskedLines(r.limit)}}
         ELSE DOMAIN held.lines
  BY Zenon DEF A!Sent
<1>4. A!Sent(r, held) \in SUBSET DOMAIN held.lines
  <2>1. asked \in SUBSET Nat /\ asked \subseteq DOMAIN held.lines
    BY <1>2
  <2> HIDE DEF asked
  <2>2. IsFiniteSet(asked)
    BY <1>2, <2>1, FS_Subset
  <2>3. Lists(newest, Cardinality(asked), asked, ByPosition(asked))
    BY <2>1, <2>2, ByPositionLinear, RankedLists, SameRanked
       DEF A!ByPosition, ByPosition
  <2> HIDE DEF newest
  <2>4. \A i \in DOMAIN newest : newest[i] \in DOMAIN held.lines
    BY <2>1, <2>3 DEF Lists
  <2>5. {newest[i] : i \in {i \in DOMAIN newest : i <= A!AskedLines(r.limit)}}
           \subseteq DOMAIN held.lines
    BY <2>4
  <2> QED BY <1>3, <2>5
<1> QED BY <1>2, <1>4, FS_Subset

(* If a line of the window is not sent, as many lines as were asked for    *)
(* are, all of the window and newer.                                       *)
LEMMA NotSent ==
    ASSUME NEW held, LokiHolds(held), NEW r, Requested(r),
           NEW b \in DOMAIN held.lines, A!Within(r, held.lines[b].time),
           b \notin A!Sent(r, held)
    PROVE  /\ \A a \in A!Sent(r, held) :
                 a < b /\ A!Within(r, held.lines[a].time)
           /\ Cardinality(A!Sent(r, held)) = r.limit + 1
<1> DEFINE asked == {k \in DOMAIN held.lines : A!Within(r, held.lines[k].time)}
           newest == A!Ranked(asked, A!ByPosition(asked))
           n == Cardinality(asked)
           m == r.limit + 1
<1>1. IsFiniteSet(DOMAIN held.lines) /\ DOMAIN held.lines \in SUBSET Nat
  BY SentAreLines
<1>2. asked \in SUBSET Nat /\ b \in asked
  BY <1>1
<1>3. \A a \in asked : A!Within(r, held.lines[a].time)
  OBVIOUS
<1>4. A!Sent(r, held) =
         IF held.honours
         THEN {newest[i] : i \in {i \in DOMAIN newest : i <= A!AskedLines(r.limit)}}
         ELSE DOMAIN held.lines
  BY Zenon DEF A!Sent
<1>5. IsFiniteSet(asked)
  <2>1. asked \subseteq DOMAIN held.lines
    OBVIOUS
  <2> HIDE DEF asked
  <2> QED BY <1>1, <2>1, FS_Subset
<1> HIDE DEF asked
<1>6. Lists(newest, n, asked, ByPosition(asked))
  BY <1>2, <1>5, ByPositionLinear, RankedLists, SameRanked
     DEF A!ByPosition, ByPosition
<1> HIDE DEF newest, n
<1>7. n \in Nat /\ newest \in [1..n -> asked] /\ m \in Nat
  BY <1>6 DEF Lists, Requested
<1>8. A!Sent(r, held) = {newest[i] : i \in {i \in 1..n : i <= m}}
  BY <1>4, <1>7 DEF A!AskedLines
<1>9. PICK i \in 1..n : newest[i] = b
  BY <1>2, <1>6 DEF Lists
<1>10. ~ (i <= m)
  BY <1>8, <1>9
<1>11. m < n /\ {j \in 1..n : j <= m} = 1..m
  <2>1. m < n
    BY <1>7, <1>10
  <2> QED BY <1>7, <2>1
<1>12. A!Sent(r, held) = {newest[j] : j \in 1..m}
  BY <1>8, <1>11
<1>13. ASSUME NEW a \in A!Sent(r, held)
       PROVE  a < b /\ A!Within(r, held.lines[a].time)
  <2>1. PICK j \in 1..m : newest[j] = a
    BY <1>12
  <2>2. j \in 1..n /\ j < i
    BY <1>7, <1>10, <1>11
  <2>3. <<a, b>> \in ByPosition(asked)
    BY <1>6, <1>9, <2>1, <2>2 DEF Lists
  <2>4. a < b /\ a \in asked
    BY <1>7, <2>1, <2>2, <2>3 DEF ByPosition
  <2> QED BY <1>3, <2>4
<1>14. Cardinality(A!Sent(r, held)) = m
  <2> DEFINE f == [j \in 1..m |-> newest[j]]
             S == A!Sent(r, held)
  <2>1. f \in [1..m -> S] /\ \A s \in S : \E j \in 1..m : f[j] = s
    BY <1>12
  <2>2. ASSUME NEW j \in 1..m, NEW k \in 1..m, f[j] = f[k] PROVE j = k
    <3>1. j \in 1..n /\ k \in 1..n /\ newest[j] = newest[k]
      BY <1>7, <1>11, <2>2
    <3> QED BY <1>6, <3>1, ListedApart
  <2> HIDE DEF f, S
  <2>3. f \in Bijection(1..m, S)
    BY <2>1, <2>2 DEF Bijection, Injection, Surjection, IsInjective
  <2>4. IsFiniteSet(1..m) /\ Cardinality(1..m) = m
    <3> HIDE DEF m
    <3> QED BY <1>7, FS_Interval
  <2> HIDE DEF m
  <2>5. ExistsBijection(1..m, S)
    BY <2>3 DEF ExistsBijection
  <2>6. Cardinality(S) = m
    BY <2>4, <2>5, FS_Bijection
  <2> QED BY <2>6 DEF S
<1> QED BY <1>13, <1>14

WindowLines(r, held) ==
    {l \in A!Range(held.lines) : A!Within(r, l.time)}

LogLines(r, held, in) == [i \in DOMAIN in |-> A!LogLine(r, held, in[i], i - 1)]

(* The usable lines that were sent, as items in the order they arrived.    *)
LEMMA LogLinesAre ==
    ASSUME NEW held, LokiHolds(held), NEW r, Requested(r),
           NEW in, in = A!Ranked(A!Usable(r, held), A!StreamByStream(held)),
           NEW n, n = Cardinality(A!Usable(r, held)),
           NEW items, items = LogLines(r, held, in)
    PROVE  /\ Lists(in, n, A!Usable(r, held), A!StreamByStream(held))
           /\ n \in Nat /\ DOMAIN items = 1..n /\ Len(items) = n
           /\ \A i \in 1..n :
                 /\ in[i] \in A!Usable(r, held) /\ Placed(items[i])
                 /\ items[i].record = held.lines[in[i]].id
                 /\ items[i].time = held.lines[in[i]].time
                 /\ items[i].sourceID = held.streams[A!Place(held, in[i])].labels
                 /\ items[i].order = i - 1
<1> DEFINE ks == A!Usable(r, held)
<1>1. ks \in SUBSET A!Sent(r, held)
  BY DEF A!Usable
<1>2. ks \in SUBSET DOMAIN held.lines /\ IsFiniteSet(ks)
  <2>1. A!Sent(r, held) \in SUBSET DOMAIN held.lines /\ IsFiniteSet(A!Sent(r, held))
    BY SentAreLines
  <2> HIDE DEF ks
  <2> QED BY <1>1, <2>1, FS_Subset
<1> HIDE DEF ks
<1>3. Lists(in, n, ks, A!StreamByStream(held))
  <2>1. Linear(ks, A!StreamByStream(held))
    BY <1>2, StreamsLinear
  <2>2. in = Ranked(ks, A!StreamByStream(held))
    BY SameRanked DEF ks
  <2> QED BY <1>2, <2>1, <2>2, RankedLists DEF ks
<1>4. n \in Nat /\ in \in [1..n -> ks]
  BY <1>3 DEF Lists
<1>5. items = [i \in 1..n |-> A!LogLine(r, held, in[i], i - 1)]
  BY <1>4 DEF LogLines
<1>6. DOMAIN items = 1..n /\ Len(items) = n
  <2>1. items = [i \in 1..n |-> items[i]]
    BY <1>5
  <2> QED BY <1>4, <2>1, LengthIs
<1>7. ASSUME NEW i \in 1..n
      PROVE  /\ in[i] \in ks /\ Placed(items[i])
             /\ items[i].record = held.lines[in[i]].id
             /\ items[i].time = held.lines[in[i]].time
             /\ items[i].sourceID = held.streams[A!Place(held, in[i])].labels
             /\ items[i].order = i - 1
  <2> DEFINE k == in[i]
             line == held.lines[k]
             stream == held.streams[A!Place(held, k)]
  <2>1. k \in ks
    BY <1>4
  <2>2. line \in LineSet
    <3>1. held.lines \in Seq(LineSet)
      BY DEF LokiHolds, LokiSet
    <3>2. k \in DOMAIN held.lines
      BY <1>2, <2>1
    <3> HIDE DEF k
    <3> QED BY <3>1, <3>2, RangeIs
  <2>3. stream \in [name : Nat, labels : Nat]
    <3>1. held.streams \in Seq([name : Nat, labels : Nat])
      BY DEF LokiHolds, LokiSet
    <3>2. A!Place(held, k) \in DOMAIN held.streams
      BY <1>2, <2>1 DEF LokiHolds
    <3> QED BY <3>1, <3>2, RangeIs
  <2>4. items[i] = A!LogLine(r, held, k, i - 1)
    BY <1>5
  <2>5. items[i] = A!Item(line.id, line.time, stream.labels, i - 1, r.serial + (i - 1) + 1)
    BY <2>4 DEF A!LogLine
  <2>6. /\ line.id \in Nat /\ line.time \in Nat /\ stream.labels \in Nat
        /\ i - 1 \in Nat /\ r.serial + (i - 1) + 1 \in Nat
    BY <1>4, <2>2, <2>3 DEF LineSet, Requested
  <2> HIDE DEF line, stream, k
  <2>7. /\ Placed(items[i]) /\ items[i].record = line.id /\ items[i].time = line.time
        /\ items[i].sourceID = stream.labels /\ items[i].order = i - 1
    BY <2>5, <2>6 DEF A!Item, Placed
  <2> QED BY <2>1, <2>7 DEF line, stream, k
<1> QED BY <1>3, <1>4, <1>6, <1>7 DEF ks

(* What the answer says of the lines in the window: it is cut to the limit *)
(* or has room; no usable line that it lacks is newer than one it has; and *)
(* if it is not cut and discarded none, it has every line.                 *)
LEMMA LinesKept ==
    ASSUME NEW held, LokiHolds(held), NEW r, Requested(r),
           NEW a, a = A!LokiOf(r, held)
    PROVE  /\ a.local => Len(a.items) = r.limit
           /\ \A x \in WindowLines(r, held), k \in DOMAIN a.items :
                 \/ x.id \in A!Records(a.items)
                 \/ ~ x.usable
                 \/ x.time <= a.items[k].time
           /\ a.discarded <= 0 /\ ~ a.local =>
                 \A x \in WindowLines(r, held) : x.id \in A!Records(a.items)
<1> DEFINE sent == A!Sent(r, held)
           ks == A!Usable(r, held)
           lost == {k \in sent : ~ held.lines[k].usable}
           n == Cardinality(ks)
           in == A!Ranked(ks, A!StreamByStream(held))
           items == LogLines(r, held, in)
           kept == A!KeepNewest(items, r.limit)
<1>1. a = [A!Answered(kept.items) EXCEPT !.local = kept.cut,
                                         !.discarded = A!Cardinality(lost)]
  BY Zenon DEF A!LokiOf, LogLines
<1>2. A!Cardinality(lost) = Cardinality(lost)
  BY Zenon DEF A!Cardinality, Cardinality
<1>3. a.items = kept.items /\ a.local = kept.cut /\ a.discarded = Cardinality(lost)
  <2> HIDE DEF kept, lost
  <2> QED BY <1>1, <1>2 DEF A!Answered, A!NoAnswer
<1>4. r.limit \in Nat \ {0}
  BY DEF Requested
<1>5. /\ Lists(in, n, ks, A!StreamByStream(held))
      /\ n \in Nat /\ DOMAIN items = 1..n /\ Len(items) = n
      /\ \A i \in 1..n :
            /\ in[i] \in ks /\ Placed(items[i])
            /\ items[i].record = held.lines[in[i]].id
            /\ items[i].time = held.lines[in[i]].time
  BY LogLinesAre
<1>6. /\ sent \in SUBSET DOMAIN held.lines /\ IsFiniteSet(sent)
      /\ DOMAIN held.lines \in SUBSET Nat
  BY SentAreLines
<1>7. ks = {k \in sent : held.lines[k].usable /\ A!Within(r, held.lines[k].time)}
  BY DEF A!Usable
<1>8. lost \subseteq sent /\ \A k \in sent : k \notin lost => held.lines[k].usable
  OBVIOUS
<1>9. ASSUME NEW x \in WindowLines(r, held)
      PROVE  \E k \in DOMAIN held.lines : x = held.lines[k] /\ A!Within(r, x.time)
  <2>1. held.lines \in Seq(LineSet)
    BY DEF LokiHolds, LokiSet
  <2> QED BY <2>1, RangeIs DEF WindowLines
<1>10. ASSUME NEW k \in DOMAIN held.lines PROVE held.lines[k].time \in Nat
  <2>1. held.lines \in Seq(LineSet)
    BY DEF LokiHolds, LokiSet
  <2>2. held.lines[k] \in LineSet
    BY <2>1, RangeIs
  <2> QED BY <2>2 DEF LineSet
<1> HIDE DEF ks, lost, sent, in, n, items
<1>11. Kept(items, n, r.limit, kept)
  BY <1>4, <1>5, KeptIs
<1> HIDE DEF kept
<1>12. ASSUME NEW k \in ks
       PROVE  \/ held.lines[k].id \in A!Records(a.items)
              \/ /\ a.local
                 /\ \A i \in DOMAIN a.items : held.lines[k].time <= a.items[i].time
  <2>1. PICK j \in 1..n : in[j] = k
    BY <1>5 DEF Lists
  <2>2. items[j].record = held.lines[k].id /\ items[j].time = held.lines[k].time
    BY <1>5, <2>1
  <2>3. CASE \E i \in DOMAIN kept.items : kept.items[i] = items[j]
    <3>1. PICK i \in DOMAIN kept.items : kept.items[i] = items[j]
      BY <2>3
    <3>2. i \in DOMAIN a.items /\ a.items[i].record = held.lines[k].id
      BY <1>3, <2>2, <3>1
    <3> QED BY <3>2 DEF A!Records
  <2>4. CASE /\ kept.cut
             /\ \A i \in DOMAIN kept.items : items[j].time <= kept.items[i].time
    BY <1>3, <2>2, <2>4
  <2> QED BY <1>11, <2>3, <2>4 DEF Kept
<1>13. ASSUME NEW i \in DOMAIN a.items
       PROVE  \E k \in ks : a.items[i].time = held.lines[k].time
  <2>1. PICK j \in 1..n : a.items[i] = items[j]
    BY <1>3, <1>11 DEF Kept
  <2> QED BY <1>5, <2>1
<1>14. a.local => Len(a.items) = r.limit
  BY <1>3, <1>11 DEF Kept
<1>15. ASSUME NEW x \in WindowLines(r, held), NEW i \in DOMAIN a.items
       PROVE  \/ x.id \in A!Records(a.items)
              \/ ~ x.usable
              \/ x.time <= a.items[i].time
  <2>1. PICK b \in DOMAIN held.lines : x = held.lines[b] /\ A!Within(r, x.time)
    BY <1>9
  <2>2. CASE b \in sent
    <3>1. x.usable => b \in ks
      BY <1>7, <2>1, <2>2
    <3> QED BY <1>12, <2>1, <3>1
  <2>3. CASE b \notin sent
    <3>1. PICK k \in ks : a.items[i].time = held.lines[k].time
      BY <1>13
    <3>2. k \in sent /\ k \in DOMAIN held.lines
      BY <1>6, <1>7
    <3>3. k < b
      BY <2>1, <2>3, <3>2, NotSent DEF sent
    <3>4. held.lines[b].time <= held.lines[k].time
      BY <3>2, <3>3 DEF LokiHolds
    <3> QED BY <2>1, <3>1, <3>4
  <2> QED BY <2>2, <2>3
<1>16. ASSUME a.discarded <= 0, ~ a.local, NEW x \in WindowLines(r, held)
       PROVE  x.id \in A!Records(a.items)
  <2>1. PICK b \in DOMAIN held.lines : x = held.lines[b] /\ A!Within(r, x.time)
    BY <1>9
  <2>2. \A k \in sent : held.lines[k].usable
    <3>1. IsFiniteSet(lost)
      BY <1>6, <1>8, FS_Subset
    <3>2. Cardinality(lost) \in Nat
      BY <3>1, FS_CardinalityType
    <3>3. Cardinality(lost) = 0
      BY <1>3, <1>16, <3>2
    <3>4. lost = {}
      BY <3>1, <3>3, FS_EmptySet
    <3> QED BY <1>8, <3>4
  <2>3. b \in sent
    <3>1. ASSUME b \notin sent PROVE FALSE
      <4>1. /\ \A k \in sent : A!Within(r, held.lines[k].time)
            /\ Cardinality(sent) = r.limit + 1
        BY <2>1, <3>1, NotSent DEF sent
      <4>2. ks = sent
        BY <1>7, <2>2, <4>1
      <4>3. n = r.limit + 1
        BY <4>1, <4>2 DEF n
      <4>4. kept.cut
        BY <1>4, <1>11, <4>3 DEF Kept
      <4> QED BY <1>3, <1>16, <4>4
    <3> QED BY <3>1
  <2>4. b \in ks
    BY <1>7, <2>1, <2>2, <2>3
  <2> QED BY <1>12, <1>16, <2>1, <2>4
<1> QED BY <1>14, <1>15, <1>16

----------------------------------------------------------------------------
(* The adapters of one request: complete outcomes and limits               *)

(* What an outcome that is ok says of the answer.                          *)
LEMMA OkIs ==
    ASSUME AdapterInv, A!Ok
    PROVE  /\ request.collector \in OneRequest /\ Requested(request)
           /\ HeldBy(request.collector, rows)
           /\ answer = A!AnswerTo(request, rows) /\ answer.err = "none"
           /\ request.collector \in {"gatus_window", "loki", "ntfy"} =>
                 /\ outcome.localTruncated = answer.local
                 /\ outcome.complete => ~ answer.local
           /\ request.collector = "loki" /\ outcome.complete =>
                 answer.discarded <= 0
           /\ request.collector = "ntfy" /\ outcome.complete =>
                 ~ answer.upstream
<1>1. /\ request.collector \in OneRequest /\ Requested(request)
      /\ outcome = A!Collected(request.collector, "live", "live", answer,
                               A!Past(request))
      /\ outcome.status = "ok"
  BY DEF AdapterInv, A!Ok
<1>2. /\ answer.err = "none"
      /\ request.collector \in {"gatus_window", "loki", "ntfy"} =>
            (outcome.localTruncated = answer.local
               /\ (outcome.complete => ~ answer.local))
      /\ request.collector = "loki" /\ outcome.complete => answer.discarded <= 0
      /\ request.collector = "ntfy" /\ outcome.complete => ~ answer.upstream
  BY <1>1, CollectedIs
<1>3. HeldBy(request.collector, rows) /\ answer = A!AnswerTo(request, rows)
  BY <1>2 DEF AdapterInv, A!Ok
<1> QED BY <1>1, <1>2, <1>3

LEMMA GatusWindowAnswer ==
    ASSUME A!AdaptersAssumption, NEW r, Requested(r), NEW list \in GatusReplies,
           NEW a, a = A!GatusWindowOf(r, list), a.err = "none"
    PROVE  /\ a.local => Len(a.items) = r.limit
           /\ Len(A!FindEndpoint(list)) = 1 =>
                 KeepsOf(a, r.limit, Dates(r, A!FindEndpoint(list)[1].results))
<1> DEFINE found == A!FindEndpoint(list)
<1>1. CASE Len(found) = 1
  <2>1. a = A!ResultsInWindow(r, found[1])
    BY <1>1 DEF A!GatusWindowOf
  <2>2. found[1] \in EndpointSet
    BY <1>1, FoundIs
  <2> HIDE DEF found
  <2>3. KeepsOf(a, r.limit, Dates(r, found[1].results))
    BY <2>1, <2>2, ResultsKept
  <2> QED BY <2>3 DEF KeepsOf, found
<1>2. CASE Len(found) = 0
  <2>1. a = A!Answered(IF A!SnapshotInWindow(r) THEN <<A!MissingItem(r)>> ELSE << >>)
    BY <1>2 DEF A!GatusWindowOf
  <2>2. a.local = FALSE
    BY <2>1 DEF A!Answered, A!NoAnswer
  <2> QED BY <1>2, <2>2
<1>3. CASE Len(found) \notin {0, 1}
  <2>1. a = A!Failed("upstream")
    BY <1>3 DEF A!GatusWindowOf
  <2> QED BY <2>1 DEF A!Failed, A!NoAnswer
<1> QED BY <1>1, <1>2, <1>3

(* A limit keeps the newest of what was asked for and drops nothing while  *)
(* there is room (KeepNewest in the ntfy and Loki adapters, the sort and   *)
(* cut in Gatus' EvidenceInWindow), for any rows and limit.                *)
THEOREM KeepsNewestCorrect ==
    ASSUME A!AdaptersAssumption PROVE A!Spec => []KeepsNewest
<1>1. AdapterInv => KeepsNewest
  <2> DEFINE c == request.collector
             asked == A!AskedFor(request, rows)
             Fine == /\ \A x \in asked, k \in DOMAIN answer.items :
                           \/ x.id \in A!Records(answer.items)
                           \/ c = "loki" /\ ~ x.usable
                           \/ x.time <= answer.items[k].time
                     /\ outcome.localTruncated => Len(answer.items) = request.limit
  <2> SUFFICES ASSUME AdapterInv, A!Ok, c \in {"gatus_window", "loki", "ntfy"}
               PROVE  Fine
    BY DEF KeepsNewest, A!KeepsNewest
  <2>1. /\ Requested(request) /\ HeldBy(c, rows)
        /\ answer = A!AnswerTo(request, rows) /\ answer.err = "none"
        /\ outcome.localTruncated = answer.local
    BY OkIs
  <2>2. ASSUME KeepsOf(answer, request.limit, asked) PROVE Fine
    BY <2>1, <2>2 DEF KeepsOf
  <2>3. CASE c = "gatus_window"
    <3> DEFINE found == A!FindEndpoint(rows)
    <3>1. rows \in GatusReplies /\ answer = A!GatusWindowOf(request, rows)
      BY <2>1, <2>3 DEF HeldBy, A!AnswerTo
    <3>2. /\ answer.local => Len(answer.items) = request.limit
          /\ Len(found) = 1 =>
                KeepsOf(answer, request.limit, Dates(request, found[1].results))
      BY <2>1, <3>1, GatusWindowAnswer
    <3>3. asked = IF Len(found) = 1 THEN Dates(request, found[1].results) ELSE {}
      BY <2>3 DEF A!AskedFor, Dates
    <3> HIDE DEF asked, found
    <3> QED BY <2>1, <2>2, <3>2, <3>3
  <2>4. CASE c = "loki"
    <3>1. rows \in LokiSources /\ answer = A!LokiOf(request, rows)
      BY <2>1, <2>4 DEF HeldBy, A!AnswerTo
    <3>2. asked = WindowLines(request, rows)
      BY <2>4 DEF A!AskedFor, WindowLines
    <3>3. LokiHolds(rows)
      BY <3>1, LokiIs
    <3>4. /\ answer.local => Len(answer.items) = request.limit
          /\ \A x \in WindowLines(request, rows), k \in DOMAIN answer.items :
                x.id \in A!Records(answer.items) \/ ~ x.usable
                   \/ x.time <= answer.items[k].time
      BY <2>1, <3>1, <3>3, LinesKept
    <3> HIDE DEF asked
    <3> QED BY <2>1, <2>4, <3>2, <3>4
  <2>5. CASE c = "ntfy"
    <3>1. rows \in NtfyReplies /\ answer = A!HistoryDetail(request, rows)
      BY <2>1, <2>5 DEF HeldBy, A!AnswerTo
    <3>2. asked = DatedMessages(request, rows)
      BY <2>5 DEF A!AskedFor, DatedMessages
    <3> QED BY <2>1, <2>2, <3>1, <3>2, MessagesKept
  <2> QED BY <2>3, <2>4, <2>5
<1> QED BY <1>1, AdapterAlways, PTL

(* The items have the record of everything that was asked for.             *)
HasAll(items, asked) == \A x \in asked : x.id \in A!Records(items)

LEMMA SnapshotIs ==
    ASSUME NEW r, NEW row, NEW k
    PROVE  /\ A!Snapshot(r, row, k).record = row.id
           /\ A!Snapshot(r, row, k).inWindow = A!SnapshotInWindow(r)
BY DEF A!Snapshot, A!Item

(* The newest result, if there is one that is newer than every other.      *)
StrictlyNewest(results) ==
    {x \in A!Range(results) : x.time > 0 /\
        \A y \in A!Range(results) \ {x} : y.time < x.time}

LEMMA LatestIs ==
    ASSUME NEW r, NEW ep \in EndpointSet, NEW x \in StrictlyNewest(ep.results)
    PROVE  A!LatestResult(r, ep).record = x.id
<1> DEFINE results == ep.results
           dated == A!Dated(results)
           latest == {k \in dated : \A j \in dated :
                                       results[j].time <= results[k].time}
           first == CHOOSE k \in latest : \A j \in latest : k <= j
<1>1. results \in Seq([id : Nat, time : Nat])
  BY DEF EndpointSet
<1>2. /\ Len(results) \in Nat /\ DOMAIN results = 1..Len(results)
      /\ A!Range(results) = {results[k] : k \in 1..Len(results)}
      /\ \A k \in 1..Len(results) : results[k] \in [id : Nat, time : Nat]
  BY <1>1, RangeIs
<1>3. /\ x \in A!Range(results) /\ x.time > 0
      /\ \A y \in A!Range(results) \ {x} : y.time < x.time
  BY DEF StrictlyNewest
<1>4. PICK i \in 1..Len(results) : x = results[i]
  BY <1>2, <1>3
<1>5. ASSUME NEW k \in 1..Len(results), results[k] # x
      PROVE  results[k].time < x.time
  <2>1. results[k] \in A!Range(results)
    BY <1>2
  <2> QED BY <1>3, <1>5, <2>1
<1>6. i \in dated /\ dated \subseteq 1..Len(results)
  BY <1>2, <1>3, <1>4 DEF A!Dated
<1>7. ASSUME NEW k \in 1..Len(results) PROVE results[k].time <= x.time
  <2>1. results[k].time \in Nat /\ x.time \in Nat
    BY <1>2, <1>4
  <2> HIDE DEF results
  <2>2. CASE results[k] = x
    BY <2>1, <2>2
  <2>3. CASE results[k] # x
    BY <1>5, <2>1, <2>3
  <2> QED BY <2>2, <2>3
<1>8. i \in latest /\ latest \in SUBSET Nat
  BY <1>4, <1>6, <1>7
<1>9. first \in latest
  <2> HIDE DEF latest
  <2>1. \E k \in latest : \A j \in latest : k <= j
    BY <1>8, Least
  <2> QED BY <2>1
<1>10. results[first] = x
  <2>1. /\ first \in 1..Len(results)
        /\ results[i].time <= results[first].time
    BY <1>6, <1>9
  <2>2. results[first].time \in Nat /\ x.time \in Nat
    BY <1>2, <1>4, <2>1
  <2> HIDE DEF first, results
  <2> QED BY <1>4, <1>5, <2>1, <2>2
<1>11. A!LatestResult(r, ep) =
          A!Item(results[first].id, results[first].time, ep.id, 0, r.serial)
  <2>1. results # << >> /\ dated # {}
    BY <1>2, <1>4, <1>6
  <2> QED BY <2>1 DEF A!LatestResult
<1> HIDE DEF first, results
<1> QED BY <1>10, <1>11 DEF A!Item

LEMMA GatusStatusAnswer ==
    ASSUME A!AdaptersAssumption, NEW r, NEW list \in GatusReplies,
           Len(A!FindEndpoint(list)) = 1,
           NEW a, a = A!GatusStatusOf(r, list)
    PROVE  HasAll(a.items, StrictlyNewest(A!FindEndpoint(list)[1].results))
<1> DEFINE ep == A!FindEndpoint(list)[1]
<1>1. a = A!Answered(<<A!LatestResult(r, ep)>>)
  BY DEF A!GatusStatusOf
<1>2. a.items = <<A!LatestResult(r, ep)>>
  BY <1>1 DEF A!Answered, A!NoAnswer
<1>3. ep \in EndpointSet
  BY FoundIs
<1> HIDE DEF ep
<1>4. ASSUME NEW x \in StrictlyNewest(ep.results) PROVE x.id \in A!Records(a.items)
  <2>1. A!LatestResult(r, ep).record = x.id
    BY <1>3, LatestIs
  <2>2. 1 \in DOMAIN a.items /\ a.items[1].record = x.id
    BY <1>2, <2>1
  <2> QED BY <2>2 DEF A!Records
<1> QED BY <1>4 DEF HasAll, ep

(* The container that has the configured name, if there is one.            *)
OneNamed(list) ==
    LET named == {c \in A!Range(list) : c.named}
    IN  IF A!Cardinality(named) = 1 THEN named ELSE {}

ContainerSet == [id : Nat, named : BOOLEAN]

LEMMA DockerAnswer ==
    ASSUME A!AdaptersAssumption, NEW r, NEW list \in DockerReplies,
           NEW x \in OneNamed(list)
    PROVE  A!DockerOf(r, list).items = <<A!Snapshot(r, x, 0)>>
<1> DEFINE named == {c \in A!Range(list) : c.named}
           ks == {k \in DOMAIN list : list[k].named}
           found == A!Chosen(list, ks)
<1>1. list \in Seq(ContainerSet)
  BY DEF A!AdaptersAssumption, A!RowsAssumption, ContainerSet
<1>2. /\ Len(list) \in Nat /\ DOMAIN list = 1..Len(list)
      /\ A!Range(list) = {list[k] : k \in 1..Len(list)}
  BY <1>1, RangeIs
<1>3. x \in named /\ Cardinality(named) = 1
  <2>1. A!Cardinality(named) = Cardinality(named)
    BY Zenon DEF A!Cardinality, Cardinality
  <2> HIDE DEF named
  <2>2. OneNamed(list) = IF Cardinality(named) = 1 THEN named ELSE {}
    BY <2>1 DEF OneNamed, named
  <2> QED BY <2>2
<1>4. IsFiniteSet(named)
  <2>1. IsFiniteSet(1..Len(list))
    BY <1>2, FS_Interval
  <2>2. list \in Surjection(1..Len(list), A!Range(list))
    <3>1. list \in [1..Len(list) -> ContainerSet]
      BY <1>1, <1>2
    <3>2. list \in [1..Len(list) -> A!Range(list)]
      BY <1>2, <3>1
    <3> QED BY <1>2, <3>2 DEF Surjection
  <2>3. IsFiniteSet(A!Range(list))
    BY <2>1, <2>2, FS_Surjection
  <2> QED BY <2>3, FS_Subset
<1>5. named = {x}
  <2> HIDE DEF named
  <2> QED BY <1>3, <1>4, FS_Singleton
<1>6. HasElements(found, list, ks)
  <2>1. ks \in SUBSET DOMAIN list
    OBVIOUS
  <2> HIDE DEF ks
  <2> QED BY <1>1, <2>1, FilterIs
<1>7. \A k \in ks : list[k] = x
  BY <1>2, <1>5
<1>8. PICK k \in 1..Len(list) : x = list[k]
  BY <1>2, <1>3
<1>9. k \in ks
  BY <1>2, <1>3, <1>8
<1> HIDE DEF ks
<1>10. PICK i \in DOMAIN found : found[i] = list[k]
  BY <1>6, <1>9 DEF HasElements
<1>11. 1 \in DOMAIN found /\ found # << >>
  <2>1. DOMAIN found = 1..Cardinality(ks) /\ Cardinality(ks) \in Nat
    BY <1>6 DEF HasElements
  <2> HIDE DEF found
  <2> QED BY <1>10, <2>1
<1>12. found[1] = x
  BY <1>6, <1>7, <1>11 DEF HasElements
<1>13. A!DockerOf(r, list) =
          A!Answered(<<IF found = << >> THEN A!MissingItem(r)
                       ELSE A!Snapshot(r, found[1], 0)>>)
  BY DEF A!DockerOf, ks
<1> HIDE DEF found
<1>14. A!DockerOf(r, list) = A!Answered(<<A!Snapshot(r, x, 0)>>)
  BY <1>11, <1>12, <1>13
<1> QED BY <1>14 DEF A!Answered, A!NoAnswer

(* The window collector takes the items in the window.                     *)
LEMMA TakenInWindow ==
    ASSUME NEW a, NEW item, a.items = <<item>>, item.inWindow = TRUE
    PROVE  HasElements(A!InWindow(a.items), a.items, {1})
<1>1. {k \in DOMAIN a.items : a.items[k].inWindow} = {1}
  OBVIOUS
<1>2. A!InWindow(a.items) = Chosen(a.items, {1})
  BY <1>1, SameArranged DEF A!InWindow
<1>3. 1 \in Nat /\ {1} \in SUBSET (1..1)
  OBVIOUS
<1> QED BY <1>2, <1>3, ChosenIs

CheckSet == [id : Nat, meets : SUBSET A!Criteria, state : A!States]

(* The checks that meet the filter.                                        *)
Meeting(checks, filter) == {c \in A!Range(checks) : A!Meets(c, filter)}

(* The sequence s has all of that.                                         *)
Contains(s, asked) ==
    /\ Len(s) \in Nat /\ DOMAIN s = 1..Len(s)
    /\ \A x \in asked : \E i \in DOMAIN s : s[i] = x

LEMMA SnapshotsHave ==
    ASSUME NEW r, NEW s, NEW asked, Contains(s, asked)
    PROVE  HasAll(A!SnapshotsOf(r, s).items, asked)
<1> DEFINE items == [k \in DOMAIN s |-> A!Snapshot(r, s[k], k)]
<1>1. A!SnapshotsOf(r, s).items = items
  BY DEF A!SnapshotsOf, A!Answered, A!NoAnswer
<1>2. ASSUME NEW x \in asked PROVE x.id \in A!Records(items)
  <2>1. PICK i \in DOMAIN s : s[i] = x
    BY DEF Contains
  <2>2. i \in DOMAIN items /\ items[i].record = x.id
    BY <2>1, SnapshotIs
  <2> HIDE DEF items
  <2> QED BY <2>2 DEF A!Records
<1> QED BY <1>1, <1>2 DEF HasAll

(* Filtering a sequence leaves what is asked for, if that passes.          *)
LEMMA FilterContains ==
    ASSUME NEW s, NEW asked, Contains(s, asked), NEW ks \in SUBSET DOMAIN s,
           NEW left, \A x \in left : x \in asked,
           \A i \in DOMAIN s : s[i] \in left => i \in ks
    PROVE  Contains(A!Chosen(s, ks), left)
<1> DEFINE c == A!Chosen(s, ks)
<1>1. HasElements(c, s, ks)
  BY ChosenIs, SameArranged DEF Contains
<1> HIDE DEF c
<1>2. Len(c) \in Nat /\ DOMAIN c = 1..Len(c)
  BY <1>1 DEF HasElements
<1>3. ASSUME NEW x \in left PROVE \E i \in DOMAIN c : c[i] = x
  <2>1. PICK k \in DOMAIN s : s[k] = x
    BY DEF Contains
  <2>2. k \in ks
    BY <2>1
  <2> QED BY <1>1, <2>1, <2>2 DEF HasElements
<1> QED BY <1>2, <1>3 DEF Contains, c

LEMMA ChecksContain ==
    ASSUME A!AdaptersAssumption, NEW held \in HealthchecksReplies, NEW filter
    PROVE  /\ Contains(held.checks, A!Range(held.checks))
           /\ A!Selects(filter) =>
                 Contains(A!FilterChecks(held.checks, filter),
                          Meeting(held.checks, filter))
<1> DEFINE checks == held.checks
           meeting == Meeting(checks, filter)
           ks == {k \in DOMAIN checks :
                     A!Selects(filter) /\ A!Meets(checks[k], filter)}
<1>1. checks \in Seq(CheckSet)
  BY DEF A!AdaptersAssumption, A!RowsAssumption, CheckSet
<1>2. Contains(checks, A!Range(checks))
  <2> HIDE DEF checks
  <2>1. /\ Len(checks) \in Nat /\ DOMAIN checks = 1..Len(checks)
        /\ A!Range(checks) = {checks[k] : k \in 1..Len(checks)}
    BY <1>1, RangeIs
  <2> QED BY <2>1 DEF Contains
<1>3. ASSUME A!Selects(filter) PROVE Contains(A!Chosen(checks, ks), meeting)
  <2>1. ks \in SUBSET DOMAIN checks
    OBVIOUS
  <2>2. \A x \in meeting : x \in A!Range(checks)
    BY DEF Meeting
  <2>3. \A i \in DOMAIN checks : checks[i] \in meeting => i \in ks
    BY <1>3 DEF Meeting
  <2> HIDE DEF ks, checks, meeting
  <2> QED BY <1>2, <2>1, <2>2, <2>3, FilterContains
<1>4. A!FilterChecks(checks, filter) = A!Chosen(checks, ks)
  BY DEF A!FilterChecks
<1> QED BY <1>2, <1>3, <1>4

LEMMA StatusAnswer ==
    ASSUME A!AdaptersAssumption, NEW r, NEW held \in HealthchecksReplies,
           A!Selects(held.filter),
           NEW a, a = A!HealthchecksStatusOf(r, held.checks, held.filter),
           a.err = "none"
    PROVE  HasAll(a.items, Meeting(held.checks, held.filter))
<1> DEFINE meeting == A!FilterChecks(held.checks, held.filter)
<1>1. a = A!Failed("no_match") \/ a = A!SnapshotsOf(r, meeting)
  BY DEF A!HealthchecksStatusOf
<1>2. a # A!Failed("no_match")
  BY DEF A!Failed, A!NoAnswer
<1> QED BY <1>1, <1>2, ChecksContain, SnapshotsHave

(* For a window the checks that fail are found, whatever their status and  *)
(* the status of the binding, because the filter of the history has none.  *)
LEMMA FailuresAnswer ==
    ASSUME A!AdaptersAssumption, NEW r, NEW held \in HealthchecksReplies,
           A!SnapshotInWindow(r),
           NEW a,
           a = A!FailedInWindow(r, held.checks, A!HistoryFilter(held.filter)),
           a.err = "none"
    PROVE  HasAll(a.items, {c \in A!Range(held.checks) :
                              held.filter.criteria \subseteq c.meets
                                 /\ A!Failing(c)})
<1> DEFINE filter == A!HistoryFilter(held.filter)
           meeting == IF A!Selects(filter) THEN A!FilterChecks(held.checks, filter)
                      ELSE held.checks
           ks == {k \in DOMAIN meeting : A!Failing(meeting[k])}
           left == {c \in A!Range(held.checks) :
                       held.filter.criteria \subseteq c.meets /\ A!Failing(c)}
<1>0. filter.criteria = held.filter.criteria /\ filter.status = ""
  <2>1. held.filter \in [criteria : SUBSET A!Criteria, status : A!States \cup {""}]
    BY DEF A!AdaptersAssumption, A!RowsAssumption
  <2> QED BY <2>1 DEF A!HistoryFilter
<1> HIDE DEF filter
<1>1. Contains(meeting, Meeting(held.checks, filter))
  <2>1. CASE ~ A!Selects(filter)
    <3>1. \A x \in Meeting(held.checks, filter) : x \in A!Range(held.checks)
      BY DEF Meeting
    <3> QED BY <2>1, <3>1, ChecksContain DEF Contains
  <2>2. CASE A!Selects(filter)
    BY <2>2, ChecksContain
  <2> QED BY <2>1, <2>2
<1>2. \/ a = A!Failed("no_match")
      \/ a = A!SnapshotsOf(r, A!Chosen(meeting, ks))
  BY DEF A!FailedInWindow, filter
<1>3. a # A!Failed("no_match")
  BY DEF A!Failed, A!NoAnswer
<1>4. Contains(A!Chosen(meeting, ks), left)
  <2>1. ks \in SUBSET DOMAIN meeting
    OBVIOUS
  <2>2. \A i \in DOMAIN meeting : meeting[i] \in left => i \in ks
    <3> HIDE DEF meeting
    <3> QED OBVIOUS
  <2>3. \A x \in left : x \in Meeting(held.checks, filter)
    BY <1>0 DEF Meeting, A!Meets
  <2> HIDE DEF meeting, ks, left
  <2> QED BY <1>1, <2>1, <2>2, <2>3, FilterContains
<1> QED BY <1>2, <1>3, <1>4, SnapshotsHave

LEMMA KeepsAll ==
    ASSUME NEW a, NEW limit, NEW asked, KeepsOf(a, limit, asked), ~ a.local
    PROVE  HasAll(a.items, asked)
BY DEF KeepsOf, HasAll

(* What an adapter answers has every record that was asked for, unless it  *)
(* says that something is missing.                                         *)
LEMMA AnswerHasAll ==
    ASSUME A!AdaptersAssumption, NEW r, Requested(r), r.collector \in OneRequest,
           NEW held, HeldBy(r.collector, held),
           NEW a, a = A!AnswerTo(r, held), a.err = "none",
           r.collector \in {"gatus_window", "loki", "ntfy"} => ~ a.local,
           r.collector = "loki" => a.discarded <= 0
    PROVE  HasAll(A!Taken(r.collector, a).items, A!AskedFor(r, held))
<1> DEFINE c == r.collector
           asked == A!AskedFor(r, held)
<1>1. c # "docker_window" => A!Taken(c, a) = a
  BY DEF A!Taken, OneRequest
<1>2. CASE c = "gatus_window"
  <2>1. held \in GatusReplies /\ a = A!GatusWindowOf(r, held)
    BY <1>2 DEF HeldBy, A!AnswerTo
  <2>2. asked = IF Len(A!FindEndpoint(held)) = 1
                THEN Dates(r, A!FindEndpoint(held)[1].results) ELSE {}
    BY <1>2 DEF A!AskedFor, Dates
  <2> HIDE DEF asked
  <2>3. CASE Len(A!FindEndpoint(held)) = 1
    <3>1. KeepsOf(a, r.limit, asked)
      BY <2>1, <2>2, <2>3, GatusWindowAnswer
    <3>2. HasAll(a.items, asked)
      BY <1>2, <3>1, KeepsAll
    <3> QED BY <1>1, <1>2, <3>2 DEF asked
  <2>4. CASE Len(A!FindEndpoint(held)) # 1
    BY <2>2, <2>4 DEF HasAll, asked
  <2> QED BY <2>3, <2>4 DEF asked
<1>3. CASE c = "gatus_status"
  <2>1. held \in GatusReplies /\ a = A!GatusStatusOf(r, held)
    BY <1>3 DEF HeldBy, A!AnswerTo
  <2>2. asked = IF Len(A!FindEndpoint(held)) = 1
                THEN StrictlyNewest(A!FindEndpoint(held)[1].results) ELSE {}
    BY <1>3 DEF A!AskedFor, StrictlyNewest
  <2> HIDE DEF asked
  <2>3. CASE Len(A!FindEndpoint(held)) = 1
    BY <1>1, <1>3, <2>1, <2>2, <2>3, GatusStatusAnswer DEF asked
  <2>4. CASE Len(A!FindEndpoint(held)) # 1
    BY <2>2, <2>4 DEF HasAll, asked
  <2> QED BY <2>3, <2>4
<1>4. CASE c \in {"docker_status", "docker_window"}
  <2>1. held \in DockerReplies /\ a = A!DockerOf(r, held)
    BY <1>4 DEF HeldBy, A!AnswerTo
  <2>2. asked = IF c = "docker_status" \/ A!SnapshotInWindow(r)
                THEN OneNamed(held) ELSE {}
    BY <1>4 DEF A!AskedFor, OneNamed
  <2> HIDE DEF asked
  <2>3. ASSUME NEW x \in asked
        PROVE  x.id \in A!Records(A!Taken(c, a).items)
    <3>1. x \in OneNamed(held) /\ (c = "docker_status" \/ A!SnapshotInWindow(r))
      BY <2>2, <2>3
    <3> DEFINE item == A!Snapshot(r, x, 0)
    <3>2. /\ a.items = <<item>> /\ item.record = x.id
          /\ item.inWindow = A!SnapshotInWindow(r)
      BY <2>1, <3>1, DockerAnswer, SnapshotIs
    <3> HIDE DEF item
    <3>3. CASE c = "docker_status"
      <4>1. A!Taken(c, a).items = <<item>>
        BY <1>1, <3>2, <3>3
      <4>2. 1 \in DOMAIN <<item>> /\ <<item>>[1].record = x.id
        BY <3>2
      <4> QED BY <4>1, <4>2 DEF A!Records
    <3>4. CASE c = "docker_window"
      <4> DEFINE taken == A!InWindow(a.items)
      <4>1. A!Taken(c, a).items = taken
        <5>1. A!Taken(c, a) = [a EXCEPT !.items = A!InWindow(@)]
          BY <3>4 DEF A!Taken, A!FilterCurrentSnapshots
        <5>2. a = A!Answered(<<IF A!Chosen(held, {k \in DOMAIN held : held[k].named})
                                    = << >>
                               THEN A!MissingItem(r)
                               ELSE A!Snapshot(r, A!Chosen(held,
                                       {k \in DOMAIN held : held[k].named})[1], 0)>>)
          BY <2>1 DEF A!DockerOf
        <5>3. "items" \in DOMAIN a
          BY <5>2 DEF A!Answered, A!NoAnswer
        <5> QED BY <5>1, <5>3
      <4>2. A!SnapshotInWindow(r) = TRUE
        BY <3>1, <3>4 DEF A!SnapshotInWindow
      <4>3. HasElements(taken, a.items, {1})
        <5>1. item.inWindow = TRUE
          BY <3>2, <4>2
        <5> QED BY <3>2, <5>1, TakenInWindow
      <4> HIDE DEF taken
      <4>4. PICK i \in DOMAIN taken : taken[i] = a.items[1]
        BY <4>3 DEF HasElements
      <4>5. taken[i].record = x.id
        BY <3>2, <4>4
      <4> QED BY <4>1, <4>5 DEF A!Records
    <3> QED BY <1>4, <3>3, <3>4
  <2> QED BY <2>3 DEF HasAll, asked
<1>5. CASE c = "loki"
  <2>1. held \in LokiSources /\ a = A!LokiOf(r, held)
    BY <1>5 DEF HeldBy, A!AnswerTo
  <2>2. asked = WindowLines(r, held)
    BY <1>5 DEF A!AskedFor, WindowLines
  <2>3. \A x \in WindowLines(r, held) : x.id \in A!Records(a.items)
    BY <1>5, <2>1, LokiIs, LinesKept
  <2> QED BY <1>1, <1>5, <2>2, <2>3 DEF HasAll
<1>6. CASE c = "ntfy"
  <2>1. held \in NtfyReplies /\ a = A!HistoryDetail(r, held)
    BY <1>6 DEF HeldBy, A!AnswerTo
  <2>2. asked = DatedMessages(r, held)
    BY <1>6 DEF A!AskedFor, DatedMessages
  <2>3. HasAll(a.items, DatedMessages(r, held))
    BY <1>6, <2>1, MessagesKept, KeepsAll
  <2> QED BY <1>1, <1>6, <2>2, <2>3
<1>7. CASE c = "healthchecks_status"
  <2>1. /\ held \in HealthchecksReplies /\ A!Selects(held.filter)
        /\ a = A!HealthchecksStatusOf(r, held.checks, held.filter)
    BY <1>7 DEF HeldBy, A!AnswerTo
  <2>2. asked = Meeting(held.checks, held.filter)
    BY <1>7 DEF A!AskedFor, Meeting
  <2> HIDE DEF asked
  <2>3. HasAll(a.items, asked)
    BY <2>1, <2>2, StatusAnswer
  <2> QED BY <1>1, <1>7, <2>3 DEF asked
<1>8. CASE c = "healthchecks_window"
  <2>1. /\ held \in HealthchecksReplies
        /\ a = A!FailedInWindow(r, held.checks, A!HistoryFilter(held.filter))
    BY <1>8 DEF HeldBy, A!AnswerTo
  <2>2. CASE A!SnapshotInWindow(r)
    <3>1. asked = {x \in A!Range(held.checks) :
                      held.filter.criteria \subseteq x.meets /\ A!Failing(x)}
      BY <1>8, <2>2 DEF A!AskedFor
    <3> HIDE DEF asked
    <3>2. HasAll(a.items, asked)
      BY <2>1, <2>2, <3>1, FailuresAnswer
    <3> QED BY <1>1, <1>8, <3>2 DEF asked
  <2>3. CASE ~ A!SnapshotInWindow(r)
    <3>1. asked = {}
      BY <1>8, <2>3 DEF A!AskedFor
    <3> QED BY <3>1 DEF HasAll
  <2> QED BY <2>2, <2>3
<1> QED BY <1>2, <1>3, <1>4, <1>5, <1>6, <1>7, <1>8 DEF OneRequest

(* An outcome marked complete has every record that was asked for, and     *)
(* says so of no cut history (the mark functions of collectors.go with     *)
(* what the adapters count), for any rows, windows and limits.             *)
THEOREM CompleteIsEverythingCorrect ==
    ASSUME A!AdaptersAssumption PROVE A!Spec => []CompleteIsEverything
<1>1. AdapterInv => CompleteIsEverything
  <2> SUFFICES ASSUME AdapterInv, A!Ok, outcome.complete
               PROVE  /\ {x.id : x \in A!AskedFor(request, rows)}
                           \subseteq A!Records(A!ItemsOf(request.collector, answer))
                      /\ request.collector = "ntfy" => ~ rows.truncated
    BY DEF CompleteIsEverything, A!CompleteIsEverything
  <2>1. /\ request.collector \in OneRequest /\ Requested(request)
        /\ HeldBy(request.collector, rows)
        /\ answer = A!AnswerTo(request, rows) /\ answer.err = "none"
        /\ request.collector \in {"gatus_window", "loki", "ntfy"} => ~ answer.local
        /\ request.collector = "loki" => answer.discarded <= 0
        /\ request.collector = "ntfy" => ~ answer.upstream
    BY OkIs
  <2>2. A!ItemsOf(request.collector, answer) = A!Taken(request.collector, answer).items
    BY <2>1 DEF A!ItemsOf
  <2>3. HasAll(A!Taken(request.collector, answer).items, A!AskedFor(request, rows))
    BY <2>1, AnswerHasAll
  <2>4. request.collector = "ntfy" => ~ rows.truncated
    <3> SUFFICES ASSUME request.collector = "ntfy" PROVE ~ rows.truncated
      OBVIOUS
    <3>1. rows \in NtfyReplies /\ answer = A!HistoryDetail(request, rows)
      BY <2>1 DEF HeldBy, A!AnswerTo
    <3>2. answer.upstream = rows.truncated
      BY <2>1, <3>1, MessagesKept
    <3> QED BY <2>1, <3>2
  <2> QED BY <2>2, <2>3, <2>4 DEF HasAll
<1> QED BY <1>1, AdapterAlways, PTL

----------------------------------------------------------------------------
(* The adapters of one request: the order in which the source lists        *)

(* A list backwards.                                                       *)
LEMMA ReverseIs ==
    ASSUME NEW S, NEW list \in Seq(S)
    PROVE  /\ A!Reverse(list) \in Seq(S) /\ Len(A!Reverse(list)) = Len(list)
           /\ DOMAIN A!Reverse(list) = 1..Len(list)
           /\ \A k \in 1..Len(list) :
                 /\ A!Reverse(list)[k] = list[Len(list) + 1 - k]
                 /\ A!Reverse(list)[Len(list) + 1 - k] = list[k]
<1> DEFINE n == Len(list)
           b == A!Reverse(list)
<1>1. n \in Nat /\ \A k \in 1..n : list[k] \in S
  BY RangeIs
<1>2. b = [k \in 1..n |-> list[(n - k) + 1]]
  BY DEF A!Reverse
<1>3. \A k \in 1..n : (n - k) + 1 = n + 1 - k /\ n + 1 - k \in 1..n
                         /\ (n - (n + 1 - k)) + 1 = k
  BY <1>1
<1> HIDE DEF n, b
<1>4. b \in [1..n -> S]
  BY <1>1, <1>2, <1>3
<1>5. b \in Seq(S) /\ Len(b) = n /\ DOMAIN b = 1..n
  BY <1>1, <1>4, LengthIs
<1>6. \A k \in 1..n : b[k] = list[n + 1 - k] /\ b[n + 1 - k] = list[k]
  BY <1>2, <1>3
<1> QED BY <1>5, <1>6 DEF n, b

(* As many endpoints match, and if one does it is the same.                *)
LEMMA MatchingTurned ==
    ASSUME NEW list \in Seq(EndpointSet), NEW how
    PROVE  /\ Len(A!Matching(A!Reverse(list), how)) = Len(A!Matching(list, how))
           /\ Len(A!Matching(list, how)) \in Nat
           /\ A!Matching(list, how) = << >> <=> Len(A!Matching(list, how)) = 0
           /\ A!Matching(A!Reverse(list), how) = << >> <=>
                 Len(A!Matching(A!Reverse(list), how)) = 0
           /\ Len(A!Matching(list, how)) = 1 =>
                 A!Matching(A!Reverse(list), how)[1] = A!Matching(list, how)[1]
<1> DEFINE n == Len(list)
           back == A!Reverse(list)
           ks == {k \in DOMAIN list : list[k].match = how}
           ls == {k \in DOMAIN back : back[k].match = how}
           m == A!Matching(list, how)
           b == A!Matching(back, how)
<1>1. /\ back \in Seq(EndpointSet) /\ DOMAIN back = 1..n /\ DOMAIN list = 1..n
      /\ n \in Nat
      /\ \A k \in 1..n : back[k] = list[n + 1 - k]
  <2> HIDE DEF EndpointSet
  <2> QED BY ReverseIs, RangeIs
<1>2. ks \in SUBSET DOMAIN list /\ ls \in SUBSET DOMAIN back
  OBVIOUS
<1>3. ls = {k \in 1..n : n + 1 - k \in ks}
  <2>1. \A k \in 1..n : n + 1 - k \in 1..n
    BY <1>1
  <2> QED BY <1>1, <2>1
<1>4. HasElements(m, list, ks) /\ HasElements(b, back, ls)
  <2>1. m = A!Chosen(list, ks) /\ b = A!Chosen(back, ls)
    BY DEF A!Matching
  <2> HIDE DEF ks, ls, m, b, back
  <2> QED BY <1>1, <1>2, <2>1, FilterIs
<1> HIDE DEF ks, ls, m, b, back, n
<1>5. Cardinality(ls) = Cardinality(ks) /\ ls \in SUBSET (1..n)
      /\ \A k \in ls : n + 1 - k \in ks
  BY <1>1, <1>2, <1>3, TurnedPositions
<1>6. /\ Len(m) = Len(b) /\ Len(m) \in Nat
      /\ m = << >> <=> Len(m) = 0
  BY <1>4, <1>5 DEF HasElements
<1>7. b = << >> <=> Len(b) = 0
  BY <1>4 DEF HasElements
<1>8. ASSUME Len(m) = 1 PROVE b[1] = m[1]
  <2>1. 1 \in DOMAIN m /\ 1 \in DOMAIN b /\ DOMAIN m = {1}
    BY <1>4, <1>5, <1>8 DEF HasElements
  <2>2. PICK l \in ls : b[1] = back[l]
    BY <1>4, <2>1 DEF HasElements
  <2>3. n + 1 - l \in ks /\ back[l] = list[n + 1 - l]
    BY <1>1, <1>5
  <2>4. m[1] = list[n + 1 - l]
    BY <1>4, <2>1, <2>3 DEF HasElements
  <2> QED BY <2>2, <2>3, <2>4
<1> QED BY <1>6, <1>7, <1>8 DEF m, b, back

LEMMA FoundTurned ==
    ASSUME NEW list \in Seq(EndpointSet)
    PROVE  /\ Len(A!FindEndpoint(A!Reverse(list))) = Len(A!FindEndpoint(list))
           /\ Len(A!FindEndpoint(list)) = 1 =>
                 A!FindEndpoint(A!Reverse(list))[1] = A!FindEndpoint(list)[1]
<1>1. A!Matching(list, "key") = << >> <=> A!Matching(A!Reverse(list), "key") = << >>
  BY MatchingTurned
<1>2. CASE A!Matching(list, "key") = << >>
  <2>1. /\ A!FindEndpoint(list) = A!Matching(list, "alias")
        /\ A!FindEndpoint(A!Reverse(list)) = A!Matching(A!Reverse(list), "alias")
    BY <1>1, <1>2 DEF A!FindEndpoint
  <2> QED BY <2>1, MatchingTurned
<1>3. CASE A!Matching(list, "key") # << >>
  <2>1. /\ A!FindEndpoint(list) = A!Matching(list, "key")
        /\ A!FindEndpoint(A!Reverse(list)) = A!Matching(A!Reverse(list), "key")
    BY <1>1, <1>3 DEF A!FindEndpoint
  <2> QED BY <2>1, MatchingTurned
<1> QED BY <1>2, <1>3

LEMMA GatusTurned ==
    ASSUME NEW r, NEW list \in Seq(EndpointSet)
    PROVE  /\ A!GatusStatusOf(r, A!Reverse(list)) = A!GatusStatusOf(r, list)
           /\ A!GatusWindowOf(r, A!Reverse(list)) = A!GatusWindowOf(r, list)
<1>1. CASE Len(A!FindEndpoint(list)) = 0
  BY <1>1, FoundTurned DEF A!GatusStatusOf, A!GatusWindowOf
<1>2. CASE Len(A!FindEndpoint(list)) = 1
  BY <1>2, FoundTurned DEF A!GatusStatusOf, A!GatusWindowOf
<1>3. CASE Len(A!FindEndpoint(list)) \notin {0, 1}
  BY <1>3, FoundTurned DEF A!GatusStatusOf, A!GatusWindowOf
<1> QED BY <1>1, <1>2, <1>3

(* The messages come in the same order, if their ids tell them apart.      *)
LEMMA MessagesTurned ==
    ASSUME NEW r, NEW list \in Seq(MessageSet),
           \A j, k \in DOMAIN list : list[j].mid = list[k].mid => j = k
    PROVE  A!Arranged(A!Reverse(list), A!Shown(r, A!Reverse(list)),
                      A!EarlierFirst(A!Reverse(list)))
              = A!Arranged(list, A!Shown(r, list), A!EarlierFirst(list))
<1> DEFINE n == Len(list)
           back == A!Reverse(list)
           ks == A!Shown(r, list)
           ls == A!Shown(r, back)
           f == [k \in ks |-> n + 1 - k]
           N == Cardinality(ks)
           rank == Ranked(ks, A!EarlierFirst(list))
           turned == Ranked(ls, A!EarlierFirst(back))
<1>1. /\ back \in Seq(MessageSet) /\ DOMAIN back = 1..n /\ DOMAIN list = 1..n
      /\ n \in Nat
      /\ \A k \in 1..n : back[k] = list[n + 1 - k] /\ back[n + 1 - k] = list[k]
                         /\ list[k] \in MessageSet
  <2> HIDE DEF MessageSet
  <2> QED BY ReverseIs, RangeIs
<1>2. /\ ks \in SUBSET DOMAIN list /\ ls \in SUBSET DOMAIN back
      /\ ks = {k \in DOMAIN list : list[k].message /\ A!MessageInWindow(r, list[k])}
      /\ ls = {k \in DOMAIN back : back[k].message /\ A!MessageInWindow(r, back[k])}
  BY DEF A!Shown
<1>3. Linear(ks, A!EarlierFirst(list)) /\ Linear(ls, A!EarlierFirst(back))
  <2> HIDE DEF ks, ls, back
  <2> QED BY <1>1, <1>2, EarlierLinear
<1> HIDE DEF ks, ls, back, n
<1>4. ls = {k \in 1..n : n + 1 - k \in ks}
  <2>1. \A k \in 1..n : n + 1 - k \in 1..n
    BY <1>1
  <2> QED BY <1>1, <1>2, <2>1
<1>5. /\ f \in [ks -> ls] /\ \A k \in ls : n + 1 - k \in ks /\ n + 1 - (n + 1 - k) = k
      /\ ks \in SUBSET (1..n)
  BY <1>1, <1>2, <1>4, TurnedPositions
<1>6. ASSUME NEW j \in ks, NEW k \in ks
      PROVE  <<j, k>> \in A!EarlierFirst(list) <=>
                <<f[j], f[k]>> \in A!EarlierFirst(back)
  <2>1. /\ j \in DOMAIN list /\ k \in DOMAIN list
        /\ f[j] = n + 1 - j /\ f[k] = n + 1 - k
        /\ f[j] \in DOMAIN back /\ f[k] \in DOMAIN back
        /\ back[f[j]] = list[j] /\ back[f[k]] = list[k]
    BY <1>1, <1>2, <1>5
  <2>2. <<j, k>> \in A!EarlierFirst(list) <=>
           \/ list[j].time < list[k].time
           \/ list[j].time = list[k].time /\ list[j].mid < list[k].mid
           \/ list[j].time = list[k].time /\ list[j].mid = list[k].mid /\ j < k
    BY <2>1 DEF A!EarlierFirst
  <2> HIDE DEF f
  <2>3. <<f[j], f[k]>> \in A!EarlierFirst(back) <=>
           \/ list[j].time < list[k].time
           \/ list[j].time = list[k].time /\ list[j].mid < list[k].mid
           \/ list[j].time = list[k].time /\ list[j].mid = list[k].mid /\ f[j] < f[k]
    BY <2>1 DEF A!EarlierFirst
  <2>4. CASE j = k
    <3>1. ~ (j < k) /\ ~ (f[j] < f[k])
      BY <1>1, <2>1, <2>4
    <3> QED BY <2>2, <2>3, <3>1
  <2>5. CASE j # k
    <3>1. list[j].mid # list[k].mid
      BY <2>1, <2>5
    <3> QED BY <2>2, <2>3, <3>1
  <2> QED BY <2>4, <2>5
<1>7. f \in Surjection(ks, ls)
  <2>1. \A y \in ls : \E x \in ks : f[x] = y
    BY <1>5
  <2> HIDE DEF f
  <2> QED BY <1>5, <2>1 DEF Surjection
<1>8. IsFiniteSet(ks)
  <2>1. IsFiniteSet(1..n)
    BY <1>1, FS_Interval
  <2> QED BY <1>5, <2>1, FS_Subset
<1>9. turned = [i \in 1..N |-> f[rank[i]]]
  <2> HIDE DEF f
  <2> QED BY <1>3, <1>6, <1>7, <1>8, RankedMapped
<1>10. N \in Nat /\ rank \in [1..N -> ks]
  BY <1>3, <1>8, RankedLists DEF Lists
<1> HIDE DEF N, rank, turned
<1>11. Arranged(back, ls, A!EarlierFirst(back)) = [i \in 1..N |-> back[f[rank[i]]]]
  <2> HIDE DEF f
  <2>1. Arranged(back, ls, A!EarlierFirst(back)) = [i \in DOMAIN turned |-> back[turned[i]]]
    BY DEF Arranged, turned
  <2> QED BY <1>9, <2>1
<1>12. Arranged(list, ks, A!EarlierFirst(list)) = [i \in 1..N |-> list[rank[i]]]
  BY <1>10 DEF Arranged, rank
<1>13. ASSUME NEW i \in 1..N PROVE back[f[rank[i]]] = list[rank[i]]
  <2>1. rank[i] \in ks /\ rank[i] \in 1..n
    BY <1>5, <1>10
  <2>2. f[rank[i]] = n + 1 - rank[i]
    BY <2>1
  <2> QED BY <1>1, <2>1, <2>2
<1> HIDE DEF f
<1>14. Arranged(back, ls, A!EarlierFirst(back)) = Arranged(list, ks, A!EarlierFirst(list))
  BY <1>11, <1>12, <1>13
<1> QED BY <1>14, SameArranged DEF ks, ls, back

LEMMA HistoryTurned ==
    ASSUME A!AdaptersAssumption, NEW r, NEW held \in NtfyReplies,
           \A j, k \in DOMAIN held.messages :
              held.messages[j].mid = held.messages[k].mid => j = k
    PROVE  A!HistoryDetail(r, [held EXCEPT !.messages = A!Reverse(@)])
              = A!HistoryDetail(r, held)
<1> DEFINE turned == [held EXCEPT !.messages = A!Reverse(@)]
<1>1. held \in [messages : Seq(MessageSet), truncated : BOOLEAN]
  BY DEF A!AdaptersAssumption, A!RowsAssumption, MessageSet
<1>2. turned.messages = A!Reverse(held.messages) /\ turned.truncated = held.truncated
  BY <1>1
<1> HIDE DEF turned
<1>3. A!Arranged(turned.messages, A!Shown(r, turned.messages),
                 A!EarlierFirst(turned.messages))
         = A!Arranged(held.messages, A!Shown(r, held.messages),
                      A!EarlierFirst(held.messages))
  BY <1>1, <1>2, MessagesTurned
<1>4. A!HistoryDetail(r, turned) = A!HistoryDetail(r, held)
  BY <1>2, <1>3, Zenon DEF A!HistoryDetail
<1> QED BY <1>4 DEF turned

NamedApart(held) ==
    \A p, q \in DOMAIN held.streams :
        held.streams[p].name = held.streams[q].name => p = q

LabelledApart(held) ==
    \A p, q \in DOMAIN held.streams :
        held.streams[p].labels = held.streams[q].labels => p = q

LabelsOf(held, k) == held.streams[A!Place(held, k)].labels

(* The lines by time, by what their labels say, and as the source holds    *)
(* them.                                                                   *)
ByTimeAndLabels(held) ==
    {p \in (DOMAIN held.lines) \X (DOMAIN held.lines) :
        LET a == held.lines[p[1]].time  b == held.lines[p[2]].time
            u == LabelsOf(held, p[1])   v == LabelsOf(held, p[2])
        IN  a < b \/ (a = b /\ (u < v \/ (u = v /\ p[1] < p[2])))}

LEMMA ByTimeAndLabelsIs ==
    ASSUME NEW held, NEW j \in DOMAIN held.lines, NEW k \in DOMAIN held.lines
    PROVE  <<j, k>> \in ByTimeAndLabels(held) <=>
              \/ held.lines[j].time < held.lines[k].time
              \/ /\ held.lines[j].time = held.lines[k].time
                 /\ LabelsOf(held, j) < LabelsOf(held, k)
              \/ /\ held.lines[j].time = held.lines[k].time
                 /\ LabelsOf(held, j) = LabelsOf(held, k) /\ j < k
BY DEF ByTimeAndLabels

Turned(held) == [held EXCEPT !.streams = A!Reverse(@)]

LEMMA LokiTurned ==
    ASSUME NEW held, LokiHolds(held), NamedApart(held)
    PROVE  /\ Turned(held).lines = held.lines /\ Turned(held).honours = held.honours
           /\ \A k \in DOMAIN held.lines :
                 LabelsOf(Turned(held), k) = LabelsOf(held, k)
           /\ LokiHolds(Turned(held))
           /\ LabelledApart(held) => LabelledApart(Turned(held))
<1> DEFINE streams == held.streams
           back == A!Reverse(streams)
           turned == Turned(held)
           m == Len(streams)
           StreamSet == [name : Nat, labels : Nat]
<1>1. held \in LokiSet /\ streams \in Seq(StreamSet)
  BY DEF LokiHolds, LokiSet
<1>2. /\ m \in Nat /\ DOMAIN streams = 1..m
      /\ back \in Seq(StreamSet) /\ DOMAIN back = 1..m
      /\ \A p \in 1..m : back[p] = streams[m + 1 - p] /\ back[m + 1 - p] = streams[p]
  <2> HIDE DEF StreamSet
  <2> QED BY <1>1, RangeIs, ReverseIs
<1>3. /\ turned.lines = held.lines /\ turned.honours = held.honours
      /\ turned.streams = back /\ turned \in LokiSet
  BY <1>1, <1>2 DEF LokiSet, Turned
<1> HIDE DEF turned, back, m, StreamSet
<1>4. \A p \in 1..m : m + 1 - p \in 1..m /\ m + 1 - (m + 1 - p) = p
  BY <1>2
<1>5. ASSUME NEW k \in DOMAIN held.lines
      PROVE  /\ A!Place(turned, k) \in DOMAIN turned.streams
             /\ turned.streams[A!Place(turned, k)].name = turned.lines[k].stream
             /\ turned.streams[A!Place(turned, k)] = streams[A!Place(held, k)]
  <2> DEFINE p == A!Place(held, k)
             q == A!Place(turned, k)
  <2>1. p \in 1..m /\ streams[p].name = held.lines[k].stream
    BY <1>2 DEF LokiHolds
  <2> HIDE DEF p
  <2>2. m + 1 - p \in 1..m /\ back[m + 1 - p].name = held.lines[k].stream
    BY <1>2, <1>4, <2>1
  <2>3. q = CHOOSE x \in 1..m : back[x].name = held.lines[k].stream
    BY <1>2, <1>3 DEF A!Place
  <2> HIDE DEF q
  <2>4. q \in 1..m /\ back[q].name = held.lines[k].stream
    BY <2>2, <2>3
  <2>5. m + 1 - q \in 1..m /\ streams[m + 1 - q] = back[q]
    BY <1>2, <1>4, <2>4
  <2>6. m + 1 - q = p
    BY <1>2, <2>1, <2>4, <2>5 DEF NamedApart
  <2> QED BY <1>2, <1>3, <2>4, <2>5, <2>6 DEF p, q
<1>6. LokiHolds(turned)
  BY <1>3, <1>5 DEF LokiHolds
<1>7. \A k \in DOMAIN held.lines : LabelsOf(turned, k) = LabelsOf(held, k)
  BY <1>5 DEF LabelsOf
<1>8. ASSUME LabelledApart(held) PROVE LabelledApart(turned)
  <2>1. ASSUME NEW p \in 1..m, NEW q \in 1..m, back[p].labels = back[q].labels
        PROVE  p = q
    <3>1. /\ m + 1 - p \in 1..m /\ m + 1 - q \in 1..m
          /\ back[p] = streams[m + 1 - p] /\ back[q] = streams[m + 1 - q]
      BY <1>2, <1>4
    <3>2. m + 1 - p = m + 1 - q
      BY <1>2, <1>8, <2>1, <3>1 DEF LabelledApart
    <3> QED BY <1>2, <3>2
  <2> QED BY <1>2, <1>3, <2>1 DEF LabelledApart
<1> QED BY <1>3, <1>6, <1>7, <1>8 DEF turned

(* The lines in the order of the sort.                                     *)
SortedLines(r, held) ==
    LET in == A!Ranked(A!Usable(r, held), A!StreamByStream(held))
        t == Sorted(LogLines(r, held, in))
    IN  [i \in 1..Cardinality(A!Usable(r, held)) |-> in[t[i]]]

LEMMA SortedLinesAre ==
    ASSUME NEW held, LokiHolds(held), LabelledApart(held), NEW r, Requested(r)
    PROVE  Lists(SortedLines(r, held), Cardinality(A!Usable(r, held)),
                 A!Usable(r, held), ByTimeAndLabels(held))
<1> DEFINE ks == A!Usable(r, held)
           n == Cardinality(ks)
           in == A!Ranked(ks, A!StreamByStream(held))
           items == LogLines(r, held, in)
           t == Sorted(items)
<1>1. /\ Lists(in, n, ks, A!StreamByStream(held))
      /\ n \in Nat /\ DOMAIN items = 1..n
      /\ \A i \in 1..n :
            /\ in[i] \in ks /\ Placed(items[i])
            /\ items[i].time = held.lines[in[i]].time
            /\ items[i].sourceID = LabelsOf(held, in[i])
            /\ items[i].order = i - 1
  BY LogLinesAre DEF LabelsOf
<1>2. Lists(t, n, 1..n, A!StableOrder(items))
  <2> HIDE DEF items, n
  <2> QED BY <1>1, SortedLists
<1>3. ks \in SUBSET DOMAIN held.lines
  BY SentAreLines DEF A!Usable
<1> HIDE DEF ks, n, in, items, t
<1>4. ASSUME NEW i \in 1..n, NEW j \in 1..n
      PROVE  <<i, j>> \in A!StableOrder(items) <=>
                <<in[i], in[j]>> \in ByTimeAndLabels(held)
  <2> DEFINE a == items[i]
             b == items[j]
             x == in[i]
             y == in[j]
  <2>1. /\ x \in DOMAIN held.lines /\ y \in DOMAIN held.lines
        /\ a.time = held.lines[x].time /\ b.time = held.lines[y].time
        /\ a.sourceID = LabelsOf(held, x) /\ b.sourceID = LabelsOf(held, y)
        /\ a.order = i - 1 /\ b.order = j - 1
        /\ Placed(a) /\ Placed(b)
    BY <1>1, <1>3
  <2>2. <<i, j>> \in A!StableOrder(items) <=>
           A!Precedes(a, b) \/ (~ A!Precedes(b, a) /\ i < j)
    BY <1>1, StableOrderIs
  <2>3. /\ <<x, y>> \in A!StreamByStream(held) <=> i < j
    BY <1>1 DEF Lists
  <2>4. <<x, y>> \in ByTimeAndLabels(held) <=>
           \/ a.time < b.time
           \/ a.time = b.time /\ a.sourceID < b.sourceID
           \/ a.time = b.time /\ a.sourceID = b.sourceID /\ x < y
    BY <2>1, ByTimeAndLabelsIs
  <2> HIDE DEF a, b, x, y
  <2>5. A!Precedes(a, b) <=>
           \/ a.time < b.time
           \/ a.time = b.time /\ a.sourceID < b.sourceID
           \/ a.time = b.time /\ a.sourceID = b.sourceID /\ a.order < b.order
           \/ /\ a.time = b.time /\ a.sourceID = b.sourceID
              /\ a.order = b.order /\ A!IdKey(a.serial) < A!IdKey(b.serial)
    BY PrecedesIs
  <2>6. A!Precedes(b, a) <=>
           \/ b.time < a.time
           \/ b.time = a.time /\ b.sourceID < a.sourceID
           \/ b.time = a.time /\ b.sourceID = a.sourceID /\ b.order < a.order
           \/ /\ b.time = a.time /\ b.sourceID = a.sourceID
              /\ b.order = a.order /\ A!IdKey(b.serial) < A!IdKey(a.serial)
    BY PrecedesIs
  <2>7. /\ a.time \in Nat /\ b.time \in Nat /\ a.sourceID \in Nat
        /\ b.sourceID \in Nat /\ a.order = i - 1 /\ b.order = j - 1
    BY <2>1 DEF Placed
  <2>8. ASSUME a.time = b.time, a.sourceID = b.sourceID PROVE x < y <=> i < j
    <3>1. A!Place(held, x) = A!Place(held, y)
      BY <2>1, <2>8 DEF LabelledApart, LabelsOf, LokiHolds
    <3>2. /\ A!Place(held, x) \in DOMAIN held.streams
          /\ held.streams \in Seq([name : Nat, labels : Nat])
      BY <2>1 DEF LokiHolds, LokiSet
    <3>3. A!Place(held, x) \in Nat
      BY <3>2, RangeIs
    <3>4. <<x, y>> \in A!StreamByStream(held) <=> x < y
      BY <2>1, <3>1, <3>3 DEF A!StreamByStream
    <3> QED BY <2>3, <3>4
  <2>9. ASSUME a.time = b.time, a.sourceID = b.sourceID
        PROVE  <<i, j>> \in A!StableOrder(items) <=> <<x, y>> \in ByTimeAndLabels(held)
    <3>1. i = j => <<i, j>> \notin A!StableOrder(items)
      <4>1. n \in Nat /\ \A k \in 1..n : Placed(items[k])
        BY <1>1
      <4>2. Linear(1..n, A!StableOrder(items))
        BY <1>1, <4>1, StableLinear
      <4> QED BY <4>2 DEF Linear
    <3>2. i # j => (<<i, j>> \in A!StableOrder(items) <=> i < j)
      BY <2>2, <2>5, <2>6, <2>7, <2>9
    <3> QED BY <2>4, <2>7, <2>8, <2>9, <3>1, <3>2
  <2>10. ASSUME ~ (a.time = b.time /\ a.sourceID = b.sourceID)
         PROVE  <<i, j>> \in A!StableOrder(items) <=> <<x, y>> \in ByTimeAndLabels(held)
    BY <2>2, <2>4, <2>5, <2>6, <2>7, <2>10
  <2> QED BY <2>9, <2>10 DEF x, y
<1>5. Lists([i \in 1..n |-> in[t[i]]], n, ks, ByTimeAndLabels(held))
  BY <1>1, <1>2, <1>4, ListsCompose
<1>6. SortedLines(r, held) = [i \in 1..n |-> in[t[i]]]
  BY DEF SortedLines, ks, n, in, items, t
<1> QED BY <1>5, <1>6 DEF ks, n

(* What is told of the lines in the order ordered, n of them usable.       *)
LinesTold(held, limit, n, ordered, lost) ==
    <<"none", n > limit, lost,
      [i \in 1..(IF n > limit THEN limit ELSE n) |->
          held.lines[ordered[IF n > limit THEN n - limit + i ELSE i]].id]>>

Lost(r, held) ==
    Cardinality({k \in A!Sent(r, held) : ~ held.lines[k].usable})

LEMMA LokiTold ==
    ASSUME NEW held, LokiHolds(held), NEW r, Requested(r)
    PROVE  A!Told(A!LokiOf(r, held)) =
              LinesTold(held, r.limit, Cardinality(A!Usable(r, held)),
                        SortedLines(r, held), Lost(r, held))
<1> DEFINE ks == A!Usable(r, held)
           n == Cardinality(ks)
           in == A!Ranked(ks, A!StreamByStream(held))
           items == LogLines(r, held, in)
           t == Sorted(items)
           s == SortedLines(r, held)
           lost == A!Cardinality({k \in A!Sent(r, held) : ~ held.lines[k].usable})
           kept == A!KeepNewest(items, r.limit)
           a == A!LokiOf(r, held)
           max == r.limit
           m == IF n > max THEN max ELSE n
           from(i) == IF n > max THEN n - max + i ELSE i
<1>1. /\ n \in Nat /\ DOMAIN items = 1..n /\ Len(items) = n
      /\ \A i \in 1..n : /\ in[i] \in ks /\ Placed(items[i])
                         /\ items[i].record = held.lines[in[i]].id
  BY LogLinesAre
<1>2. Lists(t, n, 1..n, A!StableOrder(items)) /\ max \in Nat \ {0}
  <2> HIDE DEF items, n
  <2> QED BY <1>1, SortedLists DEF Requested
<1>3. a = [A!Answered(kept.items) EXCEPT !.local = kept.cut, !.discarded = lost]
  BY Zenon DEF A!LokiOf, LogLines
<1>4. /\ a.err = "none" /\ a.local = kept.cut /\ a.discarded = lost
      /\ a.items = kept.items
  BY <1>3 DEF A!Answered, A!NoAnswer
<1>5. s = [i \in 1..n |-> in[t[i]]]
  BY DEF SortedLines
<1>6. lost = Lost(r, held)
  BY Zenon DEF Lost, A!Cardinality, Cardinality
<1> HIDE DEF ks, n, in, items, t, s, lost, kept, a, max
<1>7. /\ n > max => kept = [items |-> [i \in 1..max |-> items[t[n - max + i]]],
                            cut |-> TRUE]
      /\ ~ (n > max) => kept = [items |-> [i \in 1..n |-> items[t[i]]], cut |-> FALSE]
  BY <1>1, <1>2, KeepNewestIs DEF t, kept, max
<1>8. /\ kept.items = [i \in 1..m |-> items[t[from(i)]]]
      /\ kept.cut = (n > max)
      /\ \A i \in 1..m : from(i) \in 1..n
  <2>1. CASE n > max
    <3>1. kept.items = [i \in 1..max |-> items[t[n - max + i]]] /\ kept.cut = TRUE
      BY <1>7, <2>1
    <3>2. m = max /\ \A i \in 1..m : from(i) = n - max + i /\ n - max + i \in 1..n
      BY <1>1, <1>2, <2>1
    <3>3. (n > max) = TRUE
      BY <2>1
    <3> HIDE DEF m, from
    <3> QED BY <3>1, <3>2, <3>3
  <2>2. CASE ~ (n > max)
    <3>1. kept.items = [i \in 1..n |-> items[t[i]]] /\ kept.cut = FALSE
      BY <1>7, <2>2
    <3>2. m = n /\ \A i \in 1..m : from(i) = i /\ i \in 1..n
      BY <2>2
    <3>3. (n > max) = FALSE
      BY <2>2
    <3> HIDE DEF m, from
    <3> QED BY <3>1, <3>2, <3>3
  <2> QED BY <2>1, <2>2
<1> HIDE DEF from, m
<1>9. ASSUME NEW i \in 1..m
      PROVE  items[t[from(i)]].record = held.lines[s[from(i)]].id
  <2>1. t[from(i)] \in 1..n
    BY <1>2, <1>8 DEF Lists
  <2> QED BY <1>1, <1>5, <1>8, <2>1
<1>10. [k \in DOMAIN kept.items |-> kept.items[k].record] =
          [i \in 1..m |-> held.lines[s[from(i)]].id]
  BY <1>8, <1>9
<1>11. A!Told(a) = <<"none", n > max, lost,
                     [i \in 1..m |-> held.lines[s[from(i)]].id]>>
  BY <1>4, <1>8, <1>10 DEF A!Told
<1>12. LinesTold(held, max, n, s, lost) =
          <<"none", n > max, lost, [i \in 1..m |-> held.lines[s[from(i)]].id]>>
  BY DEF LinesTold, m, from
<1> QED BY <1>6, <1>11, <1>12 DEF a, max, n, ks, s

LEMMA LinesTurned ==
    ASSUME NEW held, LokiHolds(held), NamedApart(held), LabelledApart(held),
           NEW r, Requested(r)
    PROVE  A!Told(A!LokiOf(r, Turned(held))) = A!Told(A!LokiOf(r, held))
<1> DEFINE turned == Turned(held)
           ks == A!Usable(r, held)
           n == Cardinality(ks)
<1>1. /\ turned.lines = held.lines /\ turned.honours = held.honours
      /\ \A k \in DOMAIN held.lines : LabelsOf(turned, k) = LabelsOf(held, k)
      /\ LokiHolds(turned) /\ LabelledApart(turned)
  BY LokiTurned
<1> HIDE DEF turned
<1>2. A!Sent(r, turned) = A!Sent(r, held)
  BY <1>1, Zenon DEF A!Sent
<1>3. A!Usable(r, turned) = ks /\ Lost(r, turned) = Lost(r, held)
  BY <1>1, <1>2, Zenon DEF A!Usable, Lost
<1>4. ByTimeAndLabels(turned) = ByTimeAndLabels(held)
  BY <1>1 DEF ByTimeAndLabels
<1>5. SortedLines(r, turned) = SortedLines(r, held)
  <2>1. /\ Lists(SortedLines(r, held), n, ks, ByTimeAndLabels(held))
        /\ Lists(SortedLines(r, turned), n, ks, ByTimeAndLabels(held))
    BY <1>1, <1>3, <1>4, SortedLinesAre
  <2> QED BY <2>1, ListedOnce
<1>6. /\ A!Told(A!LokiOf(r, turned)) =
            LinesTold(turned, r.limit, n, SortedLines(r, held), Lost(r, held))
      /\ A!Told(A!LokiOf(r, held)) =
            LinesTold(held, r.limit, n, SortedLines(r, held), Lost(r, held))
  BY <1>1, <1>3, <1>5, LokiTold
<1>7. LinesTold(turned, r.limit, n, SortedLines(r, held), Lost(r, held)) =
         LinesTold(held, r.limit, n, SortedLines(r, held), Lost(r, held))
  BY <1>1, Zenon DEF LinesTold
<1> QED BY <1>6, <1>7 DEF turned

(* The order in which a source lists its endpoints, streams or messages    *)
(* decides nothing of what is told (findEndpoint, the sorts by id of       *)
(* NewestWithLimit and of the ntfy adapter), for any rows.                 *)
THEOREM RowOrderIrrelevantCorrect ==
    ASSUME A!AdaptersAssumption PROVE A!Spec => []RowOrderIrrelevant
<1>1. AdapterInv => RowOrderIrrelevant
  <2> DEFINE c == request.collector
             Same == A!Told(A!AnswerTo(request, A!Turned(request, rows)))
                        = A!Told(answer)
  <2> SUFFICES ASSUME AdapterInv, apc = "done", rows # << >>,
                      A!Identified(request, rows)
               PROVE  Same
    BY DEF RowOrderIrrelevant, A!RowOrderIrrelevant
  <2>1. /\ c \in OneRequest /\ Requested(request) /\ HeldBy(c, rows)
        /\ answer = A!AnswerTo(request, rows)
    BY DEF AdapterInv
  <2>2. CASE c \in {"gatus_status", "gatus_window"}
    <3>1. rows \in Seq(EndpointSet)
      BY <2>1, <2>2
         DEF HeldBy, A!AdaptersAssumption, A!RowsAssumption, EndpointSet
    <3>2. A!Turned(request, rows) = A!Reverse(rows)
      BY <2>2 DEF A!Turned
    <3>3. A!AnswerTo(request, A!Reverse(rows)) = A!AnswerTo(request, rows)
      BY <2>2, <3>1, GatusTurned DEF A!AnswerTo
    <3> QED BY <2>1, <3>2, <3>3
  <2>3. CASE c = "loki"
    <3>1. rows \in LokiSources
      BY <2>1, <2>3 DEF HeldBy
    <3>2. A!Turned(request, rows) = Turned(rows)
      BY <2>3 DEF A!Turned, Turned
    <3>3. /\ A!AnswerTo(request, rows) = A!LokiOf(request, rows)
          /\ A!AnswerTo(request, Turned(rows)) = A!LokiOf(request, Turned(rows))
      BY <2>3 DEF A!AnswerTo
    <3>4. NamedApart(rows) /\ LabelledApart(rows)
      BY <2>3, <3>1
         DEF A!AdaptersAssumption, A!RowsAssumption, A!Identified, NamedApart,
             LabelledApart
    <3>5. LokiHolds(rows)
      BY <3>1, LokiIs
    <3>6. A!Told(A!LokiOf(request, Turned(rows))) = A!Told(A!LokiOf(request, rows))
      BY <2>1, <3>4, <3>5, LinesTurned
    <3> QED BY <2>1, <3>2, <3>3, <3>6
  <2>4. CASE c = "ntfy"
    <3>1. rows \in NtfyReplies
      BY <2>1, <2>4 DEF HeldBy
    <3> DEFINE turned == [rows EXCEPT !.messages = A!Reverse(@)]
    <3>2. A!Turned(request, rows) = turned
      BY <2>4 DEF A!Turned
    <3>3. A!HistoryDetail(request, turned) = A!HistoryDetail(request, rows)
      BY <2>4, <3>1, HistoryTurned DEF A!Identified
    <3> HIDE DEF turned
    <3>4. A!AnswerTo(request, turned) = A!AnswerTo(request, rows)
      BY <2>4, <3>3 DEF A!AnswerTo
    <3> QED BY <2>1, <3>2, <3>4
  <2>5. CASE c \notin {"gatus_status", "gatus_window", "loki", "ntfy"}
    <3>1. A!Turned(request, rows) = rows
      BY <2>5 DEF A!Turned
    <3> QED BY <2>1, <3>1
  <2> QED BY <2>2, <2>3, <2>4, <2>5
<1> QED BY <1>1, AdapterAlways, PTL

----------------------------------------------------------------------------
(* A call as a whole *)

(* The parts of Collections do not disturb each other: what it does is, of *)
(* each part, what the part does by itself.                                *)
THEOREM PartsAreWhole ==
    CollectionsSpec => Spec /\ A!Spec /\ T!Spec /\ B!Spec
<1>1. CollectionsInit => Init /\ A!Init /\ T!Init /\ B!Init
  BY DEF CollectionsInit
<1> DEFINE Step == [CollectionsNext]_collectionsVars
<1>2. Step => [Next]_vars
  BY DEF CollectionsNext, collectionsVars
<1>3. Step => [A!Next]_(A!vars)
  BY DEF CollectionsNext, collectionsVars, adapterVars, A!vars
<1>4. Step => [T!Next]_(T!vars)
  BY DEF CollectionsNext, collectionsVars, transitionsVars, T!vars
<1>5. Step => [B!Next]_(B!vars)
  BY DEF CollectionsNext, collectionsVars, beszelVars, B!vars
<1> QED BY <1>1, <1>2, <1>3, <1>4, <1>5, PTL
        DEF CollectionsSpec, Spec, A!Spec, T!Spec, B!Spec

(* The counter, the slots and the window of the budget, the place in the   *)
(* list of checks and the number of flips requests, and the pages and      *)
(* records of a hub stay in their ranges, for any limits.                  *)
THEOREM TypesCorrect == CollectionsSpec => []TypesOK
<1>1. CollectionsSpec => []TypeOK
  BY PartsAreWhole, TypeCorrect, PTL
<1>2. CollectionsSpec => []T!TypeOK
  BY PartsAreWhole, TransitionsTypeCorrect, CollectionsAssumption, PTL
<1>3. CollectionsSpec => []B!TypeOK
  BY PartsAreWhole, HubTypeCorrect, CollectionsAssumption, PTL
<1>4. TypeOK /\ T!TypeOK /\ B!TypeOK => TypesOK
  BY DEF TypesOK
<1> QED BY <1>1, <1>2, <1>3, <1>4, PTL

(* What the adapters of one request promise holds of Collections: complete *)
(* outcomes have everything (the mark functions of collectors.go), limits  *)
(* keep the newest (KeepNewest), and the order of a response decides       *)
(* nothing (findEndpoint, SortItems).                                      *)
THEOREM AdaptersHold ==
    CollectionsSpec => [](CompleteIsEverything /\ KeepsNewest /\ RowOrderIrrelevant)
<1>1. A!AdaptersAssumption
  BY CollectionsAssumption
<1>2. /\ A!Spec => []CompleteIsEverything
      /\ A!Spec => []KeepsNewest
      /\ A!Spec => []RowOrderIrrelevant
  BY <1>1, CompleteIsEverythingCorrect, KeepsNewestCorrect, RowOrderIrrelevantCorrect
<1> QED BY <1>2, PartsAreWhole, PTL
=============================================================================
