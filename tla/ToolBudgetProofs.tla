-------------------------- MODULE ToolBudgetProofs --------------------------
(***************************************************************************)
(* Proofs about ToolBudget for any number of callers and any limits.       *)
(***************************************************************************)
EXTENDS ToolBudget, FiniteSetTheorems, Facts

(* The type invariant and the slot count are inductive together.  TypeOK   *)
(* alone is not: only SlotsAreHeld excludes a release from an empty        *)
(* channel.                                                                *)
IInv == TypeOK /\ SlotsAreHeld

(* One caller starts or stops holding a slot.                              *)
LEMMA HolderJoins ==
    ASSUME TypeOK, NEW c \in Callers, pc[c] = "idle",
           pc' = [pc EXCEPT ![c] = "slot"]
    PROVE  Cardinality(Holders') = Cardinality(Holders) + 1
<1>1. Holders' = Holders \cup {c} /\ c \notin Holders
  BY DEF TypeOK, Holders
<1>2. IsFiniteSet(Holders)
  BY BudgetAssumption, FS_Subset DEF Holders
<1> QED BY <1>1, <1>2, FS_AddElement

LEMMA HolderLeaves ==
    ASSUME TypeOK, NEW c \in Callers, pc[c] # "idle",
           pc' = [pc EXCEPT ![c] = "idle"]
    PROVE  /\ Cardinality(Holders') = Cardinality(Holders) - 1
           /\ Cardinality(Holders) \in Nat \ {0}
<1>1. Holders' = Holders \ {c} /\ c \in Holders
  BY DEF TypeOK, Holders
<1>2. IsFiniteSet(Holders)
  BY BudgetAssumption, FS_Subset DEF Holders
<1>3. Cardinality(Holders) \in Nat /\ Cardinality(Holders) # 0
  BY <1>1, <1>2, FS_CardinalityType, FS_EmptySet
<1> QED BY <1>1, <1>2, <1>3, FS_RemoveElement

LEMMA InitIInv == Init => IInv
<1> SUFFICES ASSUME Init PROVE IInv
  OBVIOUS
<1>1. TypeOK
  BY BudgetAssumption DEF Init, TypeOK
<1>2. Holders = {}
  BY DEF Init, Holders
<1>3. SlotsAreHeld
  BY <1>2, FS_EmptySet DEF Init, SlotsAreHeld
<1> QED BY <1>1, <1>3 DEF IInv

LEMMA StepIInv == IInv /\ [Next]_vars => IInv'
<1> SUFFICES ASSUME IInv, [Next]_vars PROVE IInv'
  OBVIOUS
<1>0. TypeOK /\ SlotsAreHeld
  BY DEF IInv
<1>1. ASSUME NEW c \in Callers, TakeSlot(c)
      PROVE  IInv'
  <2>1. TypeOK'
    BY <1>0, <1>1, BudgetAssumption DEF TakeSlot, TypeOK
  <2>2. SlotsAreHeld'
    BY <1>0, <1>1, HolderJoins DEF TakeSlot, SlotsAreHeld
  <2> QED BY <2>1, <2>2 DEF IInv
<1>2. ASSUME NEW c \in Callers, Admit(c)
      PROVE  IInv'
  <2>1. TypeOK'
    BY <1>0, <1>2, BudgetAssumption
    DEF Admit, TypeOK, ResetWindow, WindowOver, CountNow
  <2>2. Holders' = Holders /\ slots' = slots
    BY <1>0, <1>2 DEF Admit, TypeOK, Holders
  <2> QED BY <1>0, <2>1, <2>2 DEF IInv, SlotsAreHeld
<1>3. ASSUME NEW c \in Callers, RateLimit(c)
      PROVE  IInv'
  <2>1. /\ Cardinality(Holders') = Cardinality(Holders) - 1
        /\ Cardinality(Holders) \in Nat \ {0}
    BY <1>0, <1>3, HolderLeaves DEF RateLimit
  <2>2. SlotsAreHeld' /\ slots # 0
    BY <1>0, <1>3, <2>1 DEF RateLimit, SlotsAreHeld
  <2>3. TypeOK'
    BY <1>0, <1>3, <2>2, BudgetAssumption
    DEF RateLimit, TypeOK, ResetWindow, WindowOver, CountNow
  <2> QED BY <2>2, <2>3 DEF IInv
<1>4. ASSUME NEW c \in Callers, Release(c)
      PROVE  IInv'
  <2>1. /\ Cardinality(Holders') = Cardinality(Holders) - 1
        /\ Cardinality(Holders) \in Nat \ {0}
    BY <1>0, <1>4, HolderLeaves DEF Release
  <2>2. slots > 0 /\ SlotsAreHeld'
    BY <1>0, <1>4, <2>1 DEF Release, SlotsAreHeld
  <2>3. TypeOK'
    BY <1>0, <1>4, <2>2, BudgetAssumption DEF Release, TypeOK
  <2> QED BY <2>2, <2>3 DEF IInv
<1>5. CASE Tick
  BY <1>0, <1>5, BudgetAssumption
  DEF IInv, Tick, TypeOK, SlotsAreHeld, Holders
<1>6. CASE UNCHANGED vars
  BY <1>0, <1>6 DEF IInv, vars, TypeOK, SlotsAreHeld, Holders
<1> QED BY <1>1, <1>2, <1>3, <1>4, <1>5, <1>6 DEF Next

LEMMA Inductive == Spec => []IInv
BY InitIInv, StepIInv, PTL DEF Spec

(* The budget's variables keep their types; in particular the per-minute   *)
(* counter never passes its limit.                                         *)
THEOREM TypeCorrect == Spec => []TypeOK
<1>1. IInv => TypeOK
  BY DEF IInv
<1> QED BY <1>1, Inductive, PTL

(* The slots in use are exactly those of the calls between acquire and     *)
(* release.                                                                *)
THEOREM SlotsCorrect == Spec => []SlotsAreHeld
<1>1. IInv => SlotsAreHeld
  BY DEF IInv
<1> QED BY <1>1, Inductive, PTL

(* No more tool bodies run at once than the configured limit.              *)
THEOREM ConcurrencyCorrect == Spec => []ConcurrencyLimit
<1>1. IInv => ConcurrencyLimit
  <2> SUFFICES ASSUME IInv PROVE ConcurrencyLimit
    OBVIOUS
  <2> DEFINE running == {c \in Callers : pc[c] = "running"}
  <2>1. running \subseteq Holders /\ IsFiniteSet(Holders)
    BY BudgetAssumption, FS_Subset DEF Holders
  <2>2. /\ Cardinality(running) <= Cardinality(Holders)
        /\ Cardinality(running) \in Nat /\ Cardinality(Holders) \in Nat
    BY <2>1, FS_Subset, FS_CardinalityType
  <2>3. Cardinality(Holders) <= Concurrent
    BY BudgetAssumption DEF IInv, TypeOK, SlotsAreHeld
  <2> QED BY <2>2, <2>3, BudgetAssumption DEF ConcurrencyLimit
<1> QED BY <1>1, Inductive, PTL

----------------------------------------------------------------------------
(* The calls that f counts from one instant to another.                    *)
Span(from, to) == {t \in 0..Horizon : from <= t /\ t <= to}

Adm(f, from, to) == SumFunctionOnSet(f, Span(from, to))

Counts == [0..Horizon -> Nat]

LEMMA SpanFinite ==
    ASSUME NEW a, NEW b
    PROVE  IsFiniteSet(Span(a, b)) /\ Span(a, b) \subseteq 0..Horizon
<1>1. IsFiniteSet(0..Horizon)
  BY FS_Interval, BudgetAssumption
<1>2. Span(a, b) \subseteq 0..Horizon
  BY DEF Span
<1> QED BY <1>1, <1>2, FS_Subset

LEMMA AdmNat == ASSUME NEW f \in Counts, NEW a, NEW b PROVE Adm(f, a, b) \in Nat
<1>1. \A t \in Span(a, b) : f[t] \in Nat
  BY SpanFinite DEF Counts
<1> QED BY <1>1, SpanFinite, SumNat DEF Adm

(* A shorter span has no more of them.                                     *)
LEMMA AdmWithin ==
    ASSUME NEW f \in Counts, NEW a, NEW b, NEW c, NEW d,
           Span(a, b) \subseteq Span(c, d)
    PROVE  Adm(f, a, b) <= Adm(f, c, d)
<1>1. IsFiniteSet(Span(c, d)) /\ \A t \in Span(c, d) : f[t] \in Nat
  BY SpanFinite DEF Counts
<1>2. IsFiniteSet(Span(c, d) \ Span(a, b)) /\ \A t \in Span(c, d) \ Span(a, b) : f[t] \in Nat
  BY <1>1, FS_Subset
<1>3. SumFunctionOnSet(f, Span(c, d) \ Span(a, b)) \in Nat
  BY <1>2, SumNat
<1>4. SumFunctionOnSet(f, Span(c, d)) = SumFunctionOnSet(f, Span(a, b))
          + SumFunctionOnSet(f, Span(c, d) \ Span(a, b))
  BY <1>1, SumSplit
<1> QED BY <1>3, <1>4, AdmNat DEF Adm

(* A span up to an instant and the one from there.                         *)
LEMMA AdmSplit ==
    ASSUME NEW f \in Counts, NEW a \in Int, NEW m \in Int, NEW b \in Int, a <= m, m <= b
    PROVE  Adm(f, a, b) = Adm(f, a, m - 1) + Adm(f, m, b)
<1>1. Span(a, m - 1) \subseteq Span(a, b) /\ Span(a, b) \ Span(a, m - 1) = Span(m, b)
  <2>1. ASSUME NEW t \in 0..Horizon
        PROVE  /\ t <= m - 1 => t <= b
               /\ (a <= t /\ t <= b) /\ ~ (a <= t /\ t <= m - 1) <=> (m <= t /\ t <= b)
    OBVIOUS
  <2> QED BY <2>1 DEF Span
<1>2. IsFiniteSet(Span(a, b)) /\ \A t \in Span(a, b) : f[t] \in Nat
  BY SpanFinite DEF Counts
<1>3. SumFunctionOnSet(f, Span(a, b)) = SumFunctionOnSet(f, Span(a, m - 1))
          + SumFunctionOnSet(f, Span(a, b) \ Span(a, m - 1))
  BY <1>1, <1>2, SumSplit
<1> QED BY <1>1, <1>3, Zenon DEF Adm

(* One more call at an instant.                                            *)
LEMMA AdmMore ==
    ASSUME NEW f \in Counts, NEW x \in 0..Horizon, NEW g,
           \A t \in 0..Horizon : g[t] \in Nat /\ (t # x => g[t] = f[t]),
           g[x] = f[x] + 1,
           NEW a \in Int, NEW b \in Int
    PROVE  Adm(g, a, b) = IF a <= x /\ x <= b THEN Adm(f, a, b) + 1 ELSE Adm(f, a, b)
<1>0. IsFiniteSet(Span(a, b)) /\ Span(a, b) \subseteq 0..Horizon
  BY SpanFinite
<1>1. /\ \A t \in 0..Horizon : f[t] \in Nat /\ g[t] \in Nat /\ (t # x => g[t] = f[t])
      /\ g[x] = f[x] + 1
  BY DEF Counts
<1>2. x \in Span(a, b) <=> a <= x /\ x <= b
  BY DEF Span
<1>3. CASE x \notin Span(a, b)
  <2>1. \A t \in Span(a, b) : g[t] = f[t]
    BY <1>0, <1>1, <1>3
  <2>2. SumFunctionOnSet(g, Span(a, b)) = SumFunctionOnSet(f, Span(a, b))
    BY <1>0, <2>1, SumSame
  <2> QED BY <1>2, <1>3, <2>2 DEF Adm
<1>4. CASE x \in Span(a, b)
  <2>1. IsFiniteSet(Span(a, b) \ {x})
    BY <1>0, FS_Subset
  <2>2. \A t \in Span(a, b) \ {x} : g[t] = f[t]
    BY <1>0, <1>1
  <2>3. SumFunctionOnSet(g, Span(a, b) \ {x}) = SumFunctionOnSet(f, Span(a, b) \ {x})
    BY <2>1, <2>2, SumSame
  <2>4. \A t \in Span(a, b) \ {x} : f[t] \in Nat
    BY <1>0, <1>1
  <2>5. SumFunctionOnSet(f, Span(a, b) \ {x}) \in Nat
    BY <2>1, <2>4, SumNat
  <2>6. (\A t \in Span(a, b) : f[t] \in Nat) /\ (\A t \in Span(a, b) : g[t] \in Nat)
    BY <1>0, <1>1
  <2>7. SumFunctionOnSet(f, Span(a, b)) = f[x] + SumFunctionOnSet(f, Span(a, b) \ {x})
    BY <1>0, <1>4, <2>6, SumRemove
  <2>8. SumFunctionOnSet(g, Span(a, b)) = g[x] + SumFunctionOnSet(g, Span(a, b) \ {x})
    BY <1>0, <1>4, <2>6, SumRemove
  <2>9. f[x] \in Nat /\ g[x] = f[x] + 1
    BY <1>1
  <2>10. SumFunctionOnSet(g, Span(a, b)) = SumFunctionOnSet(f, Span(a, b)) + 1
    BY <2>3, <2>5, <2>7, <2>8, <2>9
  <2> QED BY <1>2, <1>4, <2>10 DEF Adm
<1> QED BY <1>3, <1>4

LEMMA AdmIs == ASSUME NEW a, NEW b PROVE AdmittedIn(a, b) = Adm(admitted, a, b)
BY Zenon DEF AdmittedIn, Adm, Span

(* What is counted in f at the instant n, when the window started at w and *)
(* its count is k.  Nothing is counted after n.  Since its start the       *)
(* window counts every call; a minute later there are none, or the window  *)
(* would have moved; and in the minute before it the calls of one earlier  *)
(* window only, because an earlier one still ends more than a minute       *)
(* before.                                                                 *)
Counted(f, n, w, k) ==
    /\ Adm(f, n + 1, Horizon) = 0
    /\ Adm(f, w, Horizon) = k
    /\ Adm(f, w + Minute, Horizon) = 0
    /\ Adm(f, w - Minute + 1, w - 1) <= PerMin
    /\ \A t \in 0..Horizon : Adm(f, t, t + Minute - 1) <= 2 * PerMin

WindowInv == Counted(admitted, now, window, count)

(* A later instant.                                                        *)
LEMMA CountedTick ==
    ASSUME NEW f \in Counts, NEW n \in Nat, NEW w, NEW k, Counted(f, n, w, k)
    PROVE  Counted(f, n + 1, w, k)
<1>1. Span((n + 1) + 1, Horizon) \subseteq Span(n + 1, Horizon)
  BY BudgetAssumption DEF Span
<1>2. Adm(f, (n + 1) + 1, Horizon) <= Adm(f, n + 1, Horizon)
  BY <1>1, AdmWithin
<1>3. Adm(f, (n + 1) + 1, Horizon) \in Nat /\ Adm(f, n + 1, Horizon) = 0
  BY AdmNat DEF Counted
<1>4. Adm(f, (n + 1) + 1, Horizon) = 0
  BY <1>2, <1>3
<1> QED BY <1>4, Zenon DEF Counted

(* A window that is over moves to now, where nothing is counted yet.       *)
LEMMA CountedMove ==
    ASSUME NEW f \in Counts, NEW n \in 0..Horizon, NEW w \in 0..n, NEW k \in 0..PerMin,
           Counted(f, n, w, k), w + Minute <= n
    PROVE  Counted(f, n, n, 0)
<1>0. n \in Nat /\ w \in Nat /\ Minute \in Nat \ {0} /\ Horizon \in Nat /\ PerMin \in Nat
  BY BudgetAssumption
<1>1. /\ Adm(f, n, Horizon) \in Nat
      /\ Adm(f, n + Minute, Horizon) \in Nat
      /\ Adm(f, n - Minute + 1, n - 1) \in Nat
  BY AdmNat
<1>2. /\ Span(n, Horizon) \subseteq Span(w + Minute, Horizon)
      /\ Span(n + Minute, Horizon) \subseteq Span(w + Minute, Horizon)
      /\ Span(n - Minute + 1, n - 1) \subseteq Span(w, Horizon)
  BY <1>0 DEF Span
<1>3. /\ Adm(f, n, Horizon) <= Adm(f, w + Minute, Horizon)
      /\ Adm(f, n + Minute, Horizon) <= Adm(f, w + Minute, Horizon)
      /\ Adm(f, n - Minute + 1, n - 1) <= Adm(f, w, Horizon)
  BY <1>2, AdmWithin
<1>4. Adm(f, w + Minute, Horizon) = 0 /\ Adm(f, w, Horizon) = k
  BY DEF Counted
<1>5. Adm(f, n, Horizon) = 0
  BY <1>1, <1>3, <1>4
<1>6. Adm(f, n + Minute, Horizon) = 0
  BY <1>1, <1>3, <1>4
<1>7. Adm(f, n - Minute + 1, n - 1) <= PerMin
  BY <1>0, <1>1, <1>3, <1>4
<1> QED BY <1>5, <1>6, <1>7 DEF Counted

(* One more call in a window that is not over and not full.                *)
LEMMA CountedCall ==
    ASSUME NEW f \in Counts, NEW n \in 0..Horizon, NEW w \in 0..n, NEW k \in Nat,
           k < PerMin, n < w + Minute, Counted(f, n, w, k),
           NEW g \in Counts, \A t \in 0..Horizon : t # n => g[t] = f[t], g[n] = f[n] + 1
    PROVE  Counted(g, n, w, k + 1)
<1>0. n \in Nat /\ w \in Nat /\ Minute \in Nat \ {0} /\ Horizon \in Nat /\ PerMin \in Nat
      /\ w <= n /\ n <= Horizon
  BY BudgetAssumption
<1>1. ASSUME NEW a \in Int, NEW b \in Int
      PROVE  Adm(g, a, b) = IF a <= n /\ n <= b THEN Adm(f, a, b) + 1 ELSE Adm(f, a, b)
  <2>1. \A t \in 0..Horizon : g[t] \in Nat /\ (t # n => g[t] = f[t])
    BY DEF Counts
  <2> QED BY <2>1, AdmMore
<1>2. Adm(g, n + 1, Horizon) = 0
  <2>1. n + 1 \in Int /\ Horizon \in Int /\ ~ (n + 1 <= n)
    BY <1>0
  <2>2. Adm(g, n + 1, Horizon) = Adm(f, n + 1, Horizon)
    BY <1>1, <2>1
  <2> QED BY <2>2 DEF Counted
<1>3. Adm(g, w, Horizon) = k + 1
  <2>1. w \in Int /\ Horizon \in Int
    BY <1>0
  <2>2. Adm(g, w, Horizon) = Adm(f, w, Horizon) + 1
    BY <1>0, <1>1, <2>1
  <2> QED BY <2>2 DEF Counted
<1>4. Adm(g, w + Minute, Horizon) = 0
  <2>1. w + Minute \in Int /\ Horizon \in Int /\ ~ (w + Minute <= n)
    BY <1>0
  <2>2. Adm(g, w + Minute, Horizon) = Adm(f, w + Minute, Horizon)
    BY <1>1, <2>1
  <2> QED BY <2>2 DEF Counted
<1>5. Adm(g, w - Minute + 1, w - 1) <= PerMin
  <2>1. w - Minute + 1 \in Int /\ w - 1 \in Int /\ ~ (n <= w - 1)
    BY <1>0
  <2>2. Adm(g, w - Minute + 1, w - 1) = Adm(f, w - Minute + 1, w - 1)
    BY <1>1, <2>1
  <2> QED BY <2>2 DEF Counted
<1>6. ASSUME NEW t \in 0..Horizon
      PROVE  Adm(g, t, t + Minute - 1) <= 2 * PerMin
  <2>0. t \in Int /\ t + Minute - 1 \in Int
    BY <1>0
  <2>1. CASE ~ (t <= n /\ n <= t + Minute - 1)
    <3>1. Adm(g, t, t + Minute - 1) = Adm(f, t, t + Minute - 1)
      BY <1>1, <2>0, <2>1
    <3> QED BY <3>1 DEF Counted
  <2>2. CASE t <= n /\ n <= t + Minute - 1 /\ w <= t
    <3>1. Span(t, t + Minute - 1) \subseteq Span(w, Horizon)
      BY <1>0, <2>0, <2>2 DEF Span
    <3>2. Adm(g, t, t + Minute - 1) <= Adm(g, w, Horizon)
      BY <3>1, AdmWithin
    <3>3. Adm(g, t, t + Minute - 1) \in Nat
      BY AdmNat
    <3> QED BY <1>0, <1>3, <3>2, <3>3
  <2>3. CASE t <= n /\ n <= t + Minute - 1 /\ t < w
    <3>1. t <= w /\ w <= t + Minute - 1 /\ w \in Int
      BY <1>0, <2>0, <2>3
    <3>2. Adm(g, t, t + Minute - 1) = Adm(g, t, w - 1) + Adm(g, w, t + Minute - 1)
      BY <2>0, <3>1, AdmSplit
    <3>3. Span(t, w - 1) \subseteq Span(w - Minute + 1, w - 1)
      <4>1. w - Minute + 1 <= t
        BY <1>0, <2>0, <2>3
      <4>2. \A u \in 0..Horizon : t <= u => w - Minute + 1 <= u
        BY <1>0, <2>0, <4>1
      <4> QED BY <4>2 DEF Span
    <3>4. Span(w, t + Minute - 1) \subseteq Span(w, Horizon)
      BY DEF Span
    <3>5. /\ Adm(g, t, w - 1) <= Adm(g, w - Minute + 1, w - 1)
          /\ Adm(g, w, t + Minute - 1) <= Adm(g, w, Horizon)
      BY <3>3, <3>4, AdmWithin
    <3>6. /\ Adm(g, t, w - 1) \in Nat
          /\ Adm(g, w - Minute + 1, w - 1) \in Nat
          /\ Adm(g, w, t + Minute - 1) \in Nat
      BY AdmNat
    <3> HIDE DEF Adm
    <3> QED BY <1>0, <1>3, <1>5, <3>2, <3>5, <3>6
  <2> QED BY <1>0, <2>0, <2>1, <2>2, <2>3
<1> QED BY <1>2, <1>3, <1>4, <1>5, <1>6 DEF Counted

LEMMA WindowTypes ==
    ASSUME TypeOK
    PROVE  /\ now \in 0..Horizon /\ now \in Nat /\ window \in 0..now /\ window \in Nat
           /\ count \in 0..PerMin /\ count \in Nat /\ admitted \in Counts
           /\ Minute \in Nat \ {0} /\ Horizon \in Nat /\ PerMin \in Nat \ {0}
BY BudgetAssumption DEF TypeOK, Counts

(* The window moves, if it is over, before anything is counted.            *)
LEMMA WindowMoves ==
    ASSUME TypeOK, WindowInv, ResetWindow
    PROVE  /\ window' \in 0..now /\ now < window' + Minute /\ CountNow \in Nat
           /\ Counted(admitted, now, window', CountNow)
<1>1. CASE ~ WindowOver
  <2>1. window' = window /\ CountNow = count
    BY <1>1 DEF ResetWindow, CountNow
  <2>2. now < window + Minute
    BY <1>1, WindowTypes DEF WindowOver
  <2> QED BY <2>1, <2>2, WindowTypes DEF WindowInv
<1>2. CASE WindowOver
  <2>1. window' = now /\ CountNow = 0
    BY <1>2 DEF ResetWindow, CountNow
  <2>2. window + Minute <= now /\ now < now + Minute /\ now \in 0..now
    BY <1>2, WindowTypes DEF WindowOver
  <2>3. Counted(admitted, now, now, 0)
    BY <2>2, WindowTypes, CountedMove DEF WindowInv
  <2> QED BY <2>1, <2>2, <2>3
<1> QED BY <1>1, <1>2

LEMMA WindowStep == TypeOK /\ TypeOK' /\ WindowInv /\ [Next]_vars => WindowInv'
<1> SUFFICES ASSUME TypeOK, TypeOK', WindowInv, [Next]_vars PROVE WindowInv'
  OBVIOUS
<1>1. ASSUME NEW c \in Callers, Admit(c) PROVE WindowInv'
  <2>1. /\ CountNow < PerMin /\ ResetWindow /\ count' = CountNow + 1 /\ now' = now
        /\ admitted' = [admitted EXCEPT ![now] = @ + 1]
    BY <1>1 DEF Admit
  <2>2. /\ window' \in 0..now /\ now < window' + Minute /\ CountNow \in Nat
        /\ Counted(admitted, now, window', CountNow)
    BY <2>1, WindowMoves
  <2>3. /\ admitted' \in Counts
        /\ \A t \in 0..Horizon : t # now => admitted'[t] = admitted[t]
        /\ admitted'[now] = admitted[now] + 1
    BY <2>1, WindowTypes DEF TypeOK, Counts
  <2>4. Counted(admitted', now, window', CountNow + 1)
    BY <2>1, <2>2, <2>3, WindowTypes, CountedCall
  <2> QED BY <2>1, <2>4 DEF WindowInv
<1>2. ASSUME NEW c \in Callers, RateLimit(c) PROVE WindowInv'
  <2>1. ResetWindow /\ count' = CountNow /\ admitted' = admitted /\ now' = now
    BY <1>2 DEF RateLimit
  <2>2. Counted(admitted, now, window', CountNow)
    BY <2>1, WindowMoves
  <2> QED BY <2>1, <2>2 DEF WindowInv
<1>3. CASE Tick
  <2>1. now' = now + 1 /\ UNCHANGED <<window, count, admitted>>
    BY <1>3 DEF Tick
  <2>2. Counted(admitted, now + 1, window, count)
    BY WindowTypes, CountedTick DEF WindowInv
  <2> QED BY <2>1, <2>2 DEF WindowInv
<1>4. CASE (\E c \in Callers : TakeSlot(c) \/ Release(c)) \/ UNCHANGED vars
  <2>1. UNCHANGED <<now, window, count, admitted>>
    BY <1>4 DEF TakeSlot, Release, vars
  <2> QED BY <2>1 DEF WindowInv
<1> QED BY <1>1, <1>2, <1>3, <1>4 DEF Next

LEMMA WindowInit == Init => WindowInv
<1> SUFFICES ASSUME Init PROVE WindowInv
  OBVIOUS
<1>1. /\ admitted = [t \in 0..Horizon |-> 0] /\ window = 0 /\ count = 0 /\ PerMin \in Nat
  BY BudgetAssumption DEF Init
<1>2. ASSUME NEW a, NEW b PROVE Adm(admitted, a, b) = 0
  <2>1. IsFiniteSet(Span(a, b)) /\ \A t \in Span(a, b) : admitted[t] = 0
    BY <1>1, SpanFinite
  <2> QED BY <2>1, SumZero DEF Adm
<1>3. 0 <= PerMin /\ 0 <= 2 * PerMin
  BY <1>1
<1> QED BY <1>1, <1>2, <1>3 DEF WindowInv, Counted

LEMMA WindowAlways == Spec => []WindowInv
<1>1. IInv => TypeOK
  BY DEF IInv
<1> QED BY <1>1, WindowInit, WindowStep, Inductive, PTL DEF Spec

(* A fixed window bounds any minute, aligned with it or not, by twice the  *)
(* limit: the calls of one minute belong to two windows at most.           *)
THEOREM MinuteBounded == Spec => []TwiceAMinute
<1>1. WindowInv => TwiceAMinute
  BY AdmIs DEF WindowInv, Counted, TwiceAMinute
<1> QED BY <1>1, WindowAlways, PTL

(* acquire refuses a call for its rate only when the minute before has     *)
(* spent the whole limit.                                                  *)
THEOREM RefusalsJustified == Spec => RefusedOnlyWhenSpent
<1>1. TypeOK /\ WindowInv /\ [Next]_vars =>
        [\A c \in Callers :
            pc[c] = "slot" /\ pc'[c] = "idle" =>
               AdmittedIn(now - Minute + 1, now) >= PerMin]_vars
  <2> SUFFICES ASSUME TypeOK, WindowInv, Next, NEW c \in Callers,
                      pc[c] = "slot", pc'[c] = "idle"
               PROVE  AdmittedIn(now - Minute + 1, now) >= PerMin
    BY DEF vars
  <2>0. /\ now \in Nat /\ window \in Nat /\ window <= now /\ now <= Horizon
        /\ Minute \in Nat \ {0} /\ PerMin \in Nat \ {0} /\ count \in Nat
        /\ Horizon \in Nat /\ admitted \in Counts
    BY BudgetAssumption DEF TypeOK, Counts
  <2>1. RateLimit(c)
    <3>1. ASSUME NEW d \in Callers, TakeSlot(d) \/ Admit(d) \/ Release(d) PROVE FALSE
      BY <3>1 DEF TakeSlot, Admit, Release, TypeOK
    <3>2. ASSUME Tick PROVE FALSE
      BY <3>2 DEF Tick
    <3>3. ASSUME NEW d \in Callers, RateLimit(d) PROVE d = c
      BY <3>3 DEF RateLimit, TypeOK
    <3> QED BY <3>1, <3>2, <3>3 DEF Next
  <2>2. count >= PerMin /\ now < window + Minute
    <3>1. CountNow >= PerMin
      BY <2>1 DEF RateLimit
    <3> QED BY <2>0, <3>1 DEF CountNow, WindowOver
  (* Nothing is counted after now, so the window's count is up to now. *)
  <2>3. Span(window, now) \subseteq Span(now - Minute + 1, now)
    BY <2>0, <2>2 DEF Span
  <2>4. Adm(admitted, window, now) <= Adm(admitted, now - Minute + 1, now)
    BY <2>0, <2>3, AdmWithin
  <2>5. Adm(admitted, window, now) = count
    <3>1. CASE now = Horizon
      BY <3>1 DEF WindowInv, Counted
    <3>2. CASE now # Horizon
      <4>1. /\ window <= now + 1 /\ now + 1 <= Horizon /\ now + 1 \in Int /\ window \in Int
            /\ Horizon \in Int /\ (now + 1) - 1 = now
        BY <2>0, <3>2
      <4>2. Adm(admitted, window, Horizon)
                = Adm(admitted, window, (now + 1) - 1) + Adm(admitted, now + 1, Horizon)
        BY <2>0, <4>1, AdmSplit
      <4>3. Adm(admitted, window, (now + 1) - 1) = Adm(admitted, window, now)
        BY <4>1
      <4>4. Adm(admitted, now + 1, Horizon) = 0 /\ Adm(admitted, window, Horizon) = count
        BY DEF WindowInv, Counted
      <4>5. Adm(admitted, window, now) \in Nat
        BY <2>0, AdmNat
      <4> QED BY <4>2, <4>3, <4>4, <4>5
    <3> QED BY <3>1, <3>2
  <2>6. Adm(admitted, now - Minute + 1, now) \in Nat
    BY <2>0, AdmNat
  <2> QED BY <2>0, <2>2, <2>4, <2>5, <2>6, AdmIs
<1>2. IInv => TypeOK
  BY DEF IInv
<1> QED BY <1>1, <1>2, WindowAlways, Inductive, PTL DEF Spec, RefusedOnlyWhenSpent
============================================================================
