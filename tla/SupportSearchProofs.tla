------------------------ MODULE SupportSearchProofs ------------------------
(***************************************************************************)
(* Proofs about the support search, for any number of supports, any limit  *)
(* and any set of reactions the kernel may report.                         *)
(***************************************************************************)
EXTENDS SupportSearch, FiniteSetTheorems, TLAPS

(* The friction a contact can hold is a natural number.                    *)
LEMMA FrictionIsNat ==
  ASSUME NEW n \in Nat PROVE Mu * n \in Nat
BY SearchAssumption

(* A solved frame has one row per support, so it is never the absent one.  *)
LEMMA FramesExist ==
  ASSUME NEW state PROVE ComposeFrame(state) # NoFrame
<1>1. 1 \in DOMAIN ComposeFrame(state)
  BY SearchAssumption DEF ComposeFrame, Supports
<1>2. DOMAIN NoFrame = {}
  BY DEF NoFrame
<1> QED BY <1>1, <1>2

(* What this round measured of a support has its type.                     *)
LEMMA MeasuresTyped ==
  ASSUME NEW s \in Supports, TypeOK, result \in KernelResults(activeState)
  PROVE  /\ NormalOf(s) \in Int
         /\ ShearOf(s) \in Nat
         /\ Tension(s) \in Nat
         /\ result.place[s] \in Places
<1>1. result \in ResultsOver(ActiveIn(activeState))
  BY DEF KernelResults
<1>2. result.place \in [Supports -> Places]
  BY <1>1 DEF ResultsOver
<1>3. activeState[s] \in Entries
  BY DEF TypeOK
<1>4. CASE Reported(s)
  <2>1. result.reaction[s] \in [normal : Normals, shear : Shears]
    BY <1>1, <1>4 DEF ResultsOver, Reported
  <2>2. result.reaction[s].normal \in Int /\ result.reaction[s].shear \in Nat
    BY <2>1, SearchAssumption
  <2> QED BY <1>2, <1>4, <2>2 DEF NormalOf, ShearOf, Tension, Positive
<1>5. CASE ~Reported(s)
  BY <1>2, <1>3, <1>5 DEF NormalOf, ShearOf, Tension, Entries
<1> QED BY <1>4, <1>5

(* Denying a transition keeps the contact state and the anchor.            *)
LEMMA KeptKeepsContact ==
  ASSUME NEW s \in Supports, TypeOK, result \in KernelResults(activeState)
  PROVE  /\ Kept(s) \in Entries
         /\ Kept(s).normal = activeState[s].normal
         /\ Kept(s).tangential = activeState[s].tangential
         /\ Kept(s).anchor = activeState[s].anchor
<1>1. activeState[s] \in Entries
  BY DEF TypeOK
<1>2. NormalOf(s) \in Int /\ ShearOf(s) \in Nat
  BY MeasuresTyped
<1>3. Positive(NormalOf(s)) \in Nat
  BY <1>2 DEF Positive
<1> QED BY <1>1, <1>2, <1>3 DEF Kept, Entries

(* A proposed entry is typed, INACTIVE exactly when it is lifted off, and  *)
(* in contact exactly when the support remains active.                     *)
LEMMA ProposedTyped ==
  ASSUME NEW s \in Supports, TypeOK, result \in KernelResults(activeState)
  PROVE  /\ Proposed(s) \in Entries
         /\ Proposed(s).normal = "ACTIVE" <=> RemainsActive(s)
         /\ Proposed(s).tangential = NextTangential(s)
         /\ Proposed(s).normal = "LIFTED_OFF" <=> Proposed(s).tangential = "INACTIVE"
<1>1. activeState[s] \in Entries
  BY DEF TypeOK
<1>2. NormalOf(s) \in Int /\ ShearOf(s) \in Nat /\ result.place[s] \in Places
  BY MeasuresTyped
<1>3. Positive(NormalOf(s)) \in Nat
  BY <1>2 DEF Positive
<1>4. CASE RemainsActive(s)
  <2>1. NextTangential(s) \in {"STICK", "SLIP"}
    BY <1>4 DEF NextTangential
  <2> QED BY <1>1, <1>2, <1>3, <1>4, <2>1 DEF Proposed, Entries
<1>5. CASE ~RemainsActive(s)
  BY <1>1, <1>3, <1>5 DEF Proposed, Entries, NextTangential
<1> QED BY <1>4, <1>5

(* Composed rows are typed.                                                *)
LEMMA FramesTyped ==
  ASSUME NEW state \in [Supports -> Entries]
  PROVE  ComposeFrame(state) \in [Supports -> Rows]
<1> SUFFICES ASSUME NEW s \in Supports PROVE FrameRow(state[s]) \in Rows
  BY DEF ComposeFrame
<1>1. /\ state[s] \in Entries
      /\ state[s].anchor \in Places
      /\ state[s].vertical \in Nat
  BY DEF Entries
<1>2. Mu * state[s].vertical \in Nat
  BY <1>1, FrictionIsNat
<1>3. SlipFriction(state[s]) \in Nat
  BY <1>2 DEF SlipFriction
<1> QED BY <1>1, <1>3, SearchAssumption DEF FrameRow, Rows

(* A kernel answer is typed.                                               *)
LEMMA AnswersTyped ==
  ASSUME NEW state, NEW r \in KernelResults(state)
  PROVE  /\ \E active \in SUBSET Supports : r \in ResultsOver(active)
         /\ \A s \in ActiveIn(state) : r.reaction[s].normal \in Int
<1>1. r \in ResultsOver(ActiveIn(state)) /\ ActiveIn(state) \in SUBSET Supports
  BY DEF KernelResults, ActiveIn
<1>2. ASSUME NEW s \in ActiveIn(state) PROVE r.reaction[s].normal \in Int
  <2>1. r.reaction[s] \in [normal : Normals, shear : Shears]
    BY <1>1 DEF ResultsOver
  <2> QED BY <2>1, SearchAssumption
<1> QED BY <1>1, <1>2

-----------------------------------------------------------------------------
(* Type correctness, with what frame and result mean.                      *)

TypeInv == TypeOK /\ FrameIsCurrent

(* Solving: the answer belongs to the frame just composed.                 *)
LEMMA SolveAnswers ==
  ASSUME TypeInv, Solve
  PROVE  result' \in KernelResults(activeState)
<1>1. CASE frame = ComposeFrame(activeState)
  <2>1. frame # NoFrame
    BY <1>1, FramesExist
  <2>2. phase \notin Ended
    BY DEF Solve, Ended, Refusals
  <2> QED BY <1>1, <2>1, <2>2 DEF TypeInv, FrameIsCurrent, Solve
<1>2. CASE frame # ComposeFrame(activeState)
  BY <1>2 DEF Solve
<1> QED BY <1>1, <1>2

(* While a round is evaluated, the result answers the active state.        *)
LEMMA UpdatingIsSolved ==
  ASSUME TypeInv, phase = "updating"
  PROVE  /\ frame = ComposeFrame(activeState)
         /\ result \in KernelResults(activeState)
BY DEF TypeInv, FrameIsCurrent, Ended, Refusals

(* Counting a toggle keeps the counters natural and lets none decrease.    *)
LEMMA TogglesGrow ==
  ASSUME TypeOK, NEW s \in Supports
  PROVE  /\ TogglesAfter(s) \in [Supports -> Nat]
         /\ \A t \in Supports : TogglesAfter(s)[t] >= toggles[t]
         /\ Reason(s) \in ContactReasons => TogglesAfter(s)[s] = toggles[s] + 1
BY DEF TypeOK, TogglesAfter

LEMMA TypeInvInit == Init => TypeInv
<1> SUFFICES ASSUME Init PROVE TypeInv
  OBVIOUS
<1>1. activeState \in [Supports -> Entries]
  BY DEF Init, SeedEntries, Entries
<1>2. \A s \in Supports : activeState[s].normal = "LIFTED_OFF"
                            <=> activeState[s].tangential = "INACTIVE"
  BY DEF Init, SeedEntries
<1>3. round \in 0 .. IterationLimit
  BY SearchAssumption DEF Init
<1> QED
  BY <1>1, <1>2, <1>3 DEF Init, TypeInv, TypeOK, FrameIsCurrent, Zeros, Pivots

LEMMA TypeInvStep == TypeInv /\ [Next]_vars => TypeInv'
<1> SUFFICES ASSUME TypeInv, [Next]_vars PROVE TypeInv'
  OBVIOUS
<1> USE DEF TypeInv
<1>1. CASE Solve
  <2>1. result' \in KernelResults(activeState)
    BY <1>1, SolveAnswers
  <2>2. /\ \E active \in SUBSET Supports : result' \in ResultsOver(active)
        /\ \A s \in ActiveIn(activeState) : result'.reaction[s].normal \in Int
    BY <2>1, AnswersTyped
  <2>3. frame' = ComposeFrame(activeState) /\ frame' \in [Supports -> Rows]
    BY <1>1, FramesTyped DEF Solve, TypeOK
  <2>4. poleTension' \in [Supports -> Nat]
    <3>1. ASSUME NEW s \in Supports
          PROVE  (IF s \in ActiveIn(activeState)
                    THEN Positive(-result'.reaction[s].normal)
                    ELSE poleTension[s]) \in Nat
      <4>1. CASE s \in ActiveIn(activeState)
        <5>1. -result'.reaction[s].normal \in Int
          BY <4>1, <2>2
        <5> QED BY <4>1, <5>1 DEF Positive
      <4>2. CASE s \notin ActiveIn(activeState)
        BY <4>2 DEF TypeOK
      <4> QED BY <4>1, <4>2
    <3> QED BY <3>1, <1>1 DEF Solve
  <2>5. TypeOK'
    BY <1>1, <2>2, <2>3, <2>4 DEF Solve, TypeOK
  <2>6. FrameIsCurrent'
    BY <1>1, <2>1, <2>3 DEF Solve, FrameIsCurrent, ComposeFrame, KernelResults,
                            ActiveIn, StickingIn, SlippingIn
  <2> QED BY <2>5, <2>6
<1>2. CASE KernelFails
  BY <1>2 DEF KernelFails, TypeOK, FrameIsCurrent, Ended, Refusals
<1>3. ASSUME NEW s \in Supports, Freeze(s) PROVE TypeInv'
  <2>1. /\ frame = ComposeFrame(activeState)
        /\ result \in KernelResults(activeState)
    BY <1>3, UpdatingIsSolved DEF Freeze
  <2>2. Tension(s) \in Nat
    BY <2>1, MeasuresTyped
  <2>3. disclosed' \in [Supports -> Nat] /\ toggles' \in [Supports -> Nat]
    BY <1>3, <2>2, TogglesGrow DEF Freeze, TypeOK
  <2>4. round' \in 0 .. IterationLimit
    BY <1>3, SearchAssumption DEF Freeze, TypeOK
  <2>5. TypeOK'
    BY <1>3, <2>3, <2>4 DEF Freeze, TypeOK, Pivots
  <2>6. FrameIsCurrent'
    BY <1>3, <2>1 DEF Freeze, FrameIsCurrent, ComposeFrame, KernelResults,
                      ActiveIn, StickingIn, SlippingIn
  <2> QED BY <2>5, <2>6
<1>4. ASSUME NEW s \in Supports, Pivot(s) PROVE TypeInv'
  <2>1. result \in KernelResults(activeState)
    BY <1>4, UpdatingIsSolved DEF Pivot
  <2>2. ASSUME NEW t \in Supports
        PROVE  /\ activeState'[t] \in Entries
               /\ activeState'[t].normal = "LIFTED_OFF"
                    <=> activeState'[t].tangential = "INACTIVE"
    <3>1. CASE t = s
      BY <1>4, <2>1, <3>1, ProposedTyped DEF Pivot
    <3>2. CASE t # s
      <4>1. activeState'[t] = Kept(t)
        BY <1>4, <3>2 DEF Pivot
      <4> QED BY <2>1, <4>1, KeptKeepsContact DEF TypeOK
    <3> QED BY <3>1, <3>2
  <2>3. activeState' \in [Supports -> Entries]
    BY <1>4, <2>2 DEF Pivot
  <2>4. previousPivot' \in Pivots
    <3>1. Reason(s) \in Reasons
      BY <1>4 DEF Pivot, FirstViolator, Violators, Reason, Reasons
    <3> QED BY <1>4, <3>1 DEF Pivot, Pivots
  <2>5. toggles' \in [Supports -> Nat] /\ round' \in 0 .. IterationLimit
    BY <1>4, TogglesGrow, SearchAssumption DEF Pivot, TypeOK
  <2>6. TypeOK'
    BY <1>4, <2>2, <2>3, <2>4, <2>5 DEF Pivot, TypeOK
  <2>7. FrameIsCurrent'
    BY <1>4 DEF Pivot, FrameIsCurrent
  <2> QED BY <2>6, <2>7
<1>5. CASE Conclude
  <2>1. result \in KernelResults(activeState)
    BY <1>5, UpdatingIsSolved DEF Conclude
  <2>2. ASSUME NEW t \in Supports
        PROVE  /\ activeState'[t] \in Entries
               /\ activeState'[t].normal = "LIFTED_OFF"
                    <=> activeState'[t].tangential = "INACTIVE"
    <3>1. activeState'[t] = Kept(t)
      BY <1>5 DEF Conclude
    <3> QED BY <2>1, <3>1, KeptKeepsContact DEF TypeOK
  <2>3. activeState' \in [Supports -> Entries]
    BY <1>5, <2>2 DEF Conclude
  <2>4. phase' \in Ended
    BY <1>5 DEF Conclude, Ended, Refusals
  <2>5. TypeOK'
    BY <1>5, <2>2, <2>3, <2>4 DEF Conclude, TypeOK, Ended, Refusals, Pivots
  <2> QED BY <2>4, <2>5 DEF FrameIsCurrent
<1>6. CASE Exhaust
  BY <1>6 DEF Exhaust, TypeOK, FrameIsCurrent, Ended, Refusals
<1>7. CASE UNCHANGED vars
  BY <1>7 DEF vars, TypeOK, FrameIsCurrent, ComposeFrame, KernelResults,
              ActiveIn, StickingIn, SlippingIn
<1> QED
  BY <1>1, <1>2, <1>3, <1>4, <1>5, <1>6, <1>7 DEF Next, SearchStep, Finished

(* Type correctness of the search.                                         *)
THEOREM TypeCorrect == Spec => [](TypeOK /\ FrameIsCurrent)
<1>1. Init => TypeInv
  BY TypeInvInit
<1>2. TypeInv /\ [Next]_vars => TypeInv'
  BY TypeInvStep
<1> QED BY <1>1, <1>2, PTL DEF Spec, TypeInv

-----------------------------------------------------------------------------
(* The freeze.                                                             *)

LEMMA FirstIsUnique ==
  ASSUME NEW s \in Supports, NEW t \in Supports, FirstViolator(s), FirstViolator(t)
  PROVE  s = t
BY DEF FirstViolator, Supports

(* A frozen contact is never frozen again: its lift-off is never proposed, *)
(* and a recurring toggle of it is not a cycle any more.                   *)
LEMMA FreezeIsNew ==
  ASSUME NEW s \in Supports, Freezes(s)
  PROVE  /\ s \notin frozen
         /\ Reason(s) \in ContactReasons
BY DEF Freezes, ExactInverse, RecurringToggle, Reason, RemainsActive, ContactReasons

(* A contact that is frozen has been proposed for two contact changes.     *)
LEMMA FreezeIsCounted ==
  ASSUME TypeOK, PivotIsCounted, NEW s \in Supports, Freezes(s)
  PROVE  TogglesAfter(s)[s] >= 2
<1>1. CASE ExactInverse(s)
  <2>1. previousPivot.reason = "CONTACT_RESTORED" /\ previousPivot.support = s
    BY <1>1 DEF ExactInverse
  <2>2. toggles[s] >= 1 /\ toggles[s] \in Nat
    BY <2>1 DEF PivotIsCounted, TypeOK
  <2>3. TogglesAfter(s)[s] = toggles[s] + 1
    BY FreezeIsNew, TogglesGrow
  <2> QED BY <2>2, <2>3
<1>2. CASE RecurringToggle(s)
  BY <1>2, TogglesGrow DEF RecurringToggle, TypeOK
<1> QED BY <1>1, <1>2 DEF Freezes

(* Both poles of a cycle that freezes are within the admissible amplitude. *)
LEMMA FreezeIsQuiet ==
  ASSUME TypeOK, NEW s \in Supports, Freezes(s), Tension(s) \in Nat
  PROVE  Tension(s) <= Admissible /\ poleTension[s] <= Admissible
<1>1. poleTension[s] \in Nat
  BY DEF TypeOK
<1> QED BY <1>1, SearchAssumption DEF Freezes, Amplitude, Larger

FreezeInv == PivotIsCounted /\ FrozenWereCycling

LEMMA FreezeInvStep == TypeInv /\ FreezeInv /\ [Next]_vars => FreezeInv'
<1> SUFFICES ASSUME TypeInv, FreezeInv, [Next]_vars PROVE FreezeInv'
  OBVIOUS
<1> USE DEF FreezeInv, TypeInv
<1>1. ASSUME NEW s \in Supports, Freeze(s) PROVE FreezeInv'
  <2>1. result \in KernelResults(activeState)
    BY <1>1, UpdatingIsSolved DEF Freeze
  <2>2. Freezes(s) /\ Tension(s) \in Nat
    BY <1>1, <2>1, MeasuresTyped DEF Freeze
  <2>3. toggles' \in [Supports -> Nat] /\ \A t \in Supports : toggles'[t] >= toggles[t]
    BY <1>1, TogglesGrow DEF Freeze
  <2>4. toggles'[s] >= 2
    BY <1>1, <2>2, FreezeIsCounted DEF Freeze
  <2>5. FrozenWereCycling'
    <3> SUFFICES ASSUME NEW t \in frozen' PROVE toggles'[t] >= 2
      BY DEF FrozenWereCycling
    <3>1. CASE t = s
      BY <3>1, <2>4
    <3>2. CASE t \in frozen
      <4>1. t \in Supports /\ toggles[t] >= 2 /\ toggles[t] \in Nat /\ toggles'[t] \in Nat
        BY <3>2, <2>3 DEF FrozenWereCycling, TypeOK
      <4> QED BY <4>1, <2>3
    <3> QED BY <1>1, <3>1, <3>2 DEF Freeze
  <2>6. PivotIsCounted'
    BY <1>1 DEF Freeze, PivotIsCounted, NoPivot
  <2> QED BY <2>5, <2>6
<1>2. ASSUME NEW s \in Supports, Pivot(s) PROVE FreezeInv'
  <2>1. toggles' \in [Supports -> Nat] /\ \A t \in Supports : toggles'[t] >= toggles[t]
    BY <1>2, TogglesGrow DEF Pivot
  <2>2. FrozenWereCycling'
    <3> SUFFICES ASSUME NEW t \in frozen PROVE toggles'[t] >= 2
      BY <1>2 DEF FrozenWereCycling, Pivot
    <3>1. t \in Supports /\ toggles[t] >= 2 /\ toggles[t] \in Nat /\ toggles'[t] \in Nat
      BY <2>1 DEF FrozenWereCycling, TypeOK
    <3> QED BY <3>1, <2>1
  <2>3. PivotIsCounted'
    <3> SUFFICES ASSUME previousPivot'.reason = "CONTACT_RESTORED"
                 PROVE  toggles'[previousPivot'.support] >= 1
      BY DEF PivotIsCounted
    <3>1. Reason(s) = "CONTACT_RESTORED" /\ previousPivot'.support = s
      BY <1>2 DEF Pivot
    <3>2. toggles'[s] = toggles[s] + 1 /\ toggles[s] \in Nat
      BY <1>2, <3>1, TogglesGrow DEF Pivot, ContactReasons, TypeOK
    <3> QED BY <3>1, <3>2
  <2> QED BY <2>2, <2>3
<1>3. CASE Solve
  BY <1>3 DEF Solve, PivotIsCounted, FrozenWereCycling
<1>4. CASE KernelFails
  BY <1>4 DEF KernelFails, PivotIsCounted, FrozenWereCycling
<1>5. CASE Conclude
  BY <1>5 DEF Conclude, PivotIsCounted, FrozenWereCycling, NoPivot
<1>6. CASE Exhaust
  BY <1>6 DEF Exhaust, PivotIsCounted, FrozenWereCycling
<1>7. CASE UNCHANGED vars
  BY <1>7 DEF vars, PivotIsCounted, FrozenWereCycling
<1> QED
  BY <1>1, <1>2, <1>3, <1>4, <1>5, <1>6, <1>7 DEF Next, SearchStep, Finished

(* Only contacts the search saw cycle are ever frozen.                     *)
THEOREM FreezeIsEarned == Spec => []FrozenWereCycling
<1>1. Init => TypeInv /\ FreezeInv
  <2>1. Init => FreezeInv
    BY DEF Init, FreezeInv, PivotIsCounted, FrozenWereCycling, NoPivot
  <2> QED BY <2>1, TypeInvInit
<1>2. TypeInv /\ FreezeInv /\ [Next]_vars => (TypeInv /\ FreezeInv)'
  BY TypeInvStep, FreezeInvStep
<1> QED BY <1>1, <1>2, PTL DEF Spec, FreezeInv

LEMMA FreezeIsQuietRound == TypeInv /\ [Next]_vars => [FreezeIsQuietStep]_vars
<1> SUFFICES ASSUME TypeInv, [Next]_vars PROVE [FreezeIsQuietStep]_vars
  OBVIOUS
<1>1. ASSUME NEW s \in Supports, Freeze(s) PROVE FreezeIsQuietStep
  <2>1. frozen' = frozen \cup {s} /\ disclosed' = [disclosed EXCEPT ![s] = Tension(s)]
    BY <1>1 DEF Freeze
  <2>2. Freezes(s) /\ Tension(s) \in Nat
    BY <1>1, UpdatingIsSolved, MeasuresTyped DEF Freeze, TypeInv
  <2>3. Tension(s) <= Admissible /\ poleTension[s] <= Admissible
    BY <2>2, FreezeIsQuiet DEF TypeInv
  <2>4. disclosed'[s] = Tension(s)
    BY <2>1 DEF TypeInv, TypeOK
  <2> QED BY <2>1, <2>3, <2>4 DEF FreezeIsQuietStep
<1>2. ASSUME frozen' = frozen PROVE FreezeIsQuietStep
  BY <1>2 DEF FreezeIsQuietStep
<1>3. CASE \E s \in Supports : Pivot(s)
  BY <1>2, <1>3 DEF Pivot
<1>4. CASE Solve \/ KernelFails \/ Conclude \/ Exhaust
  BY <1>2, <1>4 DEF Solve, KernelFails, Conclude, Exhaust
<1>5. CASE UNCHANGED vars
  BY <1>5
<1> QED
  BY <1>1, <1>3, <1>4, <1>5 DEF Next, SearchStep, Finished

(* A freeze is quiet at both poles of the cycle it ends.                   *)
THEOREM FreezeIsQuietEverywhere == Spec => OnlyQuietCyclesFreeze
<1>1. Spec => []TypeInv
  BY TypeInvInit, TypeInvStep, PTL DEF Spec
<1> QED BY <1>1, FreezeIsQuietRound, PTL DEF Spec, OnlyQuietCyclesFreeze

-----------------------------------------------------------------------------
(* Frozen contacts are in contact.                                         *)

(* A pivot leaves every frozen contact in contact.                         *)
LEMMA PivotKeepsFrozen ==
  ASSUME TypeInv, FrozenAreInContact, NEW s \in Supports, Pivot(s), NEW t \in frozen
  PROVE  activeState'[t].normal = "ACTIVE"
<1>1. result \in KernelResults(activeState) /\ t \in Supports
  BY UpdatingIsSolved DEF Pivot, TypeInv, TypeOK
<1>2. CASE t = s
  <2>1. RemainsActive(s)
    BY <1>2 DEF RemainsActive
  <2> QED BY <1>1, <1>2, <2>1, ProposedTyped DEF Pivot, TypeInv
<1>3. CASE t # s
  <2>1. t \in ActiveIn(activeState)
    BY <1>1, <1>3, FirstIsUnique DEF FrozenAreInContact, Pivot
  <2>2. activeState'[t] = Kept(t)
    BY <1>1, <1>3 DEF Pivot
  <2> QED BY <1>1, <2>1, <2>2, KeptKeepsContact DEF ActiveIn, TypeInv
<1> QED BY <1>2, <1>3

(* A freeze at the lifted pole leaves its own restoration as the first     *)
(* violator of the frame that is evaluated again.                          *)
LEMMA FreezeKeepsRestoration ==
  ASSUME TypeInv, FrozenAreInContact, NEW s \in Supports, Freeze(s)
  PROVE  FrozenAreInContact'
<1>1. /\ frame = ComposeFrame(activeState)
      /\ activeState' = activeState /\ result' = result /\ frame' = frame
      /\ frozen' = frozen \cup {s}
      /\ FirstViolator(s) /\ s \notin frozen /\ Reason(s) \in ContactReasons
      /\ frozen \subseteq Supports
  BY UpdatingIsSolved, FreezeIsNew DEF Freeze, TypeInv, TypeOK
<1> SUFFICES ASSUME NEW t \in frozen', t \notin ActiveIn(activeState)
             PROVE  /\ frame' = ComposeFrame(activeState')
                    /\ Restored(t)'
                    /\ FirstViolator(t)'
  BY <1>1 DEF FrozenAreInContact, ActiveIn
<1>2. t = s
  <2>1. ASSUME t \in frozen PROVE FALSE
    <3>1. FirstViolator(t) /\ t \in Supports
      BY <1>1, <2>1 DEF FrozenAreInContact
    <3> QED BY <1>1, <2>1, <3>1, FirstIsUnique
  <2> QED BY <1>1, <2>1
<1>3. activeState[s].normal # "ACTIVE"
  BY <1>2 DEF ActiveIn
<1>4. Restored(s)
  BY <1>1, <1>3 DEF Reason, ContactReasons
<1>5. Restored(s)'
  BY <1>1, <1>4 DEF Restored
<1>6. Reason(s)' = "CONTACT_RESTORED"
  BY <1>1, <1>3, <1>5 DEF Reason
<1>7. ASSUME NEW u \in Supports, u # s PROVE Reason(u)' = Reason(u)
  <2>1. RemainsActive(u)' = RemainsActive(u)
    BY <1>1, <1>7 DEF RemainsActive, Restored, NormalOf, Reported, ActiveIn
  <2>2. NextTangential(u)' = NextTangential(u)
    BY <1>1, <2>1 DEF NextTangential, Overcome, NormalOf, ShearOf, Reported, ActiveIn
  <2> QED BY <1>1, <2>1, <2>2 DEF Reason, Restored
<1>8. FirstViolator(s)'
  <2>1. s \in Violators'
    BY <1>6 DEF Violators
  <2>2. ASSUME NEW u \in Violators' PROVE s <= u
    <3>1. CASE u = s
      BY <3>1 DEF Supports
    <3>2. CASE u # s
      <4>1. u \in Violators
        BY <1>7, <3>2 DEF Violators
      <4> QED BY <1>1, <4>1 DEF FirstViolator
    <3> QED BY <3>1, <3>2
  <2> QED BY <2>1, <2>2 DEF FirstViolator
<1>9. frame' = ComposeFrame(activeState')
  BY <1>1
<1> QED BY <1>2, <1>5, <1>8, <1>9

LEMMA PresenceStep ==
  TypeInv /\ FrozenAreInContact /\ [Next]_vars => FrozenAreInContact'
<1> SUFFICES ASSUME TypeInv, FrozenAreInContact, [Next]_vars
             PROVE  FrozenAreInContact'
  OBVIOUS
<1> USE DEF FrozenAreInContact
(* What keeps state, result and frozen set keeps every evaluation.         *)
<1>0. ASSUME UNCHANGED << activeState, result, frozen >>, frame' = frame
      PROVE  FrozenAreInContact'
  BY <1>0 DEF ActiveIn, ComposeFrame, Restored, FirstViolator, Violators, Reason,
              RemainsActive, NextTangential, Overcome, NormalOf, ShearOf, Reported
<1>1. CASE Solve
  <2>1. CASE frame = ComposeFrame(activeState)
    BY <1>0, <1>1, <2>1 DEF Solve
  <2>2. CASE frame # ComposeFrame(activeState)
    BY <1>1, <2>2 DEF Solve, ActiveIn
  <2> QED BY <2>1, <2>2
<1>2. ASSUME NEW s \in Supports, Freeze(s) PROVE FrozenAreInContact'
  BY <1>2, FreezeKeepsRestoration
<1>3. ASSUME NEW s \in Supports, Pivot(s) PROVE FrozenAreInContact'
  <2>1. ASSUME NEW t \in frozen PROVE t \in ActiveIn(activeState')
    BY <1>3, <2>1, PivotKeepsFrozen DEF ActiveIn, TypeInv, TypeOK
  <2> QED BY <1>3, <2>1 DEF Pivot, ActiveIn
<1>4. CASE Conclude
  <2>1. frozen \subseteq ActiveIn(activeState)
    BY <1>4 DEF Conclude, FirstViolator
  <2>2. ASSUME NEW t \in frozen PROVE t \in ActiveIn(activeState')
    <3>1. result \in KernelResults(activeState) /\ t \in Supports
      BY <1>4, UpdatingIsSolved DEF Conclude, TypeInv, TypeOK
    <3>2. activeState'[t] = Kept(t)
      BY <1>4, <3>1 DEF Conclude
    <3> QED BY <2>1, <3>1, <3>2, KeptKeepsContact DEF ActiveIn, TypeInv
  <2> QED BY <1>4, <2>2 DEF Conclude, ActiveIn
<1>5. CASE KernelFails
  BY <1>0, <1>5 DEF KernelFails
<1>6. CASE Exhaust
  BY <1>0, <1>6 DEF Exhaust
<1>7. CASE UNCHANGED vars
  BY <1>0, <1>7 DEF vars
<1> QED
  BY <1>1, <1>2, <1>3, <1>4, <1>5, <1>6, <1>7 DEF Next, SearchStep, Finished

(* A contact once frozen is in contact, or is the very next to come back.  *)
THEOREM FrozenStayInContact == Spec => []FrozenAreInContact
<1>1. Init => TypeInv /\ FrozenAreInContact
  BY TypeInvInit DEF Init, FrozenAreInContact
<1>2. TypeInv /\ FrozenAreInContact /\ [Next]_vars => (TypeInv /\ FrozenAreInContact)'
  BY TypeInvStep, PresenceStep
<1> QED BY <1>1, <1>2, PTL DEF Spec

-----------------------------------------------------------------------------
(* What an accepted search is worth, why no solve is repeated, that the    *)
(* search implements the walk over active sets, and how soon a quiet one   *)
(* settles.                                                                *)

(* A support that proposes nothing agrees with this round's measurements:  *)
(* in contact it remains so and keeps its grip or its slide, out of        *)
(* contact it is not sunk.                                                 *)
LEMMA NoReasonAgrees ==
  ASSUME TypeOK, NEW s \in Supports, Reason(s) = "NONE"
  PROVE  /\ activeState[s].normal = "ACTIVE" => RemainsActive(s)
         /\ ~Restored(s)
         /\ RemainsActive(s) => activeState[s].tangential = NextTangential(s)
BY DEF Reason

(* A gripping contact that proposes nothing holds within its friction.     *)
LEMMA GripHolds ==
  ASSUME TypeOK, result \in KernelResults(activeState),
         NEW s \in StickingIn(activeState), Reason(s) = "NONE"
  PROVE  result.reaction[s].shear <= Mu * Positive(result.reaction[s].normal)
<1>1. s \in Supports /\ Reported(s) /\ activeState[s].tangential = "STICK"
  BY DEF StickingIn, ActiveIn, Reported
<1>2. NextTangential(s) = "STICK"
  BY <1>1, NoReasonAgrees DEF Reported, ActiveIn
<1>3. ~Overcome(s)
  BY <1>2 DEF NextTangential
<1>4. ShearOf(s) \in Nat /\ NormalOf(s) \in Int
  BY <1>1, MeasuresTyped
<1>5. Mu * Positive(NormalOf(s)) \in Nat
  <2>1. Positive(NormalOf(s)) \in Nat
    BY <1>4 DEF Positive
  <2> QED BY <2>1, FrictionIsNat
<1>6. ShearOf(s) <= Mu * Positive(NormalOf(s))
  BY <1>3, <1>4, <1>5 DEF Overcome
<1> QED BY <1>1, <1>6 DEF ShearOf, NormalOf

(* With nothing violating, the residual is within tolerance: the refusal   *)
(* "support active state residual" is never taken.                         *)
LEMMA QuietResidualIsAccepted ==
  ASSUME TypeOK, result \in KernelResults(activeState), Violators = {}
  PROVE  ResidualAccepted
<1> SUFFICES ASSUME NEW s \in Supports \ frozen PROVE -NormalOf(s) <= ComplTol
  BY DEF ResidualAccepted
<1>1. Reason(s) = "NONE"
  BY DEF Violators
<1>2. NormalOf(s) \in Int /\ ComplTol \in Nat
  BY MeasuresTyped, SearchAssumption
<1>3. CASE Reported(s)
  <2>1. NormalOf(s) >= -ComplTol
    BY <1>1, <1>3, NoReasonAgrees DEF RemainsActive, Reported, ActiveIn
  <2> QED BY <1>2, <2>1
<1>4. CASE ~Reported(s)
  <2>1. NormalOf(s) \in Nat
    BY <1>4 DEF NormalOf, TypeOK, Entries
  <2> QED BY <1>2, <2>1
<1> QED BY <1>3, <1>4

(* Concluding with an acceptance hands back a complementary state.         *)
LEMMA ConcludeIsComplementary ==
  ASSUME TypeInv, FrozenAreInContact, Conclude
  PROVE  AcceptedIsComplementary'
<1>1. /\ frame = ComposeFrame(activeState)
      /\ result \in KernelResults(activeState)
  BY UpdatingIsSolved DEF Conclude
<1>2. /\ frame' = frame /\ result' = result /\ frozen' = frozen
      /\ \A s \in Supports : Reason(s) = "NONE"
      /\ frozen \subseteq Supports
  BY DEF Conclude, Violators, TypeInv, TypeOK
<1>3. \A s \in Supports : /\ activeState'[s].normal = activeState[s].normal
                          /\ activeState'[s].tangential = activeState[s].tangential
  BY <1>1, KeptKeepsContact DEF Conclude, TypeInv
<1>4. /\ ActiveIn(activeState') = ActiveIn(activeState)
      /\ StickingIn(activeState') = StickingIn(activeState)
  BY <1>3 DEF ActiveIn, StickingIn
<1>5. ASSUME NEW s \in ActiveIn(activeState) \ frozen
      PROVE  result.reaction[s].normal >= -ComplTol
  <2>1. s \in Supports /\ activeState[s].normal = "ACTIVE" /\ Reported(s)
    BY DEF ActiveIn, Reported
  <2>2. NormalOf(s) >= -ComplTol
    BY <1>2, <1>5, <2>1, NoReasonAgrees DEF RemainsActive, TypeInv
  <2> QED BY <2>1, <2>2 DEF NormalOf
<1>6. ASSUME NEW s \in Supports \ ActiveIn(activeState)
      PROVE  s \notin result.sunk
  <2>1. activeState[s].normal = "LIFTED_OFF"
    BY DEF ActiveIn, TypeInv, TypeOK, Entries
  <2> QED BY <1>2, <2>1, NoReasonAgrees DEF Restored, TypeInv
<1>7. ASSUME NEW s \in StickingIn(activeState)
      PROVE  result.reaction[s].shear <= Mu * Positive(result.reaction[s].normal)
  BY <1>1, <1>2, GripHolds DEF TypeInv, StickingIn, ActiveIn
<1>8. frozen \subseteq ActiveIn(activeState)
  BY <1>2 DEF FrozenAreInContact, FirstViolator, Violators
<1>9. ASSUME NEW s \in Supports
      PROVE  /\ frame[s].active = (s \in ActiveIn(activeState))
             /\ frame[s].sticking = (s \in StickingIn(activeState))
  BY <1>1 DEF ComposeFrame, FrameRow, ActiveIn, StickingIn
<1> QED
  BY <1>2, <1>4, <1>5, <1>6, <1>7, <1>8, <1>9 DEF AcceptedIsComplementary

LEMMA AcceptedStep ==
  TypeInv /\ FrozenAreInContact /\ AcceptedIsComplementary /\ [Next]_vars
    => AcceptedIsComplementary'
<1> SUFFICES ASSUME TypeInv, FrozenAreInContact, AcceptedIsComplementary, [Next]_vars
             PROVE  AcceptedIsComplementary'
  OBVIOUS
<1>1. CASE Conclude
  BY <1>1, ConcludeIsComplementary
<1>2. CASE Solve \/ KernelFails \/ Exhaust
  BY <1>2 DEF Solve, KernelFails, Exhaust, AcceptedIsComplementary
<1>3. CASE \E s \in Supports : Freeze(s) \/ Pivot(s)
  BY <1>3 DEF Freeze, Pivot, AcceptedIsComplementary
<1>4. CASE UNCHANGED vars
  BY <1>4 DEF vars, AcceptedIsComplementary, ActiveIn, StickingIn
<1> QED
  BY <1>1, <1>2, <1>3, <1>4 DEF Next, SearchStep, Finished

(* An accepted search has solved the contact problem it was given.         *)
THEOREM AcceptanceIsSound == Spec => []AcceptedIsComplementary
<1>1. Init => AcceptedIsComplementary
  BY DEF Init, AcceptedIsComplementary
<1>2. Spec => [](TypeInv /\ FrozenAreInContact)
  BY TypeCorrect, FrozenStayInContact, PTL DEF TypeInv
<1> QED BY <1>1, <1>2, AcceptedStep, PTL DEF Spec

GripsAfter ==
  phase = "updating" =>
    \A s \in StickingIn(activeState') : activeState'[s].anchor = result.place[s]

(* A contact that grips after a round grips where its node stood in it: it *)
(* gripped there already, or came back there.                              *)
LEMMA GripsStep ==
  ASSUME TypeInv, FrozenAreInContact, Next, phase = "updating",
         NEW t \in StickingIn(activeState')
  PROVE  activeState'[t].anchor = result.place[t]
<1>1. /\ result \in KernelResults(activeState)
      /\ t \in Supports /\ activeState'[t].normal = "ACTIVE" /\ activeState'[t].tangential = "STICK"
  BY UpdatingIsSolved DEF StickingIn, ActiveIn
<1>2. ASSUME t \in StickingIn(activeState) PROVE activeState[t].anchor = result.place[t]
  BY <1>1, <1>2 DEF KernelResults
<1>3. ASSUME activeState'[t] = Kept(t) PROVE activeState'[t].anchor = result.place[t]
  <2>1. /\ activeState[t].normal = "ACTIVE" /\ activeState[t].tangential = "STICK"
        /\ activeState'[t].anchor = activeState[t].anchor
    BY <1>1, <1>3, KeptKeepsContact DEF TypeInv
  <2> QED BY <1>1, <1>2, <2>1 DEF StickingIn, ActiveIn
<1>4. ASSUME Pivot(t) PROVE activeState'[t].anchor = result.place[t]
  <2>1. /\ activeState'[t] = Proposed(t) /\ RemainsActive(t) /\ NextTangential(t) = "STICK"
    BY <1>1, <1>4, ProposedTyped DEF Pivot, TypeInv
  <2>2. CASE Restored(t)
    BY <2>1, <2>2 DEF Proposed
  <2>3. CASE ~Restored(t)
    <3>1. activeState[t].normal = "ACTIVE"
      BY <1>1, <2>1, <2>3 DEF RemainsActive, FrozenAreInContact, ActiveIn
    <3>2. activeState[t].tangential = "STICK"
      BY <1>1, <2>1, <3>1 DEF NextTangential, TypeInv, TypeOK, Entries
    <3>3. activeState'[t].anchor = activeState[t].anchor
      BY <2>1, <2>3 DEF Proposed
    <3> QED BY <1>1, <1>2, <3>1, <3>2, <3>3 DEF StickingIn, ActiveIn
  <2> QED BY <2>2, <2>3
<1>5. CASE \E s \in Supports : Pivot(s)
  <2>1. PICK s \in Supports : Pivot(s)
    BY <1>5
  <2>2. CASE t = s
    BY <1>4, <2>1, <2>2
  <2>3. CASE t # s
    BY <1>1, <1>3, <2>1, <2>3 DEF Pivot
  <2> QED BY <2>2, <2>3
<1>6. CASE \E s \in Supports : Freeze(s)
  <2>1. activeState' = activeState
    BY <1>6 DEF Freeze
  <2> QED BY <1>2, <2>1
<1>7. CASE Conclude
  BY <1>1, <1>3, <1>7 DEF Conclude
<1> QED
  BY <1>5, <1>6, <1>7 DEF Next, SearchStep, Solve, KernelFails, Exhaust, Finished, Ended, Refusals

(* Static friction grips a contact where it stands, never where it stood.  *)
THEOREM GripIsWhereItStands == Spec => GripsWhereItStands
<1>1. TypeInv /\ FrozenAreInContact /\ [Next]_vars => [GripsAfter]_vars
  BY GripsStep DEF GripsAfter
<1>2. Spec => [](TypeInv /\ FrozenAreInContact)
  BY TypeCorrect, FrozenStayInContact, PTL DEF TypeInv
<1> QED BY <1>1, <1>2, PTL DEF Spec, GripsWhereItStands, GripsAfter

-----------------------------------------------------------------------------
(* Pivots and the walk.                                                    *)

(* A lifted contact holds no shear: what makes a restored contact grip     *)
(* again, whatever broke it loose before it left.                          *)
LiftedHoldsNothing ==
  \A s \in Supports : activeState[s].normal = "LIFTED_OFF" => activeState[s].held = 0

LEMMA LiftedStep ==
  TypeInv /\ LiftedHoldsNothing /\ [Next]_vars => LiftedHoldsNothing'
<1> SUFFICES ASSUME TypeInv, LiftedHoldsNothing, [Next]_vars
             PROVE  LiftedHoldsNothing'
  OBVIOUS
<1> USE DEF LiftedHoldsNothing
(* An entry whose transition is denied keeps its contact, and its shear if *)
(* it is lifted; a lift-off zeroes the shear.                              *)
<1>1. ASSUME result \in KernelResults(activeState), NEW t \in Supports,
             Kept(t).normal = "LIFTED_OFF"
      PROVE  Kept(t).held = 0
  BY <1>1, KeptKeepsContact DEF Kept, TypeInv
<1>2. ASSUME NEW t \in Supports, Proposed(t).normal = "LIFTED_OFF"
      PROVE  Proposed(t).held = 0
  BY <1>2 DEF Proposed
<1>3. ASSUME NEW s \in Supports, Pivot(s) PROVE LiftedHoldsNothing'
  BY <1>1, <1>2, <1>3, UpdatingIsSolved DEF Pivot
<1>4. CASE Conclude
  BY <1>1, <1>4, UpdatingIsSolved DEF Conclude
<1>5. ASSUME UNCHANGED activeState PROVE LiftedHoldsNothing'
  BY <1>5
<1>6. CASE Solve \/ KernelFails \/ Exhaust \/ \E s \in Supports : Freeze(s)
  BY <1>5, <1>6 DEF Solve, KernelFails, Exhaust, Freeze
<1>7. CASE UNCHANGED vars
  BY <1>5, <1>7 DEF vars
<1> QED
  BY <1>3, <1>4, <1>6, <1>7 DEF Next, SearchStep, Finished

(* A pivot moves exactly one contact, in one of three ways, and never      *)
(* takes a frozen one out.                                                 *)
LEMMA PivotMovesOne ==
  ASSUME TypeInv, FrozenAreInContact, LiftedHoldsNothing, NEW s \in Supports, Pivot(s)
  PROVE  \/ /\ s \in ActiveIn(activeState) \ frozen
            /\ ActiveIn(activeState') = ActiveIn(activeState) \ {s}
            /\ SlippingIn(activeState') = SlippingIn(activeState) \ {s}
         \/ /\ s \in Supports \ ActiveIn(activeState)
            /\ ActiveIn(activeState') = ActiveIn(activeState) \cup {s}
            /\ SlippingIn(activeState') = SlippingIn(activeState)
         \/ /\ s \in StickingIn(activeState)
            /\ ActiveIn(activeState') = ActiveIn(activeState)
            /\ SlippingIn(activeState') = SlippingIn(activeState) \cup {s}
<1>1. /\ result \in KernelResults(activeState)
      /\ FirstViolator(s) /\ Reason(s) # "NONE"
  BY UpdatingIsSolved DEF Pivot, FirstViolator, Violators
<1>2. /\ activeState'[s].normal = "ACTIVE" <=> RemainsActive(s)
      /\ activeState'[s].tangential = NextTangential(s)
  BY <1>1, ProposedTyped DEF Pivot, TypeInv
<1>3. \A t \in Supports \ {s} : /\ activeState'[t].normal = activeState[t].normal
                                /\ activeState'[t].tangential = activeState[t].tangential
  BY <1>1, KeptKeepsContact DEF Pivot, TypeInv
<1>4. /\ activeState[s].normal \in {"ACTIVE", "LIFTED_OFF"}
      /\ activeState[s].tangential \in {"STICK", "SLIP", "INACTIVE"}
      /\ activeState[s].normal = "LIFTED_OFF" <=> activeState[s].tangential = "INACTIVE"
  BY DEF TypeInv, TypeOK, Entries
<1>5. CASE activeState[s].normal = "ACTIVE" /\ ~RemainsActive(s)
  <2>1. s \notin frozen
    BY <1>5 DEF RemainsActive
  <2> QED BY <1>2, <1>3, <1>5, <2>1 DEF ActiveIn, SlippingIn
<1>6. CASE activeState[s].normal = "ACTIVE" /\ RemainsActive(s)
  <2>1. ~Restored(s)
    BY <1>6 DEF Restored
  <2>2. activeState[s].tangential # NextTangential(s)
    BY <1>1, <1>6, <2>1 DEF Reason
  <2>3. activeState[s].tangential = "STICK" /\ NextTangential(s) = "SLIP"
    BY <1>4, <1>6, <2>2 DEF NextTangential
  <2> QED BY <1>2, <1>3, <1>6, <2>3 DEF ActiveIn, StickingIn, SlippingIn
<1>7. CASE activeState[s].normal = "LIFTED_OFF"
  <2>1. Restored(s)
    <3>1. CASE s \in frozen
      BY <1>7, <3>1 DEF FrozenAreInContact, ActiveIn
    <3>2. CASE s \notin frozen
      BY <1>1, <1>7, <3>2 DEF Reason, RemainsActive
    <3> QED BY <3>1, <3>2
  <2>2. RemainsActive(s) /\ activeState[s].tangential = "INACTIVE"
    BY <1>4, <1>7, <2>1 DEF RemainsActive
  <2>3. NextTangential(s) = "STICK"
    <3>1. ShearOf(s) = activeState[s].held /\ NormalOf(s) = activeState[s].vertical
      BY <1>7 DEF ShearOf, NormalOf, Reported, ActiveIn
    <3>2. activeState[s].held = 0 /\ activeState[s].vertical \in Nat
      BY <1>7 DEF LiftedHoldsNothing, TypeInv, TypeOK, Entries
    <3>3. Positive(NormalOf(s)) \in Nat
      BY <3>1, <3>2 DEF Positive
    <3>4. Mu * Positive(NormalOf(s)) \in Nat
      BY <3>3, FrictionIsNat
    <3>5. ~Overcome(s)
      BY <3>1, <3>2, <3>4 DEF Overcome
    <3> QED BY <2>2, <3>5 DEF NextTangential
  <2> QED BY <1>2, <1>3, <1>7, <2>2, <2>3 DEF ActiveIn, SlippingIn
<1> QED BY <1>4, <1>5, <1>6, <1>7

(* One solve, one change: the frame a pivot leads to is not the frame that *)
(* was just judged, and a freeze adds a contact that was not frozen.       *)
LEMMA RoundMoves ==
  TypeInv /\ FrozenAreInContact /\ LiftedHoldsNothing /\ [Next]_vars
    => [FrameChangesOrFreezes]_vars
<1> SUFFICES ASSUME TypeInv, FrozenAreInContact, LiftedHoldsNothing, [Next]_vars
             PROVE  [FrameChangesOrFreezes]_vars
  OBVIOUS
<1> USE DEF FrameChangesOrFreezes
<1>1. ASSUME NEW s \in Supports, Freeze(s) PROVE FrameChangesOrFreezes
  BY <1>1, FreezeIsNew DEF Freeze
<1>2. ASSUME NEW s \in Supports, Pivot(s) PROVE FrameChangesOrFreezes
  <2>1. frame = ComposeFrame(activeState)
    BY <1>2, UpdatingIsSolved DEF Pivot
  <2>2. \/ (s \in ActiveIn(activeState)) # (s \in ActiveIn(activeState'))
        \/ /\ s \in StickingIn(activeState)
           /\ s \in SlippingIn(activeState')
    BY <1>2, PivotMovesOne
  <2>3. FrameRow(activeState[s]) # FrameRow(activeState'[s])
    BY <2>2 DEF FrameRow, ActiveIn, StickingIn, SlippingIn
  <2>4. ComposeFrame(activeState')[s] # frame[s]
    BY <2>1, <2>3 DEF ComposeFrame
  <2> QED BY <2>4
<1>3. CASE Solve \/ KernelFails \/ Conclude \/ Exhaust
  BY <1>3 DEF Solve, KernelFails, Conclude, Exhaust, Refusals
<1>4. CASE UNCHANGED vars
  BY <1>4
<1> QED
  BY <1>1, <1>2, <1>3, <1>4 DEF Next, SearchStep, Finished

(* No frame is solved twice in a row without a freeze in between.          *)
THEOREM SearchNeverRepeats == Spec => NoSolveIsRepeated
<1>1. Init => LiftedHoldsNothing
  BY DEF Init, LiftedHoldsNothing, SeedEntries
<1>2. Spec => [](TypeInv /\ FrozenAreInContact)
  BY TypeCorrect, FrozenStayInContact, PTL DEF TypeInv
<1> QED BY <1>1, <1>2, LiftedStep, RoundMoves, PTL DEF Spec, NoSolveIsRepeated

LEMMA WalkStep ==
  TypeInv /\ FrozenAreInContact /\ LiftedHoldsNothing /\ [Next]_vars
    => [Walk!Next]_(Walk!walk)
<1> SUFFICES ASSUME TypeInv, FrozenAreInContact, LiftedHoldsNothing, [Next]_vars
             PROVE  [Walk!Next]_(Walk!walk)
  OBVIOUS
<1> USE DEF Walk!Next, Walk!walk, Verdict, Refusals
<1>1. CASE Solve
  BY <1>1 DEF Solve, ActiveIn, SlippingIn
<1>2. CASE KernelFails \/ Exhaust
  BY <1>2 DEF KernelFails, Exhaust, ActiveIn, SlippingIn, Walk!Refuse
<1>3. ASSUME NEW s \in Supports, Freeze(s) PROVE Walk!Pin(s)
  BY <1>3, FreezeIsNew DEF Freeze, ActiveIn, SlippingIn, Walk!Pin
<1>4. ASSUME NEW s \in Supports, Pivot(s)
      PROVE  Walk!Leave(s) \/ Walk!Return(s) \/ Walk!BreakLoose(s)
  <2>1. /\ phase = "updating" /\ phase' = "solving" /\ frozen' = frozen
    BY <1>4 DEF Pivot
  <2>2. StickingIn(activeState) \subseteq ActiveIn(activeState) \ SlippingIn(activeState)
    BY DEF StickingIn, SlippingIn
  <2> QED BY <1>4, <2>1, <2>2, PivotMovesOne
          DEF Walk!Leave, Walk!Return, Walk!BreakLoose
<1>5. CASE Conclude
  <2>1. /\ phase = "updating" /\ frozen' = frozen
        /\ phase' \in Refusals \cup {"accepted"}
    BY <1>5 DEF Conclude
  <2>2. \A s \in Supports : /\ activeState'[s].normal = activeState[s].normal
                            /\ activeState'[s].tangential = activeState[s].tangential
    BY <1>5, UpdatingIsSolved, KeptKeepsContact DEF Conclude, TypeInv
  <2>3. /\ ActiveIn(activeState') = ActiveIn(activeState)
        /\ SlippingIn(activeState') = SlippingIn(activeState)
    BY <2>2 DEF ActiveIn, SlippingIn
  <2>4. frozen \subseteq ActiveIn(activeState)
    BY <1>5 DEF Conclude, FrozenAreInContact, FirstViolator, TypeInv, TypeOK
  <2> QED BY <2>1, <2>3, <2>4 DEF Walk!Accept, Walk!Refuse
<1>6. CASE UNCHANGED vars
  BY <1>6 DEF vars, ActiveIn, SlippingIn
<1> QED
  BY <1>1, <1>2, <1>3, <1>4, <1>5, <1>6 DEF Next, SearchStep, Finished

(* The search implements the walk over active sets: one contact per step,  *)
(* slip one-way, frozen contacts pinned, acceptance with all of them in.   *)
THEOREM SearchImplementsWalk == Spec => ImplementsWalk
<1>1. Init => Walk!Init
  BY DEF Init, SeedEntries, ActiveIn, SlippingIn, Verdict, Refusals, Walk!Init
<1>2. Init => LiftedHoldsNothing
  BY DEF Init, LiftedHoldsNothing, SeedEntries
<1>3. Spec => [](TypeInv /\ FrozenAreInContact)
  BY TypeCorrect, FrozenStayInContact, PTL DEF TypeInv
<1> QED
  BY <1>1, <1>2, <1>3, LiftedStep, WalkStep, PTL DEF Spec, ImplementsWalk, Walk!Spec

-----------------------------------------------------------------------------
(* Why six rounds per support and one last solve are enough when every     *)
(* tension the kernel reports is within the admissible amplitude: each     *)
(* round moves one contact up a ladder of six rungs and none down, and the *)
(* rounds taken never outnumber the rungs climbed.                         *)

Quiet == \A n \in Normals : -n <= Admissible

(* The rung a contact stands on.  A contact that is not frozen has at most *)
(* two contact changes behind it, the third freezes it; in contact it may  *)
(* still break loose once.  A frozen one comes back, and breaks loose.     *)
Rung(s) ==
  LET slides == IF s \in SlippingIn(activeState) THEN 1 ELSE 0
  IN  IF s \in frozen
        THEN IF s \in ActiveIn(activeState) THEN 5 + slides ELSE 4
      ELSE IF s \in ActiveIn(activeState)
        THEN (IF toggles[s] = 2 THEN 3 ELSE toggles[s]) + slides
      ELSE IF toggles[s] = 0 THEN 0 ELSE toggles[s] + 1

Top     == 6
Rungs   == Supports \X (1 .. Top)
Climbed == {p \in Rungs : p[2] <= Rung(p[1])}

(* Tensions stay within the amplitude, so no contact is left unfrozen by   *)
(* its third change.                                                       *)
PolesAreQuiet == \A s \in Supports : poleTension[s] <= Admissible
ThirdFreezes  == \A s \in Supports \ frozen : toggles[s] <= 2

RoundsAreClimbed == round <= Cardinality(Climbed)

QuietInv == Quiet => PolesAreQuiet /\ ThirdFreezes /\ RoundsAreClimbed /\ QuietSearchSettles

LadderInv == TypeInv /\ FrozenAreInContact /\ LiftedHoldsNothing

-----------------------------------------------------------------------------
(* Counting.                                                               *)

LEMMA RungsAreSix == IsFiniteSet(Rungs) /\ Cardinality(Rungs) = 6 * NumSupports
<1>1. ASSUME NEW n \in Nat \ {0}
      PROVE  IsFiniteSet(1 .. n) /\ Cardinality(1 .. n) = n
  <2>1. IsFiniteSet(1 .. n) /\ Cardinality(1 .. n) = IF 1 > n THEN 0 ELSE n - 1 + 1
    BY FS_Interval
  <2> QED BY <2>1
<1>2. Top \in Nat \ {0}
  BY DEF Top
<1>3. /\ IsFiniteSet(1 .. Top) /\ Cardinality(1 .. Top) = Top
      /\ IsFiniteSet(Supports) /\ Cardinality(Supports) = NumSupports
  BY <1>1, <1>2, SearchAssumption DEF Supports
<1>4. /\ IsFiniteSet(Rungs)
      /\ Cardinality(Rungs) = NumSupports * Top
  BY <1>3, FS_Product DEF Rungs
<1> QED BY <1>4, SearchAssumption DEF Top

LEMMA ClimbedIsCounted ==
  /\ IsFiniteSet(Climbed)
  /\ Cardinality(Climbed) \in Nat /\ Cardinality(Climbed) <= 6 * NumSupports
<1>1. Climbed \in SUBSET Rungs
  BY DEF Climbed
<1>2. IsFiniteSet(Climbed) /\ Cardinality(Climbed) <= Cardinality(Rungs)
  BY <1>1, RungsAreSix, FS_Subset
<1> QED BY <1>2, RungsAreSix, FS_CardinalityType

LEMMA RungTyped ==
  ASSUME TypeOK, ThirdFreezes, NEW s \in Supports PROVE Rung(s) \in 0 .. Top
BY DEF TypeOK, ThirdFreezes, Rung, Top

(* A contact one rung higher and no contact lower is one rung more.        *)
LEMMA OneRungMore ==
  ASSUME NEW s \in Supports, Rung(s) \in 0 .. Top, Rung(s)' \in 0 .. Top, Rung(s)' > Rung(s),
         \A t \in Supports \ {s} : Rung(t)' = Rung(t)
  PROVE  Cardinality(Climbed') \in Nat /\ Cardinality(Climbed') >= Cardinality(Climbed) + 1
<1> DEFINE rung == << s, Rung(s) + 1 >>
<1>1. rung \in Rungs /\ rung \notin Climbed /\ rung \in Climbed'
  BY DEF Rungs, Climbed, Top
<1>2. Climbed \subseteq Climbed'
  <2> SUFFICES ASSUME NEW p \in Climbed PROVE p \in Climbed'
    OBVIOUS
  <2>1. p \in Rungs /\ p[1] \in Supports /\ p[2] \in 1 .. Top /\ p[2] <= Rung(p[1])
    BY DEF Climbed, Rungs
  <2>2. CASE p[1] = s
    BY <2>1, <2>2 DEF Climbed
  <2>3. CASE p[1] # s
    BY <2>1, <2>3 DEF Climbed
  <2> QED BY <2>2, <2>3
<1> HIDE DEF rung
<1>3. Cardinality(Climbed \cup {rung}) = Cardinality(Climbed) + 1
  BY <1>1, ClimbedIsCounted, FS_AddElement
<1>4. Climbed' \in SUBSET Rungs
  BY DEF Climbed, Rungs
<1>5. IsFiniteSet(Climbed')
  BY <1>4, RungsAreSix, FS_Subset
<1>6. Climbed \cup {rung} \in SUBSET Climbed'
  BY <1>1, <1>2
<1>7. /\ Cardinality(Climbed \cup {rung}) <= Cardinality(Climbed')
      /\ Cardinality(Climbed') \in Nat
  BY <1>5, <1>6, FS_Subset, FS_CardinalityType
<1> QED BY <1>3, <1>7

-----------------------------------------------------------------------------
(* Rounds.                                                                 *)

(* Whatever a quiet kernel answers, this round's tension is within the     *)
(* amplitude, and a third contact change therefore freezes.                *)
LEMMA QuietTension ==
  ASSUME Quiet, TypeOK, result \in KernelResults(activeState), NEW s \in Supports
  PROVE  Tension(s) \in Nat /\ Tension(s) <= Admissible
<1>1. Tension(s) \in Nat
  BY MeasuresTyped
<1>2. CASE Reported(s)
  <2>1. result.reaction[s].normal \in Normals
    BY <1>2 DEF KernelResults, ResultsOver, Reported
  <2>2. /\ result.reaction[s].normal \in Int /\ -result.reaction[s].normal <= Admissible
        /\ Admissible \in Nat
    BY <2>1, SearchAssumption DEF Quiet
  <2> QED BY <1>1, <1>2, <2>2 DEF Tension, Positive
<1>3. CASE ~Reported(s)
  BY <1>1, <1>3, SearchAssumption DEF Tension
<1> QED BY <1>1, <1>2, <1>3

LEMMA ThirdChangeFreezes ==
  ASSUME Quiet, TypeOK, PolesAreQuiet, result \in KernelResults(activeState),
         NEW s \in Supports \ frozen, Reason(s) \in ContactReasons, ~Freezes(s)
  PROVE  TogglesAfter(s)[s] <= 2
<1>1. Amplitude(s) <= Admissible
  BY QuietTension DEF Amplitude, Larger, PolesAreQuiet
<1>2. ~RecurringToggle(s)
  BY <1>1 DEF Freezes
<1>3. TogglesAfter(s)[s] \in Nat
  BY TogglesGrow
<1> QED BY <1>2, <1>3 DEF RecurringToggle

(* What a pivot counts: leaving and coming back are contact changes,       *)
(* breaking loose is not.                                                  *)
LEMMA PivotCounts ==
  ASSUME LadderInv, NEW s \in Supports, Pivot(s)
  PROVE  /\ (s \in ActiveIn(activeState)) # (s \in ActiveIn(activeState'))
              => Reason(s) \in ContactReasons /\ toggles' = [toggles EXCEPT ![s] = @ + 1]
         /\ s \in ActiveIn(activeState) /\ s \in ActiveIn(activeState') => toggles' = toggles
<1>1. /\ result \in KernelResults(activeState) /\ TypeOK
      /\ Reason(s) # "NONE" /\ toggles' = TogglesAfter(s)
  BY UpdatingIsSolved DEF Pivot, FirstViolator, Violators, LadderInv, TypeInv
<1>2. s \in ActiveIn(activeState') <=> RemainsActive(s)
  BY <1>1, ProposedTyped DEF Pivot, ActiveIn
<1>3. CASE s \in ActiveIn(activeState) /\ s \notin ActiveIn(activeState')
  BY <1>1, <1>2, <1>3 DEF Reason, ContactReasons, TogglesAfter, ActiveIn
<1>4. CASE s \notin ActiveIn(activeState) /\ s \in ActiveIn(activeState')
  <2>1. activeState[s].normal # "ACTIVE"
    BY <1>4 DEF ActiveIn
  <2>2. Restored(s)
    BY <1>2, <1>4, <2>1 DEF RemainsActive, LadderInv, FrozenAreInContact
  <2> QED BY <1>1, <1>4, <2>1, <2>2 DEF Reason, ContactReasons, TogglesAfter
<1>5. CASE s \in ActiveIn(activeState) /\ s \in ActiveIn(activeState')
  <2>1. activeState[s].normal = "ACTIVE" /\ RemainsActive(s)
    BY <1>2, <1>5 DEF ActiveIn
  <2>2. ~Restored(s)
    BY <2>1 DEF Restored
  <2>3. Reason(s) \notin ContactReasons
    BY <2>1, <2>2 DEF Reason, ContactReasons
  <2> QED BY <1>1, <1>5, <2>3 DEF TogglesAfter
<1> QED BY <1>3, <1>4, <1>5

LEMMA PivotClimbs ==
  ASSUME LadderInv, Quiet, PolesAreQuiet, ThirdFreezes, NEW s \in Supports, Pivot(s)
  PROVE  /\ ThirdFreezes'
         /\ Rung(s)' > Rung(s)
         /\ \A t \in Supports \ {s} : Rung(t)' = Rung(t)
<1>1. /\ TypeOK /\ TypeOK' /\ result \in KernelResults(activeState)
      /\ frozen' = frozen /\ toggles' = TogglesAfter(s) /\ ~Freezes(s)
  BY UpdatingIsSolved, TypeInvStep DEF Pivot, LadderInv, TypeInv, Next, SearchStep
<1>2. /\ toggles \in [Supports -> Nat] /\ toggles' \in [Supports -> Nat]
      /\ \A t \in Supports \ {s} : toggles'[t] = toggles[t]
  BY <1>1 DEF TypeOK, TogglesAfter
<1>3. s \notin frozen => toggles[s] <= 2 /\ toggles'[s] <= 2
  BY <1>1, <1>2, ThirdChangeFreezes DEF ThirdFreezes, TogglesAfter
<1>4. ThirdFreezes'
  BY <1>1, <1>2, <1>3 DEF ThirdFreezes
<1>5. \/ /\ s \in ActiveIn(activeState) \ frozen
         /\ ActiveIn(activeState') = ActiveIn(activeState) \ {s}
         /\ SlippingIn(activeState') = SlippingIn(activeState) \ {s}
      \/ /\ s \in Supports \ ActiveIn(activeState)
         /\ ActiveIn(activeState') = ActiveIn(activeState) \cup {s}
         /\ SlippingIn(activeState') = SlippingIn(activeState)
      \/ /\ s \in StickingIn(activeState)
         /\ ActiveIn(activeState') = ActiveIn(activeState)
         /\ SlippingIn(activeState') = SlippingIn(activeState) \cup {s}
  BY PivotMovesOne DEF LadderInv
<1>6. \A t \in Supports \ {s} : Rung(t)' = Rung(t)
  BY <1>1, <1>2, <1>5 DEF Rung
<1>7. /\ SlippingIn(activeState) \subseteq ActiveIn(activeState)
      /\ StickingIn(activeState) \subseteq ActiveIn(activeState) \ SlippingIn(activeState)
  BY DEF SlippingIn, StickingIn
<1>8. Rung(s)' > Rung(s)
  <2>1. CASE s \in ActiveIn(activeState) \ frozen /\ s \notin ActiveIn(activeState')
    <3>1. toggles'[s] = toggles[s] + 1
      BY <1>2, <2>1, PivotCounts
    <3> QED BY <1>1, <1>2, <1>3, <2>1, <3>1 DEF Rung
  <2>2. CASE s \notin ActiveIn(activeState) /\ s \in ActiveIn(activeState')
    <3>1. toggles'[s] = toggles[s] + 1
      BY <1>2, <2>2, PivotCounts
    <3> QED BY <1>1, <1>2, <1>3, <1>5, <1>7, <2>2, <3>1 DEF Rung
  <2>3. CASE /\ s \in ActiveIn(activeState) /\ s \in ActiveIn(activeState')
             /\ s \notin SlippingIn(activeState) /\ s \in SlippingIn(activeState')
    <3>1. toggles' = toggles
      BY <2>3, PivotCounts
    <3> QED BY <1>1, <1>2, <1>3, <2>3, <3>1 DEF Rung
  <2> QED BY <1>5, <1>7, <2>1, <2>2, <2>3
<1> QED BY <1>4, <1>6, <1>8

LEMMA FreezeClimbs ==
  ASSUME LadderInv, ThirdFreezes, NEW s \in Supports, Freeze(s)
  PROVE  /\ ThirdFreezes'
         /\ Rung(s)' > Rung(s)
         /\ \A t \in Supports \ {s} : Rung(t)' = Rung(t)
<1>1. /\ TypeOK /\ Freezes(s) /\ s \notin frozen /\ Reason(s) \in ContactReasons
      /\ frozen' = frozen \cup {s} /\ toggles' = TogglesAfter(s) /\ activeState' = activeState
  BY FreezeIsNew DEF Freeze, LadderInv, TypeInv
<1>2. /\ toggles \in [Supports -> Nat]
      /\ \A t \in Supports \ {s} : toggles'[t] = toggles[t]
  BY <1>1 DEF TypeOK, TogglesAfter
<1>3. ThirdFreezes'
  BY <1>1, <1>2 DEF ThirdFreezes
<1>4. \A t \in Supports \ {s} : Rung(t)' = Rung(t)
  BY <1>1, <1>2 DEF Rung
<1>5. toggles[s] \in 0 .. 2
  BY <1>1, <1>2 DEF ThirdFreezes
<1>6. Rung(s)' > Rung(s)
  BY <1>1, <1>5 DEF Rung
<1> QED BY <1>3, <1>4, <1>6

(* A round taken is a rung climbed.                                        *)
LEMMA RoundClimbs ==
  ASSUME LadderInv, Quiet, PolesAreQuiet, ThirdFreezes, RoundsAreClimbed,
         NEW s \in Supports, Freeze(s) \/ Pivot(s)
  PROVE  ThirdFreezes' /\ RoundsAreClimbed'
<1>1. /\ ThirdFreezes' /\ Rung(s)' > Rung(s)
      /\ \A t \in Supports \ {s} : Rung(t)' = Rung(t)
  BY FreezeClimbs, PivotClimbs
<1>2. TypeOK /\ TypeOK'
  BY TypeInvStep DEF LadderInv, TypeInv, Next, SearchStep
<1>3. Rung(s) \in 0 .. Top /\ Rung(s)' \in 0 .. Top
  BY <1>1, <1>2, RungTyped DEF TypeOK, ThirdFreezes, Rung, Top
<1>4. Cardinality(Climbed') \in Nat /\ Cardinality(Climbed') >= Cardinality(Climbed) + 1
  BY <1>1, <1>3, OneRungMore
<1>5. round' = round + 1 /\ round \in Nat
  BY <1>2 DEF Freeze, Pivot, TypeOK
<1> QED BY <1>1, <1>4, <1>5, ClimbedIsCounted DEF RoundsAreClimbed

(* The last two ways out are refusals: the loop does not run out, and a    *)
(* round in which nothing violates passes its residual.                    *)
LEMMA QuietStep == LadderInv /\ QuietInv /\ [Next]_vars => QuietInv'
<1> SUFFICES ASSUME LadderInv, QuietInv, [Next]_vars, Quiet
             PROVE  PolesAreQuiet' /\ ThirdFreezes' /\ RoundsAreClimbed' /\ QuietSearchSettles'
  BY DEF QuietInv, Quiet
<1>1. PolesAreQuiet /\ ThirdFreezes /\ RoundsAreClimbed /\ QuietSearchSettles /\ TypeOK
  BY DEF QuietInv, LadderInv, TypeInv
<1>2. ASSUME UNCHANGED << activeState, frozen, toggles, round >>
      PROVE  ThirdFreezes' /\ RoundsAreClimbed'
  BY <1>1, <1>2 DEF ThirdFreezes, RoundsAreClimbed, Climbed, Rung, ActiveIn, SlippingIn
<1>3. ASSUME NEW s \in Supports, Freeze(s) \/ Pivot(s)
      PROVE  PolesAreQuiet' /\ ThirdFreezes' /\ RoundsAreClimbed' /\ QuietSearchSettles'
  <2>1. ThirdFreezes' /\ RoundsAreClimbed'
    BY <1>1, <1>3, RoundClimbs
  <2>2. phase' = "solving" /\ UNCHANGED poleTension
    BY <1>3 DEF Freeze, Pivot
  <2> QED BY <1>1, <2>1, <2>2 DEF PolesAreQuiet, QuietSearchSettles
<1>4. CASE Solve
  <2>1. ASSUME NEW s \in Supports PROVE poleTension'[s] <= Admissible
    <3>1. CASE s \in ActiveIn(activeState)
      <4>1. result' \in KernelResults(activeState)
        BY <1>4, SolveAnswers DEF LadderInv
      <4>2. result'.reaction[s].normal \in Normals
        BY <3>1, <4>1 DEF KernelResults, ResultsOver
      <4>3. /\ result'.reaction[s].normal \in Int /\ -result'.reaction[s].normal <= Admissible
            /\ Admissible \in Nat
        BY <4>2, SearchAssumption DEF Quiet
      <4>4. poleTension'[s] = Positive(-result'.reaction[s].normal)
        BY <1>4, <3>1 DEF Solve
      <4> QED BY <4>3, <4>4 DEF Positive
    <3>2. CASE s \notin ActiveIn(activeState)
      <4>1. poleTension'[s] = poleTension[s]
        BY <1>4, <3>2 DEF Solve
      <4> QED BY <1>1, <4>1 DEF PolesAreQuiet
    <3> QED BY <3>1, <3>2
  <2>2. ThirdFreezes' /\ RoundsAreClimbed' /\ phase' # "NON_CONVERGED"
    BY <1>2, <1>4 DEF Solve
  <2> QED BY <2>1, <2>2 DEF PolesAreQuiet, QuietSearchSettles
<1>5. CASE KernelFails
  BY <1>1, <1>2, <1>5 DEF KernelFails, PolesAreQuiet, QuietSearchSettles
<1>6. CASE Conclude
  <2>1. phase' # "NON_CONVERGED"
    BY <1>1, <1>6, UpdatingIsSolved, QuietResidualIsAccepted DEF Conclude, LadderInv
  <2>2. \A t \in Supports : /\ activeState'[t].normal = activeState[t].normal
                            /\ activeState'[t].tangential = activeState[t].tangential
    BY <1>1, <1>6, UpdatingIsSolved, KeptKeepsContact DEF Conclude, LadderInv
  <2>3. /\ ActiveIn(activeState') = ActiveIn(activeState)
        /\ SlippingIn(activeState') = SlippingIn(activeState)
    BY <2>2 DEF ActiveIn, SlippingIn
  <2>4. UNCHANGED << frozen, toggles, round, poleTension >>
    BY <1>6 DEF Conclude
  <2>5. Climbed' = Climbed
    BY <2>3, <2>4 DEF Climbed, Rung
  <2> QED
    BY <1>1, <2>1, <2>4, <2>5
       DEF PolesAreQuiet, ThirdFreezes, RoundsAreClimbed, QuietSearchSettles
<1>7. CASE Exhaust
  <2>1. round = IterationLimit /\ round <= 6 * NumSupports
    BY <1>1, <1>7, ClimbedIsCounted, SearchAssumption DEF Exhaust, RoundsAreClimbed, TypeOK
  <2>2. ~(IterationLimit >= 6 * NumSupports + 1)
    BY <2>1, SearchAssumption
  <2> QED
    BY <1>1, <1>2, <1>7, <2>2 DEF Exhaust, PolesAreQuiet, QuietSearchSettles
<1>8. CASE UNCHANGED vars
  BY <1>1, <1>2, <1>8 DEF vars, PolesAreQuiet, QuietSearchSettles
<1> QED
  BY <1>3, <1>4, <1>5, <1>6, <1>7, <1>8 DEF Next, SearchStep, Finished

(* A quiet search with six rounds per support and one more never ends in   *)
(* NON_CONVERGED.                                                          *)
THEOREM QuietSearchesSettle == Spec => []QuietSearchSettles
<1>1. ASSUME Init PROVE LiftedHoldsNothing /\ QuietInv
  <2>1. LiftedHoldsNothing
    BY <1>1 DEF Init, LiftedHoldsNothing, SeedEntries
  <2>2. PolesAreQuiet /\ ThirdFreezes
    BY <1>1, SearchAssumption DEF Init, Zeros, PolesAreQuiet, ThirdFreezes
  <2>3. RoundsAreClimbed
    BY <1>1, ClimbedIsCounted DEF Init, RoundsAreClimbed
  <2>4. phase # "NON_CONVERGED"
    BY <1>1 DEF Init
  <2> QED BY <2>1, <2>2, <2>3, <2>4 DEF QuietInv, QuietSearchSettles
<1>2. Spec => []LadderInv
  <2>1. Spec => [](TypeInv /\ FrozenAreInContact)
    BY TypeCorrect, FrozenStayInContact, PTL DEF TypeInv
  <2> QED BY <1>1, <2>1, LiftedStep, PTL DEF Spec, LadderInv
<1>3. LadderInv /\ QuietInv => (QuietSearchSettles)
  BY DEF QuietInv, QuietSearchSettles, Quiet
<1> QED BY <1>1, <1>2, <1>3, QuietStep, PTL DEF Spec
=============================================================================
