---------------------- MODULE ChannelWidthSearchProofs ----------------------
(***************************************************************************)
(* Safety of the channel-width search for every first guess, every limit,  *)
(* both kinds of wires and every sequence of router outcomes.              *)
(***************************************************************************)
EXTENDS ChannelWidthSearch, TLAPS

\* In one-directional architectures every width in play is even.
WidthsEven ==
  UniDirectional /\ Searching =>
    /\ current % 2 = 0
    /\ low # Unset => low % 2 = 0
    /\ high # Unset => high % 2 = 0

\* Bounds and guesses are real widths, or Unset.
WidthsPositive ==
  /\ low >= Unset
  /\ Searching => current >= 1
  /\ high # Unset => high >= 1
  /\ final # Unset => final >= 1
  /\ UniDirectional /\ final # Unset => final % 2 = 0

\* No allocated routing has the number the next attempt will use.
IdsUsed ==
  /\ trace_head.id <= attempt_count
  /\ best_routing.id <= attempt_count

\* What the lower bound and the answer rest on while the search runs.
LowRejected ==
  pc = "search" =>
    /\ low # Unset => \/ low \in rejected
                      \/ Fixed /\ low <= FixedWidth - Step
    /\ final # Unset => \/ final - Step \in rejected
                        \/ final <= Step
                        \/ Fixed /\ final <= FixedWidth

\* Where verification stands below the answer, and what failed on the way.
VerifyPosition ==
  /\ pc = "search" => prev_success
  /\ pc = "verify" =>
    /\ Verify
    /\ final = Unset => current < 1
    /\ final # Unset =>
        /\ prev_success => final - current \in {Step, 2}
        /\ ~prev_success =>
             /\ current + Step \in rejected
             /\ prev2_success => final - current - Step \in {Step, 2}
             /\ ~prev2_success => /\ current + 2 * Step \in rejected
                                  /\ final - current - 2 * Step \in {Step, 2}

\* With a fixed width nothing narrower is ever in play.
AboveFixed ==
  Fixed => /\ Searching => current >= FixedWidth /\ low >= FixedWidth - Step
           /\ high # Unset => high >= FixedWidth
           /\ final # Unset => final >= FixedWidth

IInv == /\ TypeOK /\ WidthsEven /\ WidthsPositive /\ IdsUsed
        /\ BestIsBound /\ OneOwner /\ Bracketed /\ NoAssertFailure
        /\ LowRejected /\ VerifyPosition /\ SearchIsTight /\ VerifiedTwoBelow
        /\ ReturnedConsistent

USE DEF Unset

LEMMA Widths == Step \in {1, 2} /\ (UniDirectional <=> Step = 2)
  BY ModeAssumption DEF Step

THEOREM InitInv == Init => IInv
<1> SUFFICES ASSUME Init PROVE IInv
  OBVIOUS
<1>1. PICK w \in StartWidths : current = FirstGuess(w)
  BY DEF Init
<1>2. w \in Nat /\ w >= 1
  BY WidthAssumption
<1>3. current \in Int /\ current >= 1 /\ low \in Int /\ low >= Unset /\ low < current
  BY <1>1, <1>2, Widths, WidthAssumption DEF FirstGuess, Fixed, Init
<1>4. UniDirectional => current % 2 = 0 /\ (low # Unset => low % 2 = 0)
  BY <1>1, <1>2, Widths, WidthAssumption, EvenAssumption DEF FirstGuess, Fixed, Init
<1>5. TypeOK
  BY <1>3 DEF Init, TypeOK, Routings, NoRouting
<1>6. WidthsEven /\ WidthsPositive /\ Bracketed
  BY <1>3, <1>4 DEF Init, WidthsEven, WidthsPositive, Bracketed, Searching
<1>7. IdsUsed /\ BestIsBound /\ OneOwner
  BY DEF Init, IdsUsed, BestIsBound, Searching, OneOwner, Held, NoRouting
<1>8. LowRejected
  BY DEF Init, LowRejected
<1>9. VerifyPosition /\ NoAssertFailure /\ SearchIsTight /\ VerifiedTwoBelow /\ ReturnedConsistent
  BY DEF Init, VerifyPosition, NoAssertFailure, SearchIsTight, VerifiedTwoBelow, ReturnedConsistent
<1> QED
  BY <1>5, <1>6, <1>7, <1>8, <1>9 DEF IInv

-----------------------------------------------------------------------------
(* The storage: what an attempt does to the two routings and to `live`.    *)

StorageOK == /\ trace_head \in Routings /\ best_routing \in Routings
             /\ live \subseteq Routings
             /\ IdsUsed /\ OneOwner

LEMMA KeepFailedStorage ==
  ASSUME TypeOK, IdsUsed, OneOwner, KeepFailed, attempt_count' = attempt_count + 1
  PROVE  StorageOK' /\ rejected' \subseteq Int
<1>1. NewRouting(FALSE) \in Routings /\ NewRouting(FALSE) # NoRouting
  BY DEF TypeOK, NewRouting, Routings, NoRouting
<1>2. NewRouting(FALSE) # best_routing /\ NewRouting(FALSE).id = attempt_count + 1
  BY DEF TypeOK, NewRouting, Routings, IdsUsed
<1>3. IdsUsed'
  <2>1. trace_head'.id = attempt_count + 1 /\ best_routing'.id = best_routing.id
    BY <1>2 DEF KeepFailed
  <2>2. attempt_count \in Nat /\ best_routing.id \in Nat /\ best_routing.id <= attempt_count
    BY DEF TypeOK, Routings, IdsUsed
  <2> QED
    BY <2>1, <2>2 DEF IdsUsed
<1>4. OneOwner'
  BY <1>1, <1>2 DEF OneOwner, KeepFailed, LiveAfterTry, Held
<1> QED
  BY <1>1, <1>3, <1>4 DEF StorageOK, TypeOK, KeepFailed, LiveAfterTry

LEMMA SaveRoutingStorage ==
  ASSUME TypeOK, IdsUsed, OneOwner, SaveRouting, attempt_count' = attempt_count + 1
  PROVE  StorageOK' /\ best_routing'.legal /\ best_routing'.width = current
<1>1. /\ NewRouting(TRUE) \in Routings /\ NewRouting(TRUE) # NoRouting
      /\ NoRouting \in Routings
  BY DEF TypeOK, NewRouting, Routings, NoRouting
<1>2. /\ NewRouting(TRUE) # best_routing /\ NewRouting(TRUE).id = attempt_count + 1
      /\ NewRouting(TRUE).legal /\ NewRouting(TRUE).width = current
  BY DEF TypeOK, NewRouting, Routings, IdsUsed
<1>3. IdsUsed'
  <2>1. trace_head'.id = 0 /\ best_routing'.id = attempt_count + 1
    BY <1>2 DEF SaveRouting, NoRouting
  <2>2. attempt_count \in Nat
    BY DEF TypeOK
  <2> QED
    BY <2>1, <2>2 DEF IdsUsed
<1>4. OneOwner'
  BY <1>1, <1>2 DEF OneOwner, SaveRouting, LiveAfterTry, Held
<1> QED
  BY <1>1, <1>2, <1>3, <1>4 DEF StorageOK, TypeOK, SaveRouting, LiveAfterTry

-----------------------------------------------------------------------------
(* The arithmetic of the next guess.                                       *)

LEMMA NarrowerGuessBounds ==
  ASSUME IInv, Searching, current # high,
         ~(current - (IF low > 0 THEN low ELSE 0) <= Step)
  PROVE  /\ NarrowerGuess \in Int /\ NarrowerGuess >= 1
         /\ low < NarrowerGuess /\ NarrowerGuess < current
         /\ UniDirectional => NarrowerGuess % 2 = 0
         /\ low = Unset => Below(current) < current
<1>1. current \in Int /\ current >= 1 /\ low \in Int /\ low >= Unset
  BY DEF IInv, TypeOK, WidthsPositive
<1>2. UniDirectional => current % 2 = 0 /\ (low # Unset => low % 2 = 0)
  BY DEF IInv, WidthsEven
<1>3. CASE low # Unset
  <2>1. NarrowerGuess = RoundUp((current + low) \div 2)
    BY <1>3 DEF NarrowerGuess
  <2> QED
    BY <1>1, <1>2, <1>3, <2>1, Widths DEF RoundUp
<1>4. CASE low = Unset
  <2>1. NarrowerGuess = RoundUp(Below(current)) /\ current > Step
    BY <1>1, <1>4, Widths DEF NarrowerGuess
  <2>2. CASE UsingHint /\ attempt_count = 0
    <3>1. Below(current) = IF current - ((10 * current) \div 11) < Step
                           THEN current - Step ELSE (10 * current) \div 11
      BY <2>2 DEF Below
    <3> QED
      BY <1>1, <1>2, <1>4, <2>1, <3>1, Widths DEF RoundUp
  <2>3. CASE ~(UsingHint /\ attempt_count = 0)
    <3>1. Below(current) = IF current - (current \div 2) < Step
                           THEN current - Step ELSE current \div 2
      BY <2>3 DEF Below
    <3> QED
      BY <1>1, <1>2, <1>4, <2>1, <3>1, Widths DEF RoundUp
  <2> QED
    BY <2>2, <2>3
<1> QED
  BY <1>3, <1>4

LEMMA BelowIsLess ==
  ASSUME IInv, Searching
  PROVE  Below(current) < current
<1>1. current \in Int /\ current >= 1
  BY DEF IInv, TypeOK, WidthsPositive
<1> QED
  BY <1>1, Widths DEF Below

LEMMA WiderGuessBounds ==
  ASSUME IInv, Searching, high # Unset => high - current > Step
  PROVE  /\ WiderGuess \in Int /\ WiderGuess >= 1
         /\ current < WiderGuess
         /\ high # Unset => WiderGuess < high
         /\ UniDirectional => WiderGuess % 2 = 0
         /\ high = Unset => current < Above(current)
<1>1. current \in Int /\ current >= 1 /\ high \in Int /\ (high # Unset => high >= 1)
  BY DEF IInv, TypeOK, WidthsPositive
<1>2. UniDirectional => current % 2 = 0 /\ (high # Unset => high % 2 = 0)
  BY DEF IInv, WidthsEven
<1>3. CASE high # Unset
  <2>1. WiderGuess = RoundUp((high + current) \div 2)
    BY <1>3 DEF WiderGuess
  <2> QED
    BY <1>1, <1>2, <1>3, <2>1, Widths DEF RoundUp
<1>4. CASE high = Unset
  <2>1. WiderGuess = RoundUp(Above(current)) /\ current >= Step
    BY <1>1, <1>2, <1>4, Widths DEF WiderGuess
  <2>2. Above(current) = IF Fixed THEN current + 5 * Step ELSE 2 * current
    BY <1>1, <2>1, Widths DEF Above
  <2> QED
    BY <1>1, <1>2, <1>4, <2>1, <2>2, Widths DEF RoundUp
<1> QED
  BY <1>3, <1>4

-----------------------------------------------------------------------------
(* One lemma per action: it preserves the inductive invariant.             *)

LEMMA SearchSuccessInv == ASSUME IInv, SearchSuccess PROVE IInv'
<1>1. /\ current \in Int /\ current >= 1 /\ low \in Int /\ low >= Unset
      /\ low < current /\ (high # Unset => current < high) /\ high \in Int
      /\ Searching /\ pc = "search" /\ final = Unset
  BY DEF IInv, TypeOK, WidthsPositive, Bracketed, SearchSuccess, Searching
<1>2. /\ high' = current /\ low' = low /\ chan_width' = current
      /\ attempt_count' = attempt_count + 1 /\ rejected' = rejected
      /\ prev_success' = prev_success /\ prev2_success' = prev2_success
      /\ current' = NarrowerGuess
  BY DEF SearchSuccess, SaveRouting
<1>3. pc' = "search"
  BY <1>1, BelowIsLess, Widths DEF SearchSuccess, Below
<1>4. StorageOK' /\ best_routing'.legal /\ best_routing'.width = current
  BY SaveRoutingStorage DEF SearchSuccess, IInv
<1>5. final' \in {Unset, current}
  BY DEF SearchSuccess
<1>6. final' = Unset => ~(current = high) /\ ~(current - (IF low > 0 THEN low ELSE 0) <= Step)
  BY <1>1 DEF SearchSuccess, NoMoreSteps
<1>7. final' = Unset => /\ NarrowerGuess \in Int /\ NarrowerGuess >= 1
                        /\ low < NarrowerGuess /\ NarrowerGuess < current
                        /\ UniDirectional => NarrowerGuess % 2 = 0
  BY <1>1, <1>6, NarrowerGuessBounds
<1>8. NarrowerGuess \in Int
  BY <1>1, Widths DEF NarrowerGuess, Below, RoundUp
<1>9. TypeOK'
  BY <1>1, <1>2, <1>3, <1>4, <1>5, <1>8 DEF IInv, TypeOK, StorageOK
<1>10. UniDirectional => current % 2 = 0 /\ (low # Unset => low % 2 = 0)
  BY <1>1 DEF IInv, WidthsEven
<1>11. WidthsEven' /\ WidthsPositive' /\ Bracketed'
  BY <1>1, <1>2, <1>3, <1>5, <1>7, <1>10
     DEF IInv, WidthsEven, WidthsPositive, Bracketed, Searching
<1>12. IdsUsed' /\ OneOwner'
  BY <1>4 DEF StorageOK
<1>13. BestIsBound'
  BY <1>1, <1>2, <1>3, <1>4, <1>5 DEF BestIsBound, Searching
<1>14. final' # Unset => \/ current - Step = low
                         \/ current <= Step
  <2>1. SUFFICES ASSUME final' # Unset
                 PROVE  current - Step = low \/ current <= Step
    OBVIOUS
  <2>2. current - (IF low > 0 THEN low ELSE 0) <= Step
    BY <1>1, <2>1 DEF SearchSuccess, NoMoreSteps
  <2>3. CASE low > 0
    BY <1>1, <1>10, <2>2, <2>3, Widths
  <2>4. CASE ~(low > 0)
    BY <1>1, <2>2, <2>4
  <2> QED
    BY <2>3, <2>4
<1>15. LowRejected'
  BY <1>1, <1>2, <1>3, <1>5, <1>14, Widths, WidthAssumption DEF IInv, LowRejected, Fixed
<1>16. VerifyPosition' /\ NoAssertFailure' /\ SearchIsTight' /\ VerifiedTwoBelow' /\ ReturnedConsistent'
  BY <1>1, <1>2, <1>3 DEF IInv, VerifyPosition, NoAssertFailure, SearchIsTight,
                          VerifiedTwoBelow, ReturnedConsistent
<1> QED
  BY <1>9, <1>11, <1>12, <1>13, <1>15, <1>16 DEF IInv

LEMMA SearchFailureInv == ASSUME IInv, SearchFailure PROVE IInv'
<1>1. /\ current \in Int /\ current >= 1 /\ low \in Int /\ low >= Unset
      /\ low < current /\ (high # Unset => current < high /\ high >= 1) /\ high \in Int
      /\ Searching /\ pc = "search" /\ final = Unset
  BY DEF IInv, TypeOK, WidthsPositive, Bracketed, SearchFailure, Searching
<1>2. /\ low' = current /\ high' = high /\ chan_width' = current
      /\ attempt_count' = attempt_count + 1 /\ rejected' = rejected \cup {current}
      /\ prev_success' = prev_success /\ prev2_success' = prev2_success
      /\ current' = WiderGuess /\ best_routing' = best_routing
  BY DEF SearchFailure, KeepFailed
<1>3. pc' \in {"search", "unroutable"} /\ (high # Unset => pc' = "search")
  <2>1. high = Unset /\ ~Fixed => Above(current) > current
    BY <1>1, WiderGuessBounds
  <2> QED
    BY <1>1, <2>1, Widths DEF SearchFailure, Above
<1>4. StorageOK' /\ rejected' \subseteq Int
  BY KeepFailedStorage DEF SearchFailure, IInv
<1>5. /\ final' \in {Unset, high}
      /\ final' # Unset => high - current <= Step
      /\ final' = Unset /\ high # Unset => high - current > Step
  BY <1>1, Widths DEF SearchFailure, NoMoreSteps
<1>6. final' = Unset => /\ WiderGuess \in Int /\ WiderGuess >= 1
                        /\ current < WiderGuess
                        /\ high # Unset => WiderGuess < high
                        /\ UniDirectional => WiderGuess % 2 = 0
  BY <1>1, <1>5, WiderGuessBounds
<1>7. WiderGuess \in Int
  BY <1>1, Widths DEF WiderGuess, Above, RoundUp
<1>8. TypeOK'
  BY <1>1, <1>2, <1>3, <1>4, <1>5, <1>7 DEF IInv, TypeOK, StorageOK
<1>9. UniDirectional => current % 2 = 0 /\ (high # Unset => high % 2 = 0)
  BY <1>1 DEF IInv, WidthsEven
<1>10. WidthsEven' /\ WidthsPositive' /\ Bracketed'
  <2>1. WidthsEven'
    BY <1>1, <1>2, <1>5, <1>6, <1>9 DEF WidthsEven, Searching
  <2>2. WidthsPositive'
    <3>1. final' # Unset => final' = high /\ high # Unset
      BY <1>5
    <3>2. final' # Unset => final' >= 1 /\ (UniDirectional => final' % 2 = 0)
      BY <1>1, <1>9, <3>1
    <3> QED
      BY <1>1, <1>2, <1>6, <3>2 DEF WidthsPositive, Searching
  <2>3. Bracketed'
    BY <1>1, <1>2, <1>5, <1>6 DEF Bracketed, Searching
  <2> QED
    BY <2>1, <2>2, <2>3
<1>11. IdsUsed' /\ OneOwner'
  BY <1>4 DEF StorageOK
<1>12. BestIsBound'
  BY <1>1, <1>2, <1>3, <1>5 DEF IInv, BestIsBound, Searching
<1>13. final' # Unset => final' - Step = current
  <2>1. SUFFICES ASSUME final' # Unset PROVE final' - Step = current
    OBVIOUS
  <2>2. final' = high /\ high - current <= Step /\ current < high
    BY <1>1, <1>5, <2>1
  <2> QED
    BY <1>1, <1>9, <2>1, <2>2, Widths
<1>14. LowRejected'
  BY <1>1, <1>2, <1>3, <1>13 DEF LowRejected
<1>15. VerifyPosition' /\ NoAssertFailure' /\ SearchIsTight' /\ VerifiedTwoBelow' /\ ReturnedConsistent'
  BY <1>1, <1>2, <1>3 DEF IInv, VerifyPosition, NoAssertFailure, SearchIsTight,
                          VerifiedTwoBelow, ReturnedConsistent
<1> QED
  BY <1>8, <1>10, <1>11, <1>12, <1>14, <1>15 DEF IInv

LEMMA EndSearchInv == ASSUME IInv, EndSearch PROVE IInv'
<1>1. /\ pc = "search" /\ prev_success /\ high \in Int /\ final \in Int /\ current \in Int
      /\ high # Unset => high >= 1
      /\ final # Unset => final >= 1
      /\ final = Unset => Searching
  BY DEF IInv, TypeOK, WidthsPositive, VerifyPosition, EndSearch, Searching
<1>2. /\ final' = IF final # Unset THEN final ELSE high
      /\ pc' = IF Verify THEN "verify" ELSE "restore"
      /\ current' = IF Verify THEN final' - 2 ELSE current
      /\ rejected' = IF Verify THEN {} ELSE rejected
      /\ UNCHANGED <<low, high, attempt_count, prev_success, prev2_success,
                     chan_width, trace_head, best_routing, live>>
  BY DEF EndSearch
<1>3. TypeOK' /\ IdsUsed' /\ OneOwner' /\ NoAssertFailure'
  <2>1. final' \in Int /\ current' \in Int
    BY <1>1, <1>2
  <2>2. rejected' = {} \/ rejected' = rejected
    BY <1>2
  <2>3. rejected' \subseteq Int
    BY <2>2 DEF IInv, TypeOK
  <2> QED
    BY <1>1, <1>2, <2>1, <2>3 DEF IInv, TypeOK, IdsUsed, OneOwner, NoAssertFailure
<1>4. UniDirectional /\ final' # Unset => final' % 2 = 0
  BY <1>1, <1>2 DEF IInv, WidthsEven, WidthsPositive
<1>5. WidthsEven' /\ Bracketed' /\ LowRejected'
  BY <1>2 DEF WidthsEven, Bracketed, LowRejected, Searching
<1>6. WidthsPositive'
  BY <1>1, <1>2, <1>4 DEF IInv, WidthsPositive, Searching
<1>7. BestIsBound'
  BY <1>1, <1>2 DEF IInv, BestIsBound, Searching
<1>8. VerifyPosition'
  BY <1>1, <1>2 DEF VerifyPosition
<1>9. SearchIsTight'
  <2>1. CASE Verify
    BY <1>2, <2>1 DEF SearchIsTight
  <2>2. CASE ~Verify /\ final # Unset
    BY <1>1, <1>2, <2>2 DEF IInv, LowRejected, SearchIsTight
  <2>3. CASE ~Verify /\ final = Unset
    BY <1>1, <1>2, <2>3 DEF EndSearch, BelowFs, SearchIsTight
  <2> QED
    BY <2>1, <2>2, <2>3
<1>10. VerifiedTwoBelow' /\ ReturnedConsistent'
  BY <1>2 DEF VerifiedTwoBelow, ReturnedConsistent
<1> QED
  BY <1>3, <1>5, <1>6, <1>7, <1>8, <1>9, <1>10 DEF IInv

LEMMA VerifyTryInv ==
  ASSUME IInv, NEW success \in BOOLEAN, VerifyTry(success)
  PROVE  IInv'
<1>1. /\ pc = "verify" /\ pc' = "verify" /\ Verify
      /\ current \in Int /\ current >= 1 /\ final \in Int /\ final # Unset
      /\ low \in Int /\ high \in Int /\ prev_success \in BOOLEAN
      /\ prev_success \/ prev2_success
  BY DEF IInv, TypeOK, VerifyPosition, VerifyTry, Verifying
<1>2. /\ prev2_success' = prev_success /\ prev_success' = success
      /\ current' = current - Step /\ chan_width' = current
      /\ attempt_count' = attempt_count + 1
      /\ low' = low /\ high' = high
      /\ final' = IF success THEN current ELSE final
  BY DEF VerifyTry
<1>3. StorageOK' /\ rejected' \subseteq Int
  <2>1. CASE success
    BY <2>1, SaveRoutingStorage DEF VerifyTry, SaveRouting, IInv, TypeOK
  <2>2. CASE ~success
    BY <2>2, KeepFailedStorage DEF VerifyTry, IInv
  <2> QED
    BY <2>1, <2>2
<1>4. TypeOK'
  BY <1>1, <1>2, <1>3, Widths DEF IInv, TypeOK, StorageOK
<1>5. IdsUsed' /\ OneOwner'
  BY <1>3 DEF StorageOK
<1>6. UniDirectional /\ success => current % 2 = 0
  <2>1. SUFFICES ASSUME UniDirectional, success PROVE current % 2 = 0
    OBVIOUS
  <2>2. final % 2 = 0 /\ Step = 2
    BY <1>1, <2>1, Widths DEF IInv, WidthsPositive
  <2>3. \/ final - current = 2 \/ final - current - 2 = 2 \/ final - current - 4 = 2
    BY <1>1, <2>2 DEF IInv, VerifyPosition
  <2> QED
    BY <1>1, <2>2, <2>3
<1>7. WidthsEven' /\ Bracketed' /\ LowRejected' /\ NoAssertFailure'
  BY <1>1 DEF WidthsEven, Bracketed, LowRejected, NoAssertFailure, Searching
<1>8. WidthsPositive'
  BY <1>1, <1>2, <1>6 DEF IInv, WidthsPositive, Searching
<1>9. BestIsBound'
  <2>1. CASE success
    <3>1. best_routing'.legal /\ best_routing'.width = current
      BY <2>1, <1>2, SaveRoutingStorage DEF VerifyTry, IInv
    <3> QED
      BY <1>1, <1>2, <2>1, <3>1 DEF BestIsBound, Searching
  <2>2. CASE ~success
    BY <1>1, <1>2, <2>2 DEF IInv, BestIsBound, Searching, VerifyTry, KeepFailed
  <2> QED
    BY <2>1, <2>2
<1>10. VerifyPosition'
  <2>1. CASE success
    BY <1>1, <1>2, <2>1, Widths DEF VerifyPosition
  <2>2. CASE ~success
    <3>1. rejected' = rejected \cup {current}
      BY <2>2 DEF VerifyTry, KeepFailed
    <3>2. CASE prev_success
      BY <1>1, <1>2, <2>2, <3>1, <3>2, Widths DEF IInv, VerifyPosition
    <3>3. CASE ~prev_success
      <4>1. /\ current + Step \in rejected
            /\ final - current - Step \in {Step, 2}
        BY <1>1, <3>3 DEF IInv, VerifyPosition
      <4>2. current' + Step = current /\ current' + 2 * Step = current + Step
        BY <1>1, <1>2, Widths
      <4>3. final' - current' - 2 * Step = final - current - Step
        BY <1>1, <1>2, <2>2, Widths
      <4> QED
        BY <1>1, <1>2, <2>2, <3>1, <3>3, <4>1, <4>2, <4>3 DEF VerifyPosition
    <3> QED
      BY <3>2, <3>3
  <2> QED
    BY <2>1, <2>2
<1>11. SearchIsTight' /\ VerifiedTwoBelow' /\ ReturnedConsistent'
  BY <1>1 DEF SearchIsTight, VerifiedTwoBelow, ReturnedConsistent
<1> QED
  BY <1>4, <1>5, <1>7, <1>8, <1>9, <1>10, <1>11 DEF IInv

LEMMA EndVerifyInv == ASSUME IInv, EndVerify PROVE IInv'
<1>1. /\ pc = "verify" /\ pc' = "restore" /\ Verify /\ ~Verifying
      /\ current \in Int /\ final \in Int /\ prev_success \in BOOLEAN
      /\ UNCHANGED <<current, low, high, final, attempt_count, prev_success,
                     prev2_success, chan_width, trace_head, best_routing, live, rejected>>
  BY DEF IInv, TypeOK, VerifyPosition, EndVerify
<1>2. VerifiedTwoBelow'
  <2> DEFINE Floor == IF Fixed THEN FixedWidth ELSE 1
  <2>1. SUFFICES ASSUME final # Unset
                 PROVE  \E first \in {final - 1, final - 2} : \A w \in {first, first - Step} :
                          w >= Floor => w \in rejected
    BY <1>1 DEF VerifiedTwoBelow
  <2>2. Floor \in Int /\ Floor >= 1
    BY WidthAssumption DEF Fixed
  <2>3. prev_success \/ prev2_success => current < Floor
    BY <1>1, <2>2, WidthAssumption DEF Verifying, Fixed
  <2>4. CASE prev_success
    <3>1. current < Floor /\ current \in {final - 1, final - 2}
      BY <1>1, <2>1, <2>3, <2>4, Widths DEF IInv, VerifyPosition
    <3> HIDE DEF Floor
    <3> QED
      BY <1>1, <2>2, <3>1, Widths
  <2>5. CASE ~prev_success /\ prev2_success
    <3>1. /\ current < Floor /\ current + Step \in {final - 1, final - 2}
          /\ current + Step \in rejected
      BY <1>1, <2>1, <2>3, <2>5, Widths DEF IInv, VerifyPosition
    <3>2. (current + Step) - Step = current
      BY <1>1, Widths
    <3> HIDE DEF Floor
    <3> QED
      BY <1>1, <2>2, <3>1, <3>2, Widths
  <2>6. CASE ~prev_success /\ ~prev2_success
    <3>1. /\ current + 2 * Step \in {final - 1, final - 2}
          /\ current + 2 * Step \in rejected /\ current + Step \in rejected
      BY <1>1, <2>1, <2>6, Widths DEF IInv, VerifyPosition
    <3>2. (current + 2 * Step) - Step = current + Step
      BY <1>1, Widths
    <3> QED
      BY <3>1, <3>2
  <2> QED
    BY <2>4, <2>5, <2>6
<1>3. TypeOK' /\ IdsUsed' /\ OneOwner' /\ NoAssertFailure' /\ BestIsBound'
  BY <1>1 DEF IInv, TypeOK, IdsUsed, OneOwner, NoAssertFailure, BestIsBound, Searching
<1>4. WidthsEven' /\ Bracketed' /\ LowRejected' /\ VerifyPosition'
      /\ SearchIsTight' /\ ReturnedConsistent'
  BY <1>1 DEF WidthsEven, Bracketed, LowRejected, VerifyPosition, Searching,
              SearchIsTight, ReturnedConsistent
<1>5. WidthsPositive'
  BY <1>1 DEF IInv, WidthsPositive, Searching
<1> QED
  BY <1>2, <1>3, <1>4, <1>5 DEF IInv

LEMMA RestoreInv == ASSUME IInv, Restore PROVE IInv'
<1>1. /\ pc = "restore" /\ pc' = "done" /\ chan_width' = final
      /\ trace_head' = best_routing /\ best_routing' = NoRouting
      /\ live' = live \ Held(trace_head)
      /\ UNCHANGED <<current, low, high, final, attempt_count, prev_success,
                     prev2_success, rejected>>
  BY DEF Restore
<1>2. TypeOK'
  BY <1>1 DEF IInv, TypeOK, NoRouting, Routings
<1>3. IdsUsed'
  BY <1>1 DEF IInv, TypeOK, IdsUsed, NoRouting
<1>4. OneOwner'
  BY <1>1 DEF IInv, OneOwner, Held
<1>5. ReturnedConsistent'
  BY <1>1 DEF IInv, TypeOK, WidthsPositive, BestIsBound, Searching, ReturnedConsistent
<1>6. WidthsPositive'
  BY <1>1 DEF IInv, WidthsPositive, Searching
<1>7. WidthsEven' /\ Bracketed' /\ LowRejected' /\ VerifyPosition' /\ NoAssertFailure'
      /\ SearchIsTight' /\ VerifiedTwoBelow' /\ BestIsBound'
  BY <1>1 DEF WidthsEven, Bracketed, LowRejected, VerifyPosition, Searching,
              NoAssertFailure, SearchIsTight, VerifiedTwoBelow, BestIsBound
<1> QED
  BY <1>2, <1>3, <1>4, <1>5, <1>6, <1>7 DEF IInv

LEMMA GiveUpInv == ASSUME IInv, GiveUp PROVE IInv'
<1>1. /\ pc' = "unroutable"
      /\ UNCHANGED <<current, low, high, final, attempt_count, prev_success,
                     prev2_success, chan_width, trace_head, best_routing, live, rejected>>
  BY DEF GiveUp
<1>2. TypeOK' /\ IdsUsed' /\ OneOwner'
  BY <1>1 DEF IInv, TypeOK, IdsUsed, OneOwner
<1>3. WidthsPositive'
  BY <1>1 DEF IInv, WidthsPositive, Searching
<1> QED
  BY <1>1, <1>2, <1>3
     DEF IInv, WidthsEven, Bracketed, LowRejected, VerifyPosition, Searching, NoAssertFailure,
         SearchIsTight, VerifiedTwoBelow, BestIsBound, ReturnedConsistent

LEMMA StepInv == IInv /\ [Next]_vars => IInv'
<1> SUFFICES ASSUME IInv, [Next]_vars PROVE IInv'
  OBVIOUS
<1>1. CASE UNCHANGED vars
  BY <1>1 DEF vars, IInv, TypeOK, WidthsEven, WidthsPositive, IdsUsed, BestIsBound, OneOwner,
              Bracketed, NoAssertFailure, LowRejected, VerifyPosition, SearchIsTight,
              VerifiedTwoBelow, ReturnedConsistent, Searching, BelowFs
<1> QED
  BY <1>1, GiveUpInv, SearchSuccessInv, SearchFailureInv, EndSearchInv, VerifyTryInv,
     EndVerifyInv, RestoreInv DEF Next

-----------------------------------------------------------------------------
(* A fixed width is a floor.                                               *)

FixedInv == IInv /\ AboveFixed /\ NeverBelowFixed

LEMMA FixedInit == Init => FixedInv
<1> SUFFICES ASSUME Init PROVE AboveFixed /\ NeverBelowFixed
  BY InitInv DEF FixedInv
<1> QED
  BY Widths, WidthAssumption DEF Init, AboveFixed, NeverBelowFixed, FirstGuess, Fixed

LEMMA FixedStep == FixedInv /\ [Next]_vars => FixedInv'
<1> SUFFICES ASSUME FixedInv, [Next]_vars, Fixed
             PROVE  (AboveFixed /\ NeverBelowFixed)'
  BY StepInv DEF FixedInv, AboveFixed, NeverBelowFixed
<1>1. /\ IInv /\ FixedWidth \in Nat /\ FixedWidth >= 1
      /\ UniDirectional => FixedWidth % 2 = 0
      /\ current \in Int /\ low \in Int /\ high \in Int /\ final \in Int
      /\ high # Unset => high >= FixedWidth
      /\ final # Unset => final >= FixedWidth
      /\ Searching => current >= FixedWidth /\ low >= FixedWidth - Step
      /\ chan_width # Unset => chan_width >= FixedWidth
  BY WidthAssumption, EvenAssumption
     DEF FixedInv, IInv, TypeOK, AboveFixed, NeverBelowFixed, Fixed
<1>2. CASE UNCHANGED vars
  BY <1>1, <1>2 DEF vars, AboveFixed, NeverBelowFixed, Searching
<1>3. CASE SearchSuccess
  <2>1. /\ Searching /\ high' = current /\ low' = low /\ chan_width' = current
        /\ current' = NarrowerGuess /\ final' \in {Unset, current}
    BY <1>3 DEF SearchSuccess
  <2>2. final' = Unset => current # high /\ ~(current - (IF low > 0 THEN low ELSE 0) <= Step)
    BY <1>1, <1>3, <2>1 DEF SearchSuccess, NoMoreSteps, IInv, TypeOK, WidthsPositive
  <2>3. final' = Unset => /\ NarrowerGuess \in Int /\ low < NarrowerGuess
                          /\ UniDirectional => NarrowerGuess % 2 = 0
    BY <1>1, <2>1, <2>2, NarrowerGuessBounds
  <2>4. Searching' => current' >= FixedWidth
    <3> SUFFICES ASSUME Searching' PROVE NarrowerGuess >= FixedWidth
      BY <2>1
    <3>1. final' = Unset
      BY DEF Searching
    <3> QED
      BY <1>1, <2>1, <2>3, <3>1, Widths
  <2> QED
    BY <1>1, <2>1, <2>4 DEF AboveFixed, NeverBelowFixed, Searching
<1>4. CASE SearchFailure
  <2>1. /\ Searching /\ high' = high /\ low' = current /\ chan_width' = current
        /\ current' = WiderGuess /\ final' \in {Unset, high}
        /\ final' = Unset /\ high # Unset => ~(high - current <= Step)
    BY <1>1, <1>4 DEF SearchFailure, KeepFailed, NoMoreSteps
  <2>2. final' = Unset => WiderGuess \in Int /\ current < WiderGuess
    BY <1>1, <2>1, Widths, WiderGuessBounds
  <2> QED
    BY <1>1, <2>1, <2>2, Widths DEF AboveFixed, NeverBelowFixed, Searching
<1>5. ASSUME NEW success \in BOOLEAN, VerifyTry(success)
      PROVE  (AboveFixed /\ NeverBelowFixed)'
  BY <1>1, <1>5 DEF VerifyTry, Verifying, AboveFixed, NeverBelowFixed, Searching
<1>6. CASE EndSearch
  BY <1>1, <1>6 DEF EndSearch, AboveFixed, NeverBelowFixed, Searching
<1>7. CASE GiveUp \/ EndVerify
  BY <1>1, <1>7 DEF GiveUp, EndVerify, AboveFixed, NeverBelowFixed, Searching
<1>8. CASE Restore
  BY <1>1, <1>8 DEF Restore, AboveFixed, NeverBelowFixed, Searching
<1> QED
  BY <1>2, <1>3, <1>4, <1>5, <1>6, <1>7, <1>8 DEF Next

-----------------------------------------------------------------------------
(* The theorems.                                                           *)

THEOREM Safety == Spec => []IInv
  BY InitInv, StepInv, PTL DEF Spec

\* Types, for every value of the constants.
THEOREM TypeCorrect == Spec => []TypeOK
<1>1. IInv => TypeOK
  BY DEF IInv
<1> QED
  BY Safety, <1>1, PTL

\* Whatever was tried since, the saved routing is the one of the best width.
THEOREM SavedRouting == Spec => []BestIsBound
<1>1. IInv => BestIsBound
  BY DEF IInv
<1> QED
  BY Safety, <1>1, PTL

\* A returned width comes with a legal routing of that width on a graph of
\* that width.
THEOREM ReturnedRouting == Spec => []ReturnedConsistent
<1>1. IInv => ReturnedConsistent
  BY DEF IInv
<1> QED
  BY Safety, <1>1, PTL

\* save_routing, try_route and restore_routing neither leak nor free twice.
THEOREM Ownership == Spec => []OneOwner
<1>1. IInv => OneOwner
  BY DEF IInv
<1> QED
  BY Safety, <1>1, PTL

\* The guess stays strictly between the bounds.
THEOREM GuessInsideBounds == Spec => []Bracketed
<1>1. IInv => Bracketed
  BY DEF IInv
<1> QED
  BY Safety, <1>1, PTL

\* No assertion on the guess (place_and_route.cpp) fails.
THEOREM AssertionsHold == Spec => []NoAssertFailure
<1>1. IInv => NoAssertFailure
  BY DEF IInv
<1> QED
  BY Safety, <1>1, PTL

\* One step below the answer failed, or could not be tried.
THEOREM AnswerIsTight == Spec => []SearchIsTight
<1>1. IInv => SearchIsTight
  BY DEF IInv
<1> QED
  BY Safety, <1>1, PTL

\* With --verify_binary_search two widths in a row below the answer failed.
THEOREM VerifiedAnswer == Spec => []VerifiedTwoBelow
<1>1. IInv => VerifiedTwoBelow
  BY DEF IInv
<1> QED
  BY Safety, <1>1, PTL

\* Once an answer is known it is only replaced by a smaller one.
THEOREM FinalShrinks == Spec => FinalOnlyShrinks
<1>1. IInv /\ [Next]_vars => [final # Unset => final' <= final /\ final' # Unset]_vars
  <2> SUFFICES ASSUME IInv, Next, final # Unset
               PROVE  final' <= final /\ final' # Unset
    OBVIOUS
  <2>1. final \in Int /\ current \in Int /\ prev_success \in BOOLEAN
    BY DEF IInv, TypeOK
  <2>2. CASE GiveUp \/ SearchSuccess \/ SearchFailure \/ EndSearch \/ EndVerify \/ Restore
    BY <2>1, <2>2 DEF GiveUp, SearchSuccess, SearchFailure, EndSearch, EndVerify, Restore, Searching
  <2>3. ASSUME NEW success \in BOOLEAN, VerifyTry(success)
        PROVE  final' <= final /\ final' # Unset
    BY <2>1, <2>3, Widths DEF VerifyTry, Verifying, IInv, VerifyPosition
  <2> QED
    BY <2>2, <2>3 DEF Next
<1> QED
  BY Safety, <1>1, PTL DEF Spec, FinalOnlyShrinks

\* A search at a fixed width never builds a graph narrower than that width.
THEOREM FixedIsFloor == Spec => []NeverBelowFixed
<1>1. FixedInv => NeverBelowFixed
  BY DEF FixedInv
<1> QED
  BY FixedInit, FixedStep, <1>1, PTL DEF Spec
=============================================================================
