------------------------- MODULE ChannelWidthSearch -------------------------
(***************************************************************************)
(* The search for the minimum routable channel width                       *)
(* (vpr/src/base/place_and_route.cpp, binary_search_place_and_route) and   *)
(* the hand-over of the routing between the router's working storage and   *)
(* the best routing found so far (vpr/src/route/route_common.cpp,          *)
(* save_routing and restore_routing).                                      *)
(*                                                                         *)
(* One call of try_route is one step: it frees the working routing,        *)
(* rebuilds the routing-resource graph for the width and leaves a new      *)
(* routing, legal or still congested.  Whether a width routes is not a     *)
(* function of the width (the code's own comment speaks of "router         *)
(* flukiness"), so each attempt may end either way.                        *)
(*                                                                         *)
(* An operator called X_Y is a wrong X: a mistake that could be made in    *)
(* the code X models, which the properties tell from X.                    *)
(***************************************************************************)
EXTENDS Integers

CONSTANTS UniDirectional,  \* directionality == UNI_DIRECTIONAL
          Fs,              \* det_routing_arch->Fs
          FixedWidth,      \* router_opts.fixed_channel_width, or Unset
          StartWidths,     \* first guesses: the user's hint or the pins per tile
          UsingHint,       \* using_minw_hint: the first guess is the user's hint
          Verify,          \* verify_binary_search
          WidthLimit       \* the code gives up above this width (1000)

Unset == -1             \* NO_FIXED_CHANNEL_WIDTH, and "not known yet" in the search
Step  == IF UniDirectional THEN 2 ELSE 1
Fixed == FixedWidth # Unset

ASSUME ModeAssumption  == /\ UniDirectional \in BOOLEAN
                          /\ UsingHint \in BOOLEAN
                          /\ Verify \in BOOLEAN
ASSUME WidthAssumption == /\ WidthLimit \in Nat
                          /\ Fs \in Nat
                          /\ FixedWidth \in {Unset} \cup (Nat \ {0})
                          /\ StartWidths \subseteq Nat \ {0}
\* The program rejects odd widths when the wires have one direction.
ASSUME EvenAssumption  == UniDirectional =>
                            /\ UsingHint => \A w \in StartWidths : w % 2 = 0
                            /\ Fixed => FixedWidth % 2 = 0
\* A hint is only looked at when no width is fixed.
ASSUME HintAssumption  == UsingHint => ~Fixed

VARIABLES pc,            \* "search", "verify", "restore", "done", "unroutable", "assert"
          current, low, high, final,
          attempt_count, \* attempts so far; numbers the routings
          prev_success, prev2_success,
          chan_width,    \* width the routing-resource graph was last built for
          trace_head,    \* the router's working routing
          best_routing,  \* the routing kept by save_routing
          live,          \* routings whose trace elements are allocated
          rejected       \* widths that failed in the current phase (history)

vars == <<pc, current, low, high, final, attempt_count, prev_success,
          prev2_success, chan_width, trace_head, best_routing, live, rejected>>

-----------------------------------------------------------------------------
(* Routings: which attempt produced one, at which width, and if it is legal *)

NoRouting == [id |-> 0, width |-> 0, legal |-> FALSE]
Held(routing) == {routing} \ {NoRouting}

\* try_route: the old working routing is freed and a new one is left.
NewRouting(success) ==
  [id |-> attempt_count + 1, width |-> current, legal |-> success]
LiveAfterTry(success) == (live \ Held(trace_head)) \cup {NewRouting(success)}

\* try_route failed: a congested routing stays in the working storage.
KeepFailed ==
  /\ trace_head' = NewRouting(FALSE)
  /\ live' = LiveAfterTry(FALSE)
  /\ rejected' = rejected \cup {current}
  /\ UNCHANGED best_routing

\* save_routing: free what was saved, move the working routing, and null the
\* working storage so that the next attempt cannot free the saved routing.
SaveRouting_KeepWorking ==
  /\ best_routing' = NewRouting(TRUE)
  /\ trace_head' = NewRouting(TRUE)
  /\ live' = LiveAfterTry(TRUE) \ Held(best_routing)
  /\ UNCHANGED rejected

SaveRouting_FirstOnly ==
  /\ best_routing' = IF best_routing = NoRouting THEN NewRouting(TRUE) ELSE best_routing
  /\ trace_head' = IF best_routing = NoRouting THEN NoRouting ELSE NewRouting(TRUE)
  /\ live' = LiveAfterTry(TRUE)
  /\ UNCHANGED rejected

SaveRouting ==
  /\ best_routing' = NewRouting(TRUE)
  /\ trace_head' = NoRouting
  /\ live' = LiveAfterTry(TRUE) \ Held(best_routing)
  /\ UNCHANGED rejected

-----------------------------------------------------------------------------
(* The binary search                                                       *)

RoundUp(width) == width + (width % Step)
FirstGuess(width) == IF Fixed THEN FixedWidth + 5 * Step
                     ELSE IF UsingHint THEN width ELSE width + (width % 2)

Init ==
  /\ pc = "search"
  /\ \E w \in StartWidths : current = FirstGuess(w)
  /\ low = IF Fixed THEN FixedWidth - Step ELSE Unset
  /\ high = Unset /\ final = Unset
  /\ attempt_count = 0
  /\ prev_success = TRUE /\ prev2_success = TRUE
  /\ chan_width = Unset
  /\ trace_head = NoRouting /\ best_routing = NoRouting /\ live = {}
  /\ rejected = {}

\* "No more steps" between two widths.
NoMoreSteps_Loose(upper, lower) == upper - lower <= 2 * Step
NoMoreSteps(upper, lower) == upper - lower <= Step

TooWide == current > (IF Fixed THEN 4 * FixedWidth ELSE WidthLimit)
BelowFs == current * 3 < Fs
Searching == pc = "search" /\ final = Unset

GiveUp ==
  /\ Searching /\ TooWide
  /\ pc' = "unroutable"
  /\ UNCHANGED <<current, low, high, final, attempt_count, prev_success,
                 prev2_success, chan_width, trace_head, best_routing, live, rejected>>

\* The next guess after a success: midway to the lower bound, or a fraction
\* of the width (half of it; 1/1.1 of it after a hint) but at least one step less.
Below_NoMinimumStep(width) ==
  IF UsingHint /\ attempt_count = 0 THEN (10 * width) \div 11 ELSE width \div 2
Below(width) ==
  LET scaled == IF UsingHint /\ attempt_count = 0 THEN (10 * width) \div 11
                                                  ELSE width \div 2
  IN  IF width - scaled < Step THEN width - Step ELSE scaled
NarrowerGuess ==
  RoundUp(IF low # Unset THEN (current + low) \div 2 ELSE Below(current))

SearchSuccess ==
  /\ Searching /\ ~TooWide /\ ~BelowFs
  /\ SaveRouting
  /\ high' = current
  /\ final' = IF \/ current = high
                 \/ NoMoreSteps(current, IF low > 0 THEN low ELSE 0)
              THEN current ELSE Unset
  /\ pc' = IF low = Unset /\ Below(current) >= current THEN "assert" ELSE "search"
  /\ current' = NarrowerGuess
  /\ attempt_count' = attempt_count + 1
  /\ chan_width' = current
  /\ UNCHANGED <<low, prev_success, prev2_success>>

\* The next guess after a failure with no upper bound yet.
Above(width) ==
  IF Fixed THEN width + 5 * Step
  ELSE IF width < Step THEN high + Step ELSE 2 * width
WiderGuess ==
  RoundUp(IF high # Unset THEN (high + current) \div 2 ELSE Above(current))

SearchFailure ==
  /\ Searching /\ ~TooWide /\ ~BelowFs
  /\ KeepFailed
  /\ low' = current
  /\ final' = IF high # Unset /\ NoMoreSteps(high, current) THEN high ELSE Unset
  /\ pc' = IF high # Unset THEN "search"
           ELSE IF Fixed /\ current >= FixedWidth + 30 THEN "unroutable"
           ELSE IF ~Fixed /\ Above(current) <= current THEN "assert" ELSE "search"
  /\ current' = WiderGuess
  /\ attempt_count' = attempt_count + 1
  /\ chan_width' = current
  /\ UNCHANGED <<high, prev_success, prev2_success>>

EndSearch_NoBreak ==
  /\ pc = "search"
  /\ final # Unset \/ (~TooWide /\ BelowFs /\ high # Unset)
  /\ final' = IF final # Unset THEN final ELSE high
  /\ pc' = IF Verify THEN "verify" ELSE "restore"
  /\ current' = IF Verify THEN final' - 2 ELSE current
  /\ rejected' = IF Verify THEN {} ELSE rejected
  /\ UNCHANGED <<low, high, attempt_count, prev_success, prev2_success,
                 chan_width, trace_head, best_routing, live>>

\* The loop ends, on a final width or below Fs; verification starts two lower.
EndSearch_StartAbove ==
  /\ pc = "search"
  /\ final # Unset \/ (~TooWide /\ BelowFs)
  /\ final' = IF final # Unset THEN final ELSE high
  /\ pc' = IF Verify THEN "verify" ELSE "restore"
  /\ current' = IF Verify THEN final' + 2 ELSE current
  /\ rejected' = IF Verify THEN {} ELSE rejected
  /\ UNCHANGED <<low, high, attempt_count, prev_success, prev2_success,
                 chan_width, trace_head, best_routing, live>>

EndSearch ==
  /\ pc = "search"
  /\ final # Unset \/ (~TooWide /\ BelowFs)
  /\ final' = IF final # Unset THEN final ELSE high
  /\ pc' = IF Verify THEN "verify" ELSE "restore"
  /\ current' = IF Verify THEN final' - 2 ELSE current
  /\ rejected' = IF Verify THEN {} ELSE rejected
  /\ UNCHANGED <<low, high, attempt_count, prev_success, prev2_success,
                 chan_width, trace_head, best_routing, live>>

-----------------------------------------------------------------------------
(* Verification of the search, and the end                                 *)

Verifying_OneFailure ==
  /\ prev_success
  /\ Fixed => current >= FixedWidth
  /\ current >= 1

Verifying_NoFloor == prev_success \/ prev2_success

Verifying ==
  /\ prev_success \/ prev2_success
  /\ Fixed => current >= FixedWidth
  /\ current >= 1

VerifyTry(success) ==
  /\ pc = "verify" /\ Verifying
  /\ IF success THEN SaveRouting ELSE KeepFailed
  /\ final' = IF success THEN current ELSE final
  /\ prev2_success' = prev_success
  /\ prev_success' = success
  /\ current' = current - Step
  /\ attempt_count' = attempt_count + 1
  /\ chan_width' = current
  /\ UNCHANGED <<pc, low, high>>

EndVerify ==
  /\ pc = "verify" /\ ~Verifying
  /\ pc' = "restore"
  /\ UNCHANGED <<current, low, high, final, attempt_count, prev_success,
                 prev2_success, chan_width, trace_head, best_routing, live, rejected>>

\* Rebuild the graph for the final width, then restore_routing: free the
\* working routing and put the saved one in its place.
Restore_NoRebuild ==
  /\ pc = "restore"
  /\ pc' = "done"
  /\ live' = live \ Held(trace_head)
  /\ trace_head' = best_routing
  /\ best_routing' = NoRouting
  /\ UNCHANGED <<current, low, high, final, attempt_count, prev_success,
                 prev2_success, rejected, chan_width>>

Restore ==
  /\ pc = "restore"
  /\ pc' = "done"
  /\ chan_width' = final
  /\ live' = live \ Held(trace_head)
  /\ trace_head' = best_routing
  /\ best_routing' = NoRouting
  /\ UNCHANGED <<current, low, high, final, attempt_count, prev_success,
                 prev2_success, rejected>>

Next == \/ GiveUp \/ SearchSuccess \/ SearchFailure \/ EndSearch
        \/ \E success \in BOOLEAN : VerifyTry(success)
        \/ EndVerify \/ Restore

Spec == Init /\ [][Next]_vars

\* One thread runs the search and every try_route call returns.
FairSpec == Spec /\ WF_vars(Next)

-----------------------------------------------------------------------------
(* Properties                                                              *)

Routings == [id : Nat, width : Int, legal : BOOLEAN]

\* Every variable stays in its type.
TypeOK ==
  /\ pc \in {"search", "verify", "restore", "done", "unroutable", "assert"}
  /\ current \in Int
  /\ low \in {Unset} \cup Nat
  /\ high \in {Unset} \cup (Nat \ {0}) /\ final \in {Unset} \cup (Nat \ {0})
  /\ attempt_count \in Nat
  /\ prev_success \in BOOLEAN /\ prev2_success \in BOOLEAN
  /\ chan_width \in Int
  /\ trace_head \in Routings /\ best_routing \in Routings
  /\ live \subseteq Routings
  /\ rejected \subseteq Int

\* The saved routing is always the one of the width the search would return:
\* `final` once it is known, `high` before.  A failed attempt in between, at
\* any width, changes neither (place_and_route.cpp, save_routing calls).
BestIsBound ==
  LET bound == IF Searching THEN high ELSE final
  IN  pc \in {"search", "verify", "restore"} =>
        IF bound = Unset THEN best_routing = NoRouting
        ELSE best_routing.legal /\ best_routing.width = bound

\* When the function returns a width, the loaded routing is legal and is a
\* routing of that width, on a graph built for that width; when it returns
\* none, no routing is loaded (the caller reports success iff final > 0).
ReturnedConsistent ==
  pc = "done" => /\ chan_width = final
                 /\ IF final > 0 THEN trace_head.legal /\ trace_head.width = final
                                 ELSE final = Unset /\ trace_head = NoRouting

\* Trace memory has one owner: what is allocated is exactly the working and
\* the saved routing, which never share elements.  So neither try_route nor
\* restore_routing can free the saved routing, and nothing leaks.
OneOwner ==
  /\ live = Held(trace_head) \cup Held(best_routing)
  /\ trace_head = best_routing => trace_head = NoRouting

\* While the search goes on its guess lies strictly inside the bounds, after
\* rounding to even widths too: no width is attempted twice.
Bracketed ==
  Searching => /\ low < current
               /\ high # Unset => current < high

\* The widths that the assertions in the search compare never fail them.
NoAssertFailure == pc # "assert"

\* The search ends with a width one step above one that failed, unless it was
\* stopped by the smallest width, by Fs, or at the fixed width it searches for.
SearchIsTight ==
  pc = "restore" /\ ~Verify /\ final # Unset =>
    \/ final - Step \in rejected
    \/ final <= Step
    \/ BelowFs
    \/ Fixed /\ final <= FixedWidth

\* "the router keeps trying smaller channel widths until two in a row fail":
\* after verification two consecutive widths below the answer have failed, as
\* far as there are such widths to try.
VerifiedTwoBelow ==
  pc = "restore" /\ Verify /\ final # Unset =>
    \E first \in {final - 1, final - 2} : \A w \in {first, first - Step} :
      w >= (IF Fixed THEN FixedWidth ELSE 1) => w \in rejected

\* A search for Wneed = f(Fs) never builds a graph narrower than the fixed width.
NeverBelowFixed ==
  Fixed /\ chan_width # Unset => chan_width >= FixedWidth

\* The search always ends: with an answer, or by reporting the circuit unroutable.
Terminates == <>(pc \in {"done", "unroutable"})

\* The answer is only ever improved: once known, `final` never grows.
FinalOnlyShrinks == [][final # Unset => final' <= final /\ final' # Unset]_vars
=============================================================================
