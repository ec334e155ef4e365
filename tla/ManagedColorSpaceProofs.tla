----------------------- MODULE ManagedColorSpaceProofs -----------------------
(***************************************************************************)
(* ManagedColorSpace for any threads, in any roles, any color spaces and   *)
(* any number of requests: type correctness, the safety invariants that do *)
(* not depend on who may race whom, and the refinement of                  *)
(* ColorSpaceOwnership.                                                    *)
(***************************************************************************)
EXTENDS ManagedColorSpace, TLAPS

-----------------------------------------------------------------------------
(* What each method of ManagedColorSpaceState does to the state.           *)

\* Updating one field of a well-typed state keeps it well typed.
LEMMA FieldUpdate ==
    ASSUME NEW m \in ManagedState
    PROVE  /\ \A b \in BOOLEAN :
                /\ [m EXCEPT !.desired = b] \in ManagedState
                /\ [m EXCEPT !.pending = b] \in ManagedState
                /\ [m EXCEPT !.inProgress = b] \in ManagedState
                /\ [m EXCEPT !.latched = b] \in ManagedState
           /\ \A c \in ColorSpaces \cup {NoColorSpace} :
                [m EXCEPT !.restore = c] \in ManagedState
           /\ [m EXCEPT !.epoch = m.epoch + 1] \in ManagedState
  <1>1. [m EXCEPT !.epoch = m.epoch + 1] \in ManagedState
   BY DEF ManagedState
  <1> QED BY <1>1 DEF ManagedState

\* Arming a direction changes desired, pending and epoch, and nothing else.
LEMMA ArmEffect ==
    ASSUME NEW m \in ManagedState, NEW hdr \in BOOLEAN
    PROVE  /\ Arm(m, hdr) \in ManagedState
           /\ Arm(m, hdr).epoch = m.epoch + 1
           /\ Arm(m, hdr).desired = hdr
           /\ Arm(m, hdr).pending
           /\ Arm(m, hdr).restore = m.restore
           /\ Arm(m, hdr).inProgress = m.inProgress
           /\ Arm(m, hdr).latched = m.latched
  <1> DEFINE a == [m EXCEPT !.desired = hdr]
             b == [a EXCEPT !.pending = TRUE]
             c == [b EXCEPT !.epoch = b.epoch + 1]
  <1>1. a \in ManagedState
    BY FieldUpdate
  <1>2. b \in ManagedState
    BY <1>1, FieldUpdate
  <1>3. c \in ManagedState
    BY <1>2, FieldUpdate
  <1>4. b.epoch = m.epoch 
    BY DEF ManagedState
  <1>5. Arm(m, hdr) = c
    BY <1>4 DEF Arm
  <1>6. /\ Arm(m, hdr).epoch = m.epoch + 1
        /\ Arm(m, hdr).desired = hdr
        /\ Arm(m, hdr).pending
    BY DEF Arm, ManagedState
  <1>7. /\ Arm(m, hdr).restore = m.restore
        /\ Arm(m, hdr).inProgress = m.inProgress
        /\ Arm(m, hdr).latched = m.latched
    BY DEF Arm, ManagedState
  <1> QED BY <1>5, <1>3, <1>6, <1>7

\* request either leaves the state alone or arms the requested direction under
\* a new epoch; it never arms HDR once a failure is latched.
LEMMA RequestEffect ==
    ASSUME NEW m \in ManagedState, NEW hdr \in BOOLEAN, NEW c \in ColorSpaces
    PROVE  LET n == Request(m, hdr, c)
           IN  /\ n \in ManagedState
               /\ \/ /\ n = m
                     /\ hdr = FALSE => ~Owning(m) \/ ~m.desired
                  \/ /\ n.epoch = m.epoch + 1
                     /\ n.pending /\ n.desired = hdr
                     /\ n.inProgress = m.inProgress /\ n.latched = m.latched
                     /\ hdr => ~m.latched
                     /\ n.restore # NoColorSpace
                     /\ Owning(m) => n.restore = m.restore /\ m.desired # hdr
                     /\ ~Owning(m) => n.restore = c /\ hdr
  <1> DEFINE n == Request(m, hdr, c)
  <1>1. CASE ~Accepts(m, hdr) \/ (~Owning(m) /\ ~hdr)
             \/ (Owning(m) /\ m.desired = hdr)
    BY <1>1 DEF Request, Accepts
  <1>2. CASE Accepts(m, hdr) /\ hdr /\ ~Owning(m)
    <2> DEFINE r == [m EXCEPT !.restore = c]
    <2>1. n = Arm(r, TRUE) /\ r \in ManagedState
      BY <1>2, FieldUpdate DEF Request
    <2>2. /\ r.restore = c /\ r.epoch = m.epoch
          /\ r.inProgress = m.inProgress /\ r.latched = m.latched
      BY DEF ManagedState
    <2>3. c # NoColorSpace
      BY ColorSpaceAssumption
    <2> HIDE DEF r, n
    <2>4. /\ n \in ManagedState /\ n.epoch = r.epoch + 1
          /\ n.desired = TRUE /\ n.pending /\ n.restore = r.restore
          /\ n.inProgress = r.inProgress /\ n.latched = r.latched
      BY <2>1, ArmEffect
    <2> QED
      BY <1>2, <2>2, <2>3, <2>4 DEF Accepts, n
  <1>3. CASE Accepts(m, hdr) /\ Owning(m) /\ m.desired # hdr
    <2>1. n = Arm(m, hdr)
      BY <1>3 DEF Request
    <2> QED
      BY <1>3, <2>1, ArmEffect DEF Accepts, Owning
  <1> QED
    BY <1>1, <1>2, <1>3

\* finish_transition always ends the transition, releases the baseline only
\* for a current restoration that succeeded, and arms a restoration only for
\* a current PQ submission that failed.
LEMMA FinishEffect ==
    ASSUME NEW m \in ManagedState, NEW tr \in Transition, NEW ok \in BOOLEAN
    PROVE  LET n == Finish(m, tr, ok)
           IN  /\ n \in ManagedState
               /\ ~n.inProgress
               /\ n.latched = (m.latched \/ ~ok)
               /\ \/ /\ n.epoch = m.epoch /\ n.desired = m.desired
                     /\ n.pending = m.pending /\ n.restore = m.restore
                     /\ (ok /\ tr.epoch = m.epoch) => tr.enabling
                  \/ /\ tr.epoch = m.epoch /\ ~tr.enabling /\ ok
                     /\ n.epoch = m.epoch /\ n.desired = m.desired
                     /\ n.pending = m.pending /\ ~Owning(n)
                     /\ n.restore = NoColorSpace
                  \/ /\ tr.epoch = m.epoch /\ tr.enabling /\ ~ok
                     /\ n.epoch = m.epoch + 1 /\ ~n.desired
                     /\ n.pending /\ n.restore = m.restore
  <1> DEFINE n == Finish(m, tr, ok)
             done == [m EXCEPT !.inProgress = FALSE]
             failed == [done EXCEPT !.latched = TRUE]
  <1>a. /\ done \in ManagedState /\ failed \in ManagedState
        /\ [done EXCEPT !.restore = NoColorSpace] \in ManagedState
    BY FieldUpdate
  <1>b. /\ ~failed.inProgress /\ failed.latched /\ failed.epoch = m.epoch
        /\ failed.desired = m.desired /\ failed.pending = m.pending
        /\ failed.restore = m.restore
    BY DEF ManagedState
  <1> USE DEF Owning, Transition
  <1>1. CASE ok /\ tr.epoch = m.epoch /\ ~tr.enabling
    <2>1. n = [done EXCEPT !.restore = NoColorSpace]
      BY <1>1 DEF Finish
    <2> QED
      BY <1>a, <1>1, <2>1 DEF ManagedState
  <1>2. CASE ok /\ ~(tr.epoch = m.epoch /\ ~tr.enabling)
    <2>1. n = done
      BY <1>2 DEF Finish
    <2> QED
      BY <1>a, <1>2, <2>1 DEF ManagedState
  <1>3. CASE ~ok /\ tr.epoch = m.epoch /\ tr.enabling
    <2>1. n = Arm(failed, FALSE)
      BY <1>3 DEF Finish
    <2> HIDE DEF failed
    <2>a. /\ Arm(failed, FALSE) \in ManagedState
          /\ Arm(failed, FALSE).epoch = failed.epoch + 1
          /\ Arm(failed, FALSE).desired = FALSE
          /\ Arm(failed, FALSE).pending
          /\ Arm(failed, FALSE).restore = failed.restore
          /\ Arm(failed, FALSE).inProgress = failed.inProgress
          /\ Arm(failed, FALSE).latched = failed.latched
      BY <1>a, ArmEffect
    <2> HIDE DEF n
    <2>2. /\ n \in ManagedState /\ n.epoch = failed.epoch + 1
          /\ n.desired = FALSE /\ n.pending /\ n.restore = failed.restore
          /\ n.inProgress = failed.inProgress /\ n.latched = failed.latched
      BY <2>a, <2>1
    <2> USE DEF n
    <2>3. n.epoch = m.epoch + 1
      BY <1>b, <2>2
    <2> QED
      BY <1>b, <1>3, <2>2, <2>3
  <1>4. CASE ~ok /\ ~(tr.epoch = m.epoch /\ tr.enabling)
    <2>1. n = failed
      BY <1>4 DEF Finish
    <2> HIDE DEF failed
    <2> QED
      BY <1>a, <1>b, <1>4, <2>1
  <1> QED
    BY <1>1, <1>2, <1>3, <1>4

\* A reconfiguration can only make a transition pending again.
LEMMA ReapplyEffect ==
    ASSUME NEW m \in ManagedState
    PROVE  LET n == Reapply(m)
           IN  /\ n \in ManagedState
               /\ \/ n = m
                  \/ /\ n = [m EXCEPT !.pending = TRUE]
                     /\ Owning(m) /\ ~m.latched
  BY DEF Reapply, Owning, ManagedState

\* An external set does nothing, settles the current request, or relinquishes
\* the swap chain for good under a new epoch.
LEMMA ObserveEffect ==
    ASSUME NEW m \in ManagedState, NEW c \in ColorSpaces
    PROVE  LET n == ObserveExternalSet(m, c)
           IN  /\ n \in ManagedState
               /\ \/ n = m
                  \/ /\ Owning(m)
                     /\ n.epoch = m.epoch /\ n.desired = m.desired
                     /\ ~n.pending /\ n.latched = m.latched
                     /\ n.inProgress = m.inProgress
                     /\ n.restore = IF m.desired THEN m.restore
                                    ELSE NoColorSpace
                  \/ /\ Owning(m)
                     /\ n.epoch = m.epoch + 1 /\ n.latched
                     /\ ~n.desired /\ ~n.pending /\ ~n.inProgress
                     /\ n.restore = NoColorSpace
  <1> DEFINE n == ObserveExternalSet(m, c)
  <1> USE DEF Owning
  <1>1. CASE ~Owning(m)
    BY <1>1 DEF ObserveExternalSet
  <1>2. CASE Owning(m) /\ c = Expected(m)
    <2> DEFINE a == [m EXCEPT !.pending = FALSE]
               r == IF m.desired THEN m.restore ELSE NoColorSpace
    <2>1. n = [a EXCEPT !.restore = r]
      BY <1>2 DEF ObserveExternalSet, ManagedState
    <2>2. a \in ManagedState /\ r \in ColorSpaces \cup {NoColorSpace}
      <3>1. a \in ManagedState
        BY FieldUpdate
      <3>2. r \in ColorSpaces \cup {NoColorSpace}
        BY DEF ManagedState
      <3> QED
        BY <3>1, <3>2
    <2>3. n \in ManagedState
      <3> HIDE DEF a, r, n
      <3> QED
        BY <2>1, <2>2, FieldUpdate
    <2>4. /\ n.epoch = m.epoch /\ n.desired = m.desired /\ ~n.pending
          /\ n.latched = m.latched /\ n.inProgress = m.inProgress
          /\ n.restore = r
      BY <2>1 DEF ManagedState
    <2> QED
      BY <1>2, <2>3, <2>4
  <1>3. CASE Owning(m) /\ c # Expected(m)
    <2>1. n = Relinquish(m)
      BY <1>3 DEF ObserveExternalSet
    <2> DEFINE a == [m EXCEPT !.restore = NoColorSpace]
               b == [a EXCEPT !.desired = FALSE]
               d == [b EXCEPT !.pending = FALSE]
               e == [d EXCEPT !.inProgress = FALSE]
               f == [e EXCEPT !.latched = TRUE]
               g == [f EXCEPT !.epoch = f.epoch + 1]
    <2>2. a \in ManagedState
      BY FieldUpdate
    <2>3. b \in ManagedState
      BY <2>2, FieldUpdate
    <2>4. d \in ManagedState
      BY <2>3, FieldUpdate
    <2>5. e \in ManagedState
      BY <2>4, FieldUpdate
    <2>6. f \in ManagedState
      BY <2>5, FieldUpdate
    <2>7. g \in ManagedState
      BY <2>6, FieldUpdate
    <2>8. n = g
      BY <2>1 DEF Relinquish, ManagedState
    <2>9. /\ n.epoch = m.epoch + 1 /\ n.latched /\ ~n.desired /\ ~n.pending
          /\ ~n.inProgress /\ n.restore = NoColorSpace
      BY <2>1 DEF Relinquish, ManagedState
    <2> QED
      BY <1>3, <2>7, <2>8, <2>9
  <1> QED
    BY <1>1, <1>2, <1>3

-----------------------------------------------------------------------------
\* The initial state is well typed.
LEMMA TypeInit == Init => TypeOK
  <1> SUFFICES ASSUME Init PROVE TypeOK
    OBVIOUS
  <1>1. managed \in ManagedState
    BY DEF Init, ManagedState
  <1>2. transition \in [Threads -> Transition]
    BY ColorSpaceAssumption DEF Init, NoTransition, Transition
  <1>3. pc \in [Threads -> Locations]
    BY DEF Init, Locations
  <1> QED
    BY <1>1, <1>2, <1>3, ColorSpaceAssumption DEF Init, TypeOK

\* Every step keeps every variable's type.
LEMMA TypeStep == TypeOK /\ [Next]_vars => TypeOK'
  <1> SUFFICES ASSUME TypeOK, [Next]_vars PROVE TypeOK'
    OBVIOUS
  <1> USE DEF TypeOK, Goto, Locations
  <1>1. ASSUME NEW t \in Queriers, Query(t) PROVE TypeOK'
    <2>1. CASE QueryEnable(t)
      <3>1. managed' = Request(managed, TRUE, observed)
        BY <2>1 DEF QueryEnable
      <3>2. managed' \in ManagedState
        BY <3>1, RequestEffect
      <3> QED
        BY <2>1, <3>2 DEF QueryEnable
    <2>2. CASE QueryRefused(t)
      BY <2>2 DEF QueryRefused, Threads
    <2> QED
      BY <1>1, <2>1, <2>2 DEF Query
  <1>2. ASSUME NEW t \in Presenters, PresentBegin(t) PROVE TypeOK'
    <2>1. managed' \in ManagedState
      <3>1. managed' = [managed EXCEPT !.pending = FALSE, !.inProgress = TRUE]
        BY <1>2 DEF PresentBegin, Begin
      <3> QED
        BY <3>1 DEF ManagedState
    <2>2. TransitionOf(managed) \in Transition
      BY <1>2, ColorSpaceAssumption
         DEF PresentBegin, CanBegin, TransitionOf, Expected, Owning,
             ManagedState, Transition
    <2> QED
      BY <1>2, <2>1, <2>2 DEF PresentBegin, Threads
  <1>3. ASSUME NEW t \in Setters, NEW c \in ColorSpaces, ExternalSet(t, c)
        PROVE  TypeOK'
    BY <1>3 DEF ExternalSet, Threads
  <1>4. ASSUME NEW t \in Resizers, Reconfigure(t) PROVE TypeOK'
    BY <1>4, ColorSpaceAssumption DEF Reconfigure, Threads
  <1>5. ASSUME NEW t \in Threads, Present(t) PROVE TypeOK'
    <2>1. CASE ValidateAccept(t)
      BY <2>1 DEF ValidateAccept
    <2>2. CASE ValidateReject(t)
      BY <2>2 DEF ValidateReject
    <2>3. CASE SetColorSpaceSucceeds(t)
      BY <1>5, <2>3 DEF SetColorSpaceSucceeds, Transition
    <2>4. CASE SetColorSpaceFails(t)
      BY <2>4 DEF SetColorSpaceFails
    <2>5. CASE PresentFinish(t)
      <3>1. transition[t] \in Transition /\ outcome[t] \in BOOLEAN
        BY <1>5
      <3>2. managed' \in ManagedState
        BY <2>5, <3>1, FinishEffect DEF PresentFinish
      <3>3. observed' \in ColorSpaces
        BY <2>5, <3>1 DEF PresentFinish, Transition
      <3>4. NoTransition \in Transition
        BY ColorSpaceAssumption DEF NoTransition, Transition
      <3> QED
        BY <2>5, <3>2, <3>3, <3>4 DEF PresentFinish
    <2> QED
      BY <1>5, <2>1, <2>2, <2>3, <2>4, <2>5 DEF Present
  <1>6. ASSUME NEW t \in Threads, QueryWithdraw(t) PROVE TypeOK'
    BY <1>6, RequestEffect DEF QueryWithdraw
  <1>7. ASSUME NEW t \in Threads, ExternalObserved(t) PROVE TypeOK'
    <2>1. requested[t] \in ColorSpaces
      BY <1>7
    <2>2. managed' \in ManagedState
      BY <1>7, <2>1, ObserveEffect DEF ExternalObserved
    <2> QED
      BY <1>7, <2>1, <2>2, ColorSpaceAssumption DEF ExternalObserved
  <1>8. ASSUME NEW t \in Threads, ReconfigureDone(t) PROVE TypeOK'
    BY <1>8, ReapplyEffect DEF ReconfigureDone
  <1>9. CASE UNCHANGED vars
    BY <1>9 DEF vars
  <1> QED
    BY <1>1, <1>2, <1>3, <1>4, <1>5, <1>6, <1>7, <1>8, <1>9
       DEF Next, Continue

\* Every variable keeps its type: the state machine's fields, the thread
\* locations, the transitions in flight and the recorded color spaces.
THEOREM TypeCorrect == Spec => []TypeOK
  BY TypeInit, TypeStep, PTL DEF Spec

-----------------------------------------------------------------------------
(* The inductive invariant. A transition in flight is marked as such unless *)
(* the swap chain was relinquished, after which nothing can begin; it never *)
(* carries an epoch of the future; and the one late PQ submission uses up   *)
(* the request that was armed before the failure.                           *)

Relinquished == managed.latched /\ ~Owning(managed)

InFlightIsMarked ==
    \A t \in Threads : InFlight(t) => managed.inProgress \/ Relinquished

InFlightIsPast ==
    \A t \in Threads : InFlight(t) => transition[t].epoch <= managed.epoch

RetryIsSpent ==
    \/ lateEnables = 0
    \/ /\ lateEnables = 1 /\ managed.latched
       /\ ~(managed.desired /\ managed.pending)

IInv ==
    /\ TypeOK
    /\ AtMostOneTransition
    /\ DesiredHasBaseline
    /\ CurrentTransitionIsDesired
    /\ NoForgottenRestore
    /\ InFlightIsMarked
    /\ InFlightIsPast
    /\ RetryIsSpent

\* Nothing is in flight, owned or late at the start.
LEMMA InvInit == Init => IInv
  <1> SUFFICES ASSUME Init PROVE IInv
    OBVIOUS
  <1>1. \A t \in Threads : ~InFlight(t)
    BY DEF Init, InFlight
  <1>2. /\ managed.restore = NoColorSpace /\ ~managed.desired
        /\ lateEnables = 0
    BY DEF Init
  <1> QED
    BY <1>1, <1>2, TypeInit
       DEF IInv, AtMostOneTransition, DesiredHasBaseline,
           CurrentTransitionIsDesired, NoForgottenRestore, InFlightIsMarked,
           InFlightIsPast, RetryIsSpent, Owning

\* Steps that leave the state machine alone and move no thread into or out of
\* a managed transition.
LEMMA UnmovedKeepsInv ==
    ASSUME IInv, TypeOK',
           UNCHANGED <<managed, transition, lateEnables>>,
           \A t \in Threads : InFlight(t)' = InFlight(t)
    PROVE  IInv'
  BY DEF IInv, AtMostOneTransition, DesiredHasBaseline, Relinquished, Owning,
         CurrentTransitionIsDesired, NoForgottenRestore, InFlightIsMarked,
         InFlightIsPast, RetryIsSpent

\* A request under the lock, whatever is in flight. A transition in flight
\* carries an older epoch than the one the request arms.
LEMMA RequestKeepsInv ==
    ASSUME IInv, TypeOK', NEW hdr \in BOOLEAN,
           managed' = Request(managed, hdr, observed),
           UNCHANGED <<transition, lateEnables>>,
           \A t \in Threads : InFlight(t)' = InFlight(t)
    PROVE  IInv'
  <1>1. managed \in ManagedState /\ observed \in ColorSpaces
    BY DEF IInv, TypeOK
  <1>2. CASE managed' = managed
    BY <1>2, UnmovedKeepsInv
  <1>3. CASE managed' # managed
    <2>1. /\ managed'.epoch = managed.epoch + 1
          /\ managed'.pending /\ managed'.desired = hdr
          /\ managed'.inProgress = managed.inProgress
          /\ managed'.latched = managed.latched
          /\ hdr => ~managed.latched
          /\ managed'.restore # NoColorSpace
          /\ Owning(managed) => managed'.restore = managed.restore
          /\ ~Owning(managed) => hdr
      <3> DEFINE n == Request(managed, hdr, observed)
      <3>1. \/ n = managed
            \/ /\ n.epoch = managed.epoch + 1
               /\ n.pending /\ n.desired = hdr
               /\ n.inProgress = managed.inProgress
               /\ n.latched = managed.latched
               /\ hdr => ~managed.latched
               /\ n.restore # NoColorSpace
               /\ Owning(managed) =>
                    n.restore = managed.restore /\ managed.desired # hdr
               /\ ~Owning(managed) => n.restore = observed /\ hdr
        <4>1. CASE hdr = TRUE
          BY <1>1, <4>1, RequestEffect, ZenonT(60)
        <4>2. CASE hdr = FALSE
          BY <1>1, <4>2, RequestEffect, ZenonT(60)
        <4> QED
          BY <4>1, <4>2
      <3>2. managed' = n
        OBVIOUS
      <3> HIDE DEF n
      <3> QED
        BY <1>3, <3>1, <3>2
    <2>2. managed.epoch \in Nat
      BY <1>1 DEF ManagedState
    <2>3. \A t \in Threads :
              InFlight(t)' => /\ transition'[t].epoch < managed'.epoch
                              /\ transition'[t].epoch \in Nat
      BY <2>1, <2>2 DEF IInv, InFlightIsPast, TypeOK, Transition
    <2>4. InFlightIsPast' /\ CurrentTransitionIsDesired'
      BY <2>1, <2>2, <2>3 DEF InFlightIsPast, CurrentTransitionIsDesired
    <2>5. DesiredHasBaseline' /\ NoForgottenRestore' /\ AtMostOneTransition'
      BY <2>1 DEF IInv, DesiredHasBaseline, NoForgottenRestore, Owning,
                  AtMostOneTransition
    <2>6. InFlightIsMarked' /\ RetryIsSpent'
      BY <2>1 DEF IInv, InFlightIsMarked, Relinquished, RetryIsSpent, Owning
    <2> QED
      BY <2>4, <2>5, <2>6 DEF IInv
  <1> QED
    BY <1>2, <1>3

\* A reconfiguration only sets transition_pending, and not once latched.
LEMMA ReapplyKeepsInv ==
    ASSUME IInv, TypeOK', managed' = Reapply(managed),
           UNCHANGED <<transition, lateEnables>>,
           \A t \in Threads : InFlight(t)' = InFlight(t)
    PROVE  IInv'
  <1>1. managed \in ManagedState
    BY DEF IInv, TypeOK
  <1>2. CASE managed' = managed
    BY <1>2, UnmovedKeepsInv
  <1>3. CASE managed' # managed
    <2>1. /\ managed' = [managed EXCEPT !.pending = TRUE]
          /\ Owning(managed) /\ ~managed.latched
      BY <1>1, <1>3, ReapplyEffect
    <2>2. /\ managed'.pending /\ managed'.epoch = managed.epoch
          /\ managed'.desired = managed.desired
          /\ managed'.restore = managed.restore
          /\ managed'.inProgress = managed.inProgress
          /\ managed'.latched = managed.latched
      BY <1>1, <2>1 DEF ManagedState
    <2> QED
      BY <2>1, <2>2
         DEF IInv, AtMostOneTransition, DesiredHasBaseline, Relinquished,
             CurrentTransitionIsDesired, NoForgottenRestore, InFlightIsMarked,
             InFlightIsPast, RetryIsSpent, Owning
  <1> QED
    BY <1>2, <1>3

\* An external set settles the current request, or relinquishes the swap chain.
LEMMA ObserveKeepsInv ==
    ASSUME IInv, TypeOK', NEW c \in ColorSpaces,
           managed' = ObserveExternalSet(managed, c),
           UNCHANGED <<transition, lateEnables>>,
           \A t \in Threads : InFlight(t)' = InFlight(t)
    PROVE  IInv'
  <1>1. managed \in ManagedState /\ managed.epoch \in Nat
    BY DEF IInv, TypeOK, ManagedState
  <1>2. CASE managed' = managed
    BY <1>2, UnmovedKeepsInv
  <1>3. CASE /\ managed'.epoch = managed.epoch
             /\ managed'.desired = managed.desired
             /\ ~managed'.pending /\ managed'.latched = managed.latched
             /\ managed'.inProgress = managed.inProgress
             /\ managed'.restore = IF managed.desired THEN managed.restore
                                   ELSE NoColorSpace
    <2>1. CurrentTransitionIsDesired' /\ InFlightIsPast' /\ AtMostOneTransition'
      BY <1>3 DEF IInv, CurrentTransitionIsDesired, InFlightIsPast,
                  AtMostOneTransition
    <2>2. DesiredHasBaseline' /\ NoForgottenRestore' /\ RetryIsSpent'
      BY <1>3 DEF IInv, DesiredHasBaseline, NoForgottenRestore, RetryIsSpent,
                  Owning
    <2>3. InFlightIsMarked'
      BY <1>3 DEF IInv, InFlightIsMarked, Relinquished, Owning
    <2> QED
      BY <2>1, <2>2, <2>3 DEF IInv
  <1>4. CASE /\ managed'.epoch = managed.epoch + 1 /\ managed'.latched
             /\ ~managed'.desired /\ ~managed'.pending
             /\ ~managed'.inProgress /\ managed'.restore = NoColorSpace
             /\ Owning(managed)
    <2>1. \A t \in Threads :
              InFlight(t)' => /\ transition'[t].epoch < managed'.epoch
                              /\ transition'[t].epoch \in Nat
      BY <1>1, <1>4 DEF IInv, InFlightIsPast, TypeOK, Transition
    <2>2. InFlightIsPast' /\ CurrentTransitionIsDesired'
      BY <1>1, <1>4, <2>1 DEF InFlightIsPast, CurrentTransitionIsDesired
    <2>3. /\ AtMostOneTransition' /\ DesiredHasBaseline' /\ NoForgottenRestore'
          /\ InFlightIsMarked' /\ RetryIsSpent'
      BY <1>4 DEF IInv, AtMostOneTransition, DesiredHasBaseline, Owning,
                  NoForgottenRestore, InFlightIsMarked, Relinquished,
                  RetryIsSpent
    <2> QED
      BY <2>2, <2>3 DEF IInv
  <1> QED
    BY <1>1, <1>2, <1>3, <1>4, ObserveEffect

\* begin_transition: nothing was in flight, because a transition that is not
\* marked in progress belongs to a relinquished swap chain.
LEMMA BeginKeepsInv ==
    ASSUME IInv, TypeOK', NEW t \in Threads, PresentBegin(t)
    PROVE  IInv'
  <1>1. /\ managed \in ManagedState /\ managed.epoch \in Nat
        /\ managed.pending /\ ~managed.inProgress /\ Owning(managed)
    BY DEF IInv, TypeOK, ManagedState, PresentBegin, CanBegin
  <1>2. \A u \in Threads : ~InFlight(u)
    BY <1>1 DEF IInv, InFlightIsMarked, Relinquished
  <1>3. \A u \in Threads : InFlight(u)' <=> u = t
    BY <1>2 DEF IInv, TypeOK, PresentBegin, Goto, InFlight
  <1>4. /\ ~managed'.pending /\ managed'.inProgress
        /\ managed'.epoch = managed.epoch /\ managed'.desired = managed.desired
        /\ managed'.restore = managed.restore
        /\ managed'.latched = managed.latched
    BY <1>1 DEF PresentBegin, Begin, ManagedState
  <1>5. /\ transition'[t].epoch = managed.epoch
        /\ transition'[t].enabling = managed.desired
    BY DEF IInv, TypeOK, PresentBegin, TransitionOf
  <1>6. AtMostOneTransition' /\ InFlightIsMarked'
    BY <1>3, <1>4 DEF AtMostOneTransition, InFlightIsMarked
  <1>7. InFlightIsPast'
    BY <1>1, <1>3, <1>4, <1>5 DEF InFlightIsPast
  <1>8. CurrentTransitionIsDesired'
    BY <1>3, <1>4, <1>5 DEF CurrentTransitionIsDesired
  <1>9. DesiredHasBaseline' /\ NoForgottenRestore'
    BY <1>1, <1>3, <1>4, <1>5
       DEF DesiredHasBaseline, NoForgottenRestore, Owning
  <1>10. RetryIsSpent'
    <2>1. CASE managed.latched /\ managed.desired
      <3>1. lateEnables = 0
        BY <1>1, <2>1 DEF IInv, RetryIsSpent
      <3> QED
        BY <1>4, <2>1, <3>1 DEF RetryIsSpent, PresentBegin
    <2>2. CASE ~(managed.latched /\ managed.desired)
      BY <1>4, <2>2 DEF IInv, RetryIsSpent, PresentBegin
    <2> QED
      BY <2>1, <2>2
  <1> QED
    BY <1>6, <1>7, <1>8, <1>9, <1>10 DEF IInv

\* finish_transition: it was the only transition in flight.
LEMMA FinishKeepsInv ==
    ASSUME IInv, TypeOK', NEW t \in Threads, PresentFinish(t)
    PROVE  IInv'
  <1> DEFINE tr == transition[t]
             ok == outcome[t]
  <1>1. /\ managed \in ManagedState /\ managed.epoch \in Nat
        /\ tr \in Transition /\ ok \in BOOLEAN
    BY DEF IInv, TypeOK, ManagedState
  <1>2. InFlight(t) /\ \A u \in Threads : ~InFlight(u)'
    BY DEF IInv, TypeOK, AtMostOneTransition, PresentFinish, Goto, InFlight
  <1>3. /\ managed' = Finish(managed, tr, ok)
        /\ lateEnables' = lateEnables
    BY DEF PresentFinish
  <1>4. tr.epoch = managed.epoch => tr.enabling = managed.desired
    BY <1>2 DEF IInv, CurrentTransitionIsDesired
  <1>a. /\ managed'.latched = (managed.latched \/ ~ok)
        /\ \/ /\ managed'.desired = managed.desired
              /\ managed'.pending = managed.pending
              /\ managed'.restore = managed.restore
              /\ (ok /\ tr.epoch = managed.epoch) => tr.enabling
           \/ /\ tr.epoch = managed.epoch /\ ~tr.enabling /\ ok
              /\ managed'.desired = managed.desired
              /\ managed'.pending = managed.pending
              /\ managed'.restore = NoColorSpace
           \/ /\ tr.epoch = managed.epoch /\ tr.enabling /\ ~ok
              /\ ~managed'.desired /\ managed'.pending
              /\ managed'.restore = managed.restore
    <2> DEFINE n == Finish(managed, tr, ok)
    <2>1. /\ n.latched = (managed.latched \/ ~ok)
          /\ \/ /\ n.desired = managed.desired
                /\ n.pending = managed.pending
                /\ n.restore = managed.restore
                /\ (ok /\ tr.epoch = managed.epoch) => tr.enabling
             \/ /\ tr.epoch = managed.epoch /\ ~tr.enabling /\ ok
                /\ n.desired = managed.desired
                /\ n.pending = managed.pending
                /\ n.restore = NoColorSpace
             \/ /\ tr.epoch = managed.epoch /\ tr.enabling /\ ~ok
                /\ ~n.desired /\ n.pending
                /\ n.restore = managed.restore
      BY <1>1, FinishEffect
    <2>2. managed' = n
      BY <1>3
    <2> HIDE DEF n
    <2> QED
      BY <2>1, <2>2
  <1>5. AtMostOneTransition' /\ InFlightIsMarked' /\ InFlightIsPast'
        /\ CurrentTransitionIsDesired'
    BY <1>2 DEF AtMostOneTransition, InFlightIsMarked, InFlightIsPast,
                CurrentTransitionIsDesired
  <1>6. DesiredHasBaseline'
    BY <1>1, <1>3, <1>4, FinishEffect DEF IInv, DesiredHasBaseline, Owning
  <1>7. NoForgottenRestore'
    <2>1. \A u \in Threads : InFlight(u) => u = t
      BY <1>2 DEF IInv, AtMostOneTransition
    <2>2. Owning(managed) /\ ~managed.desired /\ ~managed.latched
            => managed.pending \/ (tr.epoch = managed.epoch /\ ~tr.enabling)
      BY <2>1 DEF IInv, NoForgottenRestore
    <2> HIDE DEF tr, ok
    <2> QED
      BY <1>4, <1>a, <2>2 DEF NoForgottenRestore, Owning
  <1>8. RetryIsSpent'
    <2> HIDE DEF tr, ok
    <2>1. /\ managed.latched => managed'.latched
          /\ ~(managed.desired /\ managed.pending)
               => ~(managed'.desired /\ managed'.pending)
      BY <1>a
    <2> QED
      BY <1>3, <2>1 DEF IInv, RetryIsSpent
  <1> QED
    BY <1>5, <1>6, <1>7, <1>8 DEF IInv

\* Every step keeps the inductive invariant.
LEMMA InvStep == IInv /\ [Next]_vars => IInv'
  <1> SUFFICES ASSUME IInv, [Next]_vars PROVE IInv'
    OBVIOUS
  <1>0. TypeOK /\ TypeOK'
    BY TypeStep DEF IInv
  <1>1. ASSUME NEW t \in Queriers, Query(t) PROVE IInv'
    <2>1. CASE QueryEnable(t)
      BY <1>0, <2>1, RequestKeepsInv DEF QueryEnable, InFlight
    <2>2. CASE QueryRefused(t)
      BY <1>0, <2>2, UnmovedKeepsInv
         DEF QueryRefused, Goto, InFlight, TypeOK, Threads
    <2> QED
      BY <1>1, <2>1, <2>2 DEF Query
  <1>2. ASSUME NEW t \in Presenters, PresentBegin(t) PROVE IInv'
    BY <1>0, <1>2, BeginKeepsInv DEF Threads
  <1>3. ASSUME NEW t \in Setters, NEW c \in ColorSpaces, ExternalSet(t, c)
        PROVE  IInv'
    BY <1>0, <1>3, UnmovedKeepsInv
       DEF ExternalSet, Goto, InFlight, TypeOK, Threads
  <1>4. ASSUME NEW t \in Resizers, Reconfigure(t) PROVE IInv'
    BY <1>0, <1>4, UnmovedKeepsInv
       DEF Reconfigure, Goto, InFlight, TypeOK, Threads
  <1>5. ASSUME NEW t \in Threads, Present(t) PROVE IInv'
    <2>1. CASE ValidateAccept(t)
      BY <1>0, <2>1, UnmovedKeepsInv
         DEF ValidateAccept, Goto, InFlight, TypeOK
    <2>2. CASE ValidateReject(t)
      BY <1>0, <2>2, UnmovedKeepsInv
         DEF ValidateReject, Goto, InFlight, TypeOK
    <2>3. CASE SetColorSpaceSucceeds(t)
      BY <1>0, <2>3, UnmovedKeepsInv
         DEF SetColorSpaceSucceeds, Goto, InFlight, TypeOK
    <2>4. CASE SetColorSpaceFails(t)
      BY <1>0, <2>4, UnmovedKeepsInv
         DEF SetColorSpaceFails, Goto, InFlight, TypeOK
    <2>5. CASE PresentFinish(t)
      BY <1>0, <2>5, FinishKeepsInv
    <2> QED
      BY <1>5, <2>1, <2>2, <2>3, <2>4, <2>5 DEF Present
  <1>6. ASSUME NEW t \in Threads, QueryWithdraw(t) PROVE IInv'
    <2>1. /\ managed' = Request(managed, FALSE, observed)
          /\ UNCHANGED <<transition, lateEnables>>
      BY <1>6 DEF QueryWithdraw
    <2>2. \A u \in Threads : InFlight(u)' = InFlight(u)
      BY <1>0, <1>6 DEF QueryWithdraw, Goto, InFlight, TypeOK
    <2> QED
      BY <1>0, <2>1, <2>2, RequestKeepsInv
  <1>7. ASSUME NEW t \in Threads, ExternalObserved(t) PROVE IInv'
    BY <1>0, <1>7, ObserveKeepsInv
       DEF ExternalObserved, Goto, InFlight, TypeOK
  <1>8. ASSUME NEW t \in Threads, ReconfigureDone(t) PROVE IInv'
    BY <1>0, <1>8, ReapplyKeepsInv
       DEF ReconfigureDone, Goto, InFlight, TypeOK
  <1>9. CASE UNCHANGED vars
    BY <1>0, <1>9, UnmovedKeepsInv DEF vars, InFlight
  <1> QED
    BY <1>1, <1>2, <1>3, <1>4, <1>5, <1>6, <1>7, <1>8, <1>9
       DEF Next, Continue

\* The inductive invariant holds throughout.
THEOREM InductiveInvariant == Spec => []IInv
  BY InvInit, InvStep, PTL DEF Spec

\* No two threads are inside a managed transition at once, although the lock
\* is released in the middle of it and a conflict clears the in-progress flag.
THEOREM OneTransitionAtATime == Spec => []AtMostOneTransition
  BY InductiveInvariant, PTL DEF IInv

\* While HDR is desired, the baseline to go back to is still held.
THEOREM BaselineIsHeld == Spec => []DesiredHasBaseline
  BY InductiveInvariant, PTL DEF IInv

\* A transition under the current epoch is for what is desired now.
THEOREM StaleTransitionsAreInert == Spec => []CurrentTransitionIsDesired
  BY InductiveInvariant, PTL DEF IInv

\* Short of a latched failure, an owed restoration is pending or under way.
THEOREM RestoreIsRemembered == Spec => []NoForgottenRestore
  BY InductiveInvariant, PTL DEF IInv

\* At most one PQ submission begins after a failure was latched.
THEOREM RetryIsBounded == Spec => []BoundedRetry
  <1>1. IInv => BoundedRetry
    BY DEF IInv, RetryIsSpent, BoundedRetry
  <1> QED
    BY <1>1, InductiveInvariant, PTL

-----------------------------------------------------------------------------
(* Refinement of ColorSpaceOwnership.                                       *)

\* Steps that keep what the refinement reads map to a stuttering step.
LEMMA SameOwnership ==
    ASSUME managed'.restore = managed.restore,
           managed'.desired = managed.desired,
           managed'.latched = managed.latched
    PROVE  UNCHANGED Ownership!ownershipVars
  BY DEF Ownership!ownershipVars, Owning

\* request maps to Start, Resume, Stop or a stutter.
LEMMA RequestRefines ==
    ASSUME IInv, NEW hdr \in BOOLEAN,
           managed' = Request(managed, hdr, observed)
    PROVE  [Ownership!Next]_Ownership!ownershipVars
  <1>1. managed \in ManagedState /\ observed \in ColorSpaces
    BY DEF IInv, TypeOK
  <1>2. CASE managed' = managed
    BY <1>2, SameOwnership
  <1>3. CASE managed' # managed /\ hdr = TRUE
    <2>1. /\ managed'.desired /\ managed'.latched = managed.latched
          /\ ~managed.latched /\ managed'.restore # NoColorSpace
          /\ Owning(managed) =>
               managed'.restore = managed.restore /\ managed.desired # TRUE
          /\ ~Owning(managed) => managed'.restore = observed
      BY <1>1, <1>3, RequestEffect, ZenonT(60)
    <2>2. CASE Owning(managed)
      <3>1. Ownership!Resume
        BY <2>1, <2>2 DEF Ownership!Resume, Owning
      <3> QED
        BY <3>1 DEF Ownership!Next
    <2>3. CASE ~Owning(managed)
      <3>1. Ownership!Start
        BY <1>1, <2>1, <2>3 DEF Ownership!Start, Owning
      <3> QED
        BY <3>1 DEF Ownership!Next
    <2> QED
      BY <2>2, <2>3
  <1>4. CASE managed' # managed /\ hdr = FALSE
    <2>1. /\ ~managed'.desired /\ managed'.latched = managed.latched
          /\ Owning(managed) /\ managed'.restore = managed.restore
          /\ managed.desired # FALSE
      BY <1>1, <1>4, RequestEffect
    <2>2. managed.desired
      BY <1>1, <2>1 DEF ManagedState
    <2>3. Ownership!Stop
      BY <2>1, <2>2 DEF Ownership!Stop, Owning
    <2> QED
      BY <2>3 DEF Ownership!Next
  <1> QED
    BY <1>2, <1>3, <1>4

\* finish_transition maps to Release, Stop, Fail or a stutter: which one rests
\* on a current transition being for what is desired now.
LEMMA FinishRefines ==
    ASSUME IInv, NEW t \in Threads, PresentFinish(t)
    PROVE  [Ownership!Next]_Ownership!ownershipVars
  <1> DEFINE tr == transition[t]
             ok == outcome[t]
             n == Finish(managed, tr, ok)
  <1>1. /\ managed \in ManagedState /\ tr \in Transition /\ ok \in BOOLEAN
    BY DEF IInv, TypeOK
  <1>2. tr.epoch = managed.epoch => tr.enabling = managed.desired
    BY DEF IInv, CurrentTransitionIsDesired, PresentFinish, Goto, InFlight
  <1>3. /\ n.latched = (managed.latched \/ ~ok)
        /\ \/ /\ n.desired = managed.desired /\ n.restore = managed.restore
           \/ /\ tr.epoch = managed.epoch /\ ~tr.enabling /\ ok
              /\ n.desired = managed.desired /\ n.restore = NoColorSpace
           \/ /\ tr.epoch = managed.epoch /\ tr.enabling /\ ~ok
              /\ ~n.desired /\ n.restore = managed.restore
    BY <1>1, FinishEffect
  <1>4. managed' = n
    BY DEF PresentFinish
  <1>5. managed.desired => Owning(managed)
    BY DEF IInv, DesiredHasBaseline
  <1> HIDE DEF tr, ok, n
  <1>6. CASE n.desired = managed.desired /\ n.restore = managed.restore
    <2>1. CASE n.latched = managed.latched
      BY <1>4, <1>6, <2>1, SameOwnership
    <2>2. CASE n.latched # managed.latched
      <3>1. n.latched = TRUE
        BY <1>1, <1>3, <2>2 DEF ManagedState
      <3>2. Ownership!Fail
        BY <1>4, <1>6, <3>1 DEF Ownership!Fail, Owning
      <3> QED
        BY <3>2 DEF Ownership!Next
    <2> QED
      BY <2>1, <2>2
  <1>7. CASE /\ tr.epoch = managed.epoch /\ ~tr.enabling /\ ok
             /\ n.desired = managed.desired /\ n.restore = NoColorSpace
    <2>1. ~managed.desired /\ n.latched = managed.latched
      BY <1>1, <1>2, <1>3, <1>7 DEF ManagedState
    <2>2. CASE Owning(managed)
      <3>1. Ownership!Release
        BY <1>4, <1>7, <2>1, <2>2 DEF Ownership!Release, Owning
      <3> QED
        BY <3>1 DEF Ownership!Next
    <2>3. CASE ~Owning(managed)
      BY <1>4, <1>7, <2>1, <2>3, SameOwnership DEF Owning
    <2> QED
      BY <2>2, <2>3
  <1>8. CASE /\ tr.epoch = managed.epoch /\ tr.enabling /\ ~ok
             /\ ~n.desired /\ n.restore = managed.restore
    <2>1. managed.desired /\ Owning(managed)
      BY <1>1, <1>2, <1>5, <1>8 DEF ManagedState
    <2>2. n.latched = TRUE
      BY <1>1, <1>3, <1>8 DEF ManagedState
    <2>3. Ownership!Stop
      BY <1>4, <1>8, <2>1, <2>2 DEF Ownership!Stop, Owning
    <2> QED
      BY <2>3 DEF Ownership!Next
  <1> QED
    BY <1>3, <1>6, <1>7, <1>8

\* observe_external_set maps to Release, Relinquish or a stutter.
LEMMA ObserveRefines ==
    ASSUME IInv, NEW c \in ColorSpaces,
           managed' = ObserveExternalSet(managed, c)
    PROVE  [Ownership!Next]_Ownership!ownershipVars
  <1> DEFINE n == ObserveExternalSet(managed, c)
  <1>1. managed \in ManagedState
    BY DEF IInv, TypeOK
  <1>2. \/ n = managed
        \/ /\ Owning(managed)
           /\ n.desired = managed.desired /\ n.latched = managed.latched
           /\ n.restore = IF managed.desired THEN managed.restore
                          ELSE NoColorSpace
        \/ /\ Owning(managed) /\ n.latched /\ ~n.desired
           /\ n.restore = NoColorSpace
    BY <1>1, ObserveEffect
  <1>3. managed' = n /\ n.latched \in BOOLEAN
    BY <1>1, ObserveEffect DEF ManagedState
  <1> HIDE DEF n
  <1>4. CASE n = managed
    BY <1>3, <1>4, SameOwnership
  <1>5. CASE /\ Owning(managed)
             /\ n.desired = managed.desired /\ n.latched = managed.latched
             /\ n.restore = IF managed.desired THEN managed.restore
                            ELSE NoColorSpace
    <2>1. CASE managed.desired
      BY <1>3, <1>5, <2>1, SameOwnership
    <2>2. CASE ~managed.desired
      <3>1. Ownership!Release
        BY <1>3, <1>5, <2>2 DEF Ownership!Release, Owning
      <3> QED
        BY <3>1 DEF Ownership!Next
    <2> QED
      BY <2>1, <2>2
  <1>6. CASE /\ Owning(managed) /\ n.latched /\ ~n.desired
             /\ n.restore = NoColorSpace
    <2>1. n.latched = TRUE
      BY <1>3, <1>6
    <2>2. Ownership!Relinquish
      BY <1>3, <1>6, <2>1 DEF Ownership!Relinquish, Owning
    <2> QED
      BY <2>2 DEF Ownership!Next
  <1> QED
    BY <1>2, <1>4, <1>5, <1>6

\* ManagedColorSpace implements ColorSpaceOwnership: one baseline per
\* emulation, given back or relinquished for good, and no start after a
\* failure, whatever the hooks interleave.
THEOREM ImplementsOwnershipSpec == Spec => ImplementsOwnership
  <1>1. Init => Ownership!Init
    BY DEF Init, Ownership!Init, Owning
  <1>2. IInv /\ [Next]_vars => [Ownership!Next]_Ownership!ownershipVars
    <2> SUFFICES ASSUME IInv, [Next]_vars
                 PROVE  [Ownership!Next]_Ownership!ownershipVars
      OBVIOUS
    <2>0. managed \in ManagedState
      BY DEF IInv, TypeOK
    <2>1. CASE managed' = managed
      BY <2>1, SameOwnership
    <2>2. ASSUME NEW t \in Queriers, QueryEnable(t)
          PROVE  [Ownership!Next]_Ownership!ownershipVars
      BY <2>2, RequestRefines DEF QueryEnable
    <2>3. ASSUME NEW t \in Presenters, PresentBegin(t)
          PROVE  [Ownership!Next]_Ownership!ownershipVars
      <3>1. managed' = [managed EXCEPT !.pending = FALSE, !.inProgress = TRUE]
        BY <2>3 DEF PresentBegin, Begin
      <3>2. /\ managed'.restore = managed.restore
            /\ managed'.desired = managed.desired
            /\ managed'.latched = managed.latched
        BY <2>0, <3>1 DEF ManagedState
      <3> QED
        BY <3>2, SameOwnership
    <2>4. ASSUME NEW t \in Threads, PresentFinish(t)
          PROVE  [Ownership!Next]_Ownership!ownershipVars
      BY <2>4, FinishRefines
    <2>5. ASSUME NEW t \in Threads, QueryWithdraw(t)
          PROVE  [Ownership!Next]_Ownership!ownershipVars
      BY <2>5, RequestRefines DEF QueryWithdraw
    <2>6. ASSUME NEW t \in Threads, ExternalObserved(t)
          PROVE  [Ownership!Next]_Ownership!ownershipVars
      BY <2>6, ObserveRefines DEF ExternalObserved, IInv, TypeOK
    <2>7. ASSUME NEW t \in Threads, ReconfigureDone(t)
          PROVE  [Ownership!Next]_Ownership!ownershipVars
      <3>1. \/ managed' = managed
            \/ managed' = [managed EXCEPT !.pending = TRUE]
        BY <2>0, <2>7, ReapplyEffect DEF ReconfigureDone
      <3>2. /\ managed'.restore = managed.restore
            /\ managed'.desired = managed.desired
            /\ managed'.latched = managed.latched
        BY <2>0, <3>1 DEF ManagedState
      <3> QED
        BY <3>2, SameOwnership
    <2> QED
      BY <2>1, <2>2, <2>3, <2>4, <2>5, <2>6, <2>7
         DEF Next, Query, Continue, Present, QueryRefused, ValidateAccept,
             ValidateReject, SetColorSpaceSucceeds, SetColorSpaceFails,
             ExternalSet, Reconfigure, vars
  <1> QED
    BY <1>1, <1>2, InductiveInvariant, PTL
       DEF Spec, ImplementsOwnership, Ownership!Spec


-----------------------------------------------------------------------------
(* With one thread that presents, sets and resizes, as in the game without  *)
(* an overlay on a thread of its own. The polls still race with it.         *)

Renderers == Presenters \cup Setters \cup Resizers

OneRenderer == \A s, t \in Renderers : s = t

\* Between a call into DXGI and its bookkeeping.
Busy(t) == pc[t] \notin {"idle", "withdraw"}

OnlyRenderersAreBusy == \A t \in Threads : Busy(t) => t \in Renderers

\* A baseline is neither released nor replaced under a transition, and a poll
\* that supersedes the transition asks for the next one.
InFlightOwns ==
    \A t \in Threads : InFlight(t) =>
        /\ Owning(managed)
        /\ transition[t].epoch # managed.epoch => managed.pending
        /\ transition[t].target = IF transition[t].enabling THEN PQ
                                  ELSE managed.restore

\* What the call returned is still so when it is recorded.
FinishIsCurrent ==
    \A t \in Threads : pc[t] = "finish" /\ outcome[t] =>
        actual = transition[t].target /\ ours = transition[t].enabling

ObservedIsCurrent ==
    \A t \in Threads : pc[t] = "observe" => actual = requested[t] /\ ours = FALSE

SerialInv ==
    /\ OnlyRenderersAreBusy
    /\ InFlightOwns
    /\ FinishIsCurrent
    /\ ObservedIsCurrent
    /\ ours = TRUE => Owning(managed)
    /\ HdrIsSubmitted

\* Nothing has been called and nothing is captured at the start.
LEMMA SerialInit == Init => SerialInv
  BY DEF Init, SerialInv, OnlyRenderersAreBusy, Busy, InFlightOwns, InFlight,
         FinishIsCurrent, ObservedIsCurrent, HdrIsSubmitted

\* A request of a poll either changes nothing or leaves a transition pending,
\* and it never releases a baseline.
LEMMA RequestKeepsSerial ==
    ASSUME IInv, SerialInv, NEW hdr \in BOOLEAN,
           managed' = Request(managed, hdr, observed),
           UNCHANGED <<actual, ours, transition, outcome, requested>>,
           \A t \in Threads : \/ pc'[t] = pc[t]
                              \/ ~Busy(t) /\ pc'[t] \in {"idle", "withdraw"}
    PROVE  SerialInv'
  <1>1. \/ managed' = managed
        \/ /\ managed'.pending /\ Owning(managed')
           /\ Owning(managed) => managed'.restore = managed.restore
    <2> DEFINE n == Request(managed, hdr, observed)
    <2>1. managed \in ManagedState /\ observed \in ColorSpaces
      BY DEF IInv, TypeOK
    <2>2. \/ n = managed
          \/ /\ n.pending /\ n.restore # NoColorSpace
             /\ Owning(managed) => n.restore = managed.restore
      <3>1. CASE hdr = TRUE
        BY <2>1, <3>1, RequestEffect, ZenonT(60)
      <3>2. CASE hdr = FALSE
        BY <2>1, <3>2, RequestEffect, ZenonT(60)
      <3> QED BY <3>1, <3>2
    <2> QED
      BY <2>2 DEF Owning
  <1>2. \A t \in Threads : /\ Busy(t)' => Busy(t)
                           /\ Busy(t)' => pc'[t] = pc[t]
                           /\ Busy(t) => Busy(t)'
    BY DEF Busy
  <1>3. OnlyRenderersAreBusy' /\ FinishIsCurrent' /\ ObservedIsCurrent'
    BY <1>2 DEF SerialInv, OnlyRenderersAreBusy, FinishIsCurrent,
                ObservedIsCurrent, Busy
  <1>4. InFlightOwns'
    BY <1>1, <1>2 DEF SerialInv, InFlightOwns, InFlight, Busy
  <1>5. (ours = TRUE => Owning(managed))'
    BY <1>1 DEF SerialInv
  <1>6. HdrIsSubmitted'
    BY <1>1, <1>2 DEF SerialInv, HdrIsSubmitted, Settled, Busy
  <1> QED
    BY <1>3, <1>4, <1>5, <1>6 DEF SerialInv

\* What one renderer's step has to establish: for itself, and for the state.
LEMMA RendererStep ==
    ASSUME OneRenderer, IInv, SerialInv, NEW t \in Threads,
           t \in Renderers,
           NEW to \in Locations, pc' = [pc EXCEPT ![t] = to],
           InFlight(t)' => /\ Owning(managed')
                           /\ transition'[t].epoch # managed'.epoch => managed'.pending
                           /\ transition'[t].target =
                                IF transition'[t].enabling THEN PQ
                                ELSE managed'.restore,
           pc'[t] = "finish" /\ outcome'[t] =>
              actual' = transition'[t].target /\ ours' = transition'[t].enabling,
           pc'[t] = "observe" => actual' = requested'[t] /\ ours' = FALSE,
           ours' = TRUE => Owning(managed'),
           ~Busy(t)' /\ managed'.desired /\ ~managed'.latched /\ ~managed'.pending
              => actual' = PQ
    PROVE  SerialInv'
  <1>1. \A u \in Threads : u # t => ~Busy(u)
    BY DEF OneRenderer, SerialInv, OnlyRenderersAreBusy
  <1>2. \A u \in Threads : u # t => pc'[u] = pc[u] /\ ~Busy(u)'
    BY <1>1 DEF Busy, IInv, TypeOK
  <1>3. \A u \in Threads : u # t => ~InFlight(u)' /\ pc'[u] # "finish" /\ pc'[u] # "observe"
    BY <1>2 DEF Busy, InFlight
  <1>4. OnlyRenderersAreBusy'
    BY <1>2 DEF OnlyRenderersAreBusy, Renderers
  <1>5. InFlightOwns' /\ FinishIsCurrent' /\ ObservedIsCurrent'
    BY <1>3 DEF InFlightOwns, FinishIsCurrent, ObservedIsCurrent
  <1>6. HdrIsSubmitted'
    BY <1>2 DEF HdrIsSubmitted, Settled, Busy
  <1> QED
    BY <1>4, <1>5, <1>6 DEF SerialInv

\* The hooks of the renderer keep the invariant.
LEMMA RendererKeepsSerial ==
    ASSUME OneRenderer, IInv, SerialInv, NEW t \in Threads,
           \/ t \in Presenters /\ PresentBegin(t)
           \/ t \in Setters /\ \E c \in ColorSpaces : ExternalSet(t, c)
           \/ t \in Resizers /\ Reconfigure(t)
           \/ Present(t) \/ ExternalObserved(t) \/ ReconfigureDone(t)
    PROVE  SerialInv'
  <1>1. /\ managed \in ManagedState /\ pc \in [Threads -> Locations]
        /\ transition \in [Threads -> Transition]
        /\ outcome \in [Threads -> BOOLEAN]
        /\ requested \in [Threads -> ColorSpaces]
    BY DEF IInv, TypeOK
  <1>2. managed.desired => Owning(managed)
    BY DEF IInv, DesiredHasBaseline
  <1>3. ours = TRUE => Owning(managed)
    BY DEF SerialInv
  <1>4. InFlight(t) =>
          /\ Owning(managed)
          /\ transition[t].epoch # managed.epoch => managed.pending
          /\ transition[t].target = IF transition[t].enabling THEN PQ
                                    ELSE managed.restore
    BY DEF SerialInv, InFlightOwns
  <1>5. Busy(t) => t \in Renderers
    BY DEF SerialInv, OnlyRenderersAreBusy
  <1>6. CASE t \in Presenters /\ PresentBegin(t)
    <2> DEFINE to == IF managed.desired THEN "validate" ELSE "set"
    <2>1. /\ t \in Renderers /\ to \in Locations /\ pc' = [pc EXCEPT ![t] = to]
          /\ Owning(managed)
      BY <1>6 DEF PresentBegin, Goto, Locations, Renderers, CanBegin
    <2>2. /\ managed'.restore = managed.restore /\ managed'.epoch = managed.epoch
          /\ actual' = actual /\ ours' = ours
      BY <1>1, <1>6 DEF PresentBegin, Begin, ManagedState
    <2>3. /\ transition'[t].epoch = managed.epoch
          /\ transition'[t].target = IF transition'[t].enabling THEN PQ
                                     ELSE managed.restore
      BY <1>1, <1>6 DEF PresentBegin, TransitionOf, Expected
    <2>4. pc'[t] \in {"validate", "set"} /\ Busy(t)'
      BY <1>1, <2>1 DEF Busy
    <2>5. Owning(managed')
      BY <2>1, <2>2 DEF Owning
    <2> HIDE DEF to
    <2> QED
      BY <2>1, <2>2, <2>3, <2>4, <2>5, RendererStep
  <1>7. ASSUME t \in Setters, NEW c \in ColorSpaces, ExternalSet(t, c)
        PROVE  SerialInv'
    <2>1. /\ t \in Renderers /\ "observe" \in Locations
          /\ pc' = [pc EXCEPT ![t] = "observe"]
      BY <1>7 DEF ExternalSet, Goto, Locations, Renderers
    <2>2. actual' = requested'[t] /\ ours' = FALSE /\ managed' = managed
      BY <1>1, <1>7 DEF ExternalSet
    <2>3. pc'[t] = "observe" /\ ~InFlight(t)' /\ Busy(t)'
      BY <1>1, <2>1 DEF InFlight, Busy
    <2> QED
      BY <2>1, <2>2, <2>3, RendererStep
  <1>8. CASE t \in Resizers /\ Reconfigure(t)
    <2>1. /\ t \in Renderers /\ "reconfigured" \in Locations
          /\ pc' = [pc EXCEPT ![t] = "reconfigured"]
      BY <1>8 DEF Reconfigure, Goto, Locations, Renderers
    <2>2. managed' = managed /\ (ours' = TRUE => ours = TRUE)
      BY <1>8 DEF Reconfigure, IInv, TypeOK
    <2>3. pc'[t] = "reconfigured" /\ ~InFlight(t)' /\ Busy(t)'
      BY <1>1, <2>1 DEF InFlight, Busy
    <2> QED
      BY <1>3, <2>1, <2>2, <2>3, RendererStep
  <1>9. CASE ValidateAccept(t)
    <2>1. /\ Busy(t) /\ InFlight(t) /\ "set" \in Locations
          /\ pc' = [pc EXCEPT ![t] = "set"] /\ pc'[t] = "set"
      BY <1>1, <1>9 DEF ValidateAccept, Goto, Locations, Busy, InFlight
    <2>2. UNCHANGED <<managed, actual, transition, outcome, requested, ours>>
      BY <1>9 DEF ValidateAccept
    <2>3. Busy(t)'
      BY <2>1 DEF Busy
    <2> QED
      BY <1>3, <1>4, <1>5, <2>1, <2>2, <2>3, RendererStep
  <1>10. CASE ValidateReject(t) \/ SetColorSpaceFails(t)
    <2>1. /\ Busy(t) /\ InFlight(t) /\ "finish" \in Locations
          /\ pc' = [pc EXCEPT ![t] = "finish"] /\ pc'[t] = "finish"
      BY <1>1, <1>10 DEF ValidateReject, SetColorSpaceFails, Goto, Locations,
                         Busy, InFlight
    <2>2. /\ UNCHANGED <<managed, actual, transition, requested, ours>>
          /\ ~outcome'[t]
      BY <1>1, <1>10 DEF ValidateReject, SetColorSpaceFails
    <2>3. Busy(t)'
      BY <2>1 DEF Busy
    <2> QED
      BY <1>3, <1>4, <1>5, <2>1, <2>2, <2>3, RendererStep
  <1>11. CASE SetColorSpaceSucceeds(t)
    <2>1. /\ Busy(t) /\ InFlight(t) /\ "finish" \in Locations
          /\ pc' = [pc EXCEPT ![t] = "finish"] /\ pc'[t] = "finish"
      BY <1>1, <1>11 DEF SetColorSpaceSucceeds, Goto, Locations, Busy, InFlight
    <2>2. /\ UNCHANGED <<managed, transition, requested>>
          /\ actual' = transition[t].target /\ ours' = transition[t].enabling
      BY <1>11 DEF SetColorSpaceSucceeds
    <2>3. Busy(t)'
      BY <2>1 DEF Busy
    <2> QED
      BY <1>4, <1>5, <2>1, <2>2, <2>3, RendererStep
  <1>12. CASE PresentFinish(t)
    <2> DEFINE tr == transition[t]
               ok == outcome[t]
    <2>1. /\ Busy(t) /\ InFlight(t) /\ "idle" \in Locations
          /\ pc' = [pc EXCEPT ![t] = "idle"] /\ pc'[t] = "idle"
      BY <1>1, <1>12 DEF PresentFinish, Goto, Locations, Busy, InFlight
    <2>2. /\ managed' = Finish(managed, tr, ok)
          /\ actual' = actual /\ ours' = ours
          /\ tr \in Transition /\ ok \in BOOLEAN
      BY <1>1, <1>12 DEF PresentFinish
    <2>3. /\ managed'.latched = (managed.latched \/ ~ok)
          /\ \/ /\ managed'.desired = managed.desired
                /\ managed'.pending = managed.pending
                /\ managed'.restore = managed.restore
             \/ /\ tr.epoch = managed.epoch /\ ~tr.enabling /\ ok
                /\ managed'.desired = managed.desired
             \/ /\ managed'.pending /\ managed'.restore = managed.restore
      <3> DEFINE n == Finish(managed, tr, ok)
      <3>1. /\ n.latched = (managed.latched \/ ~ok)
            /\ \/ /\ n.desired = managed.desired
                  /\ n.pending = managed.pending
                  /\ n.restore = managed.restore
               \/ /\ tr.epoch = managed.epoch /\ ~tr.enabling /\ ok
                  /\ n.desired = managed.desired
               \/ /\ n.pending /\ n.restore = managed.restore
        BY <1>1, <2>2, FinishEffect
      <3> HIDE DEF n
      <3> QED
        BY <2>2, <3>1 DEF n
    <2>4. ok => actual = tr.target /\ ours = tr.enabling
      BY <1>12 DEF SerialInv, FinishIsCurrent, PresentFinish, Goto
    <2>5. tr.epoch = managed.epoch => tr.enabling = managed.desired
      BY <2>1 DEF IInv, CurrentTransitionIsDesired
    <2>6. ~InFlight(t)'
      BY <2>1 DEF InFlight
    <2>7. ours' = TRUE => Owning(managed')
      BY <1>3, <2>2, <2>3, <2>4 DEF Owning
    <2>8. managed'.desired /\ ~managed'.latched /\ ~managed'.pending => actual' = PQ
      BY <1>4, <2>1, <2>2, <2>3, <2>4, <2>5
    <2> HIDE DEF tr, ok
    <2> QED
      BY <1>5, <2>1, <2>6, <2>7, <2>8, RendererStep
  <1>13. CASE ExternalObserved(t)
    <2>1. /\ Busy(t) /\ "idle" \in Locations
          /\ pc' = [pc EXCEPT ![t] = "idle"] /\ pc'[t] = "idle"
      BY <1>1, <1>13 DEF ExternalObserved, Goto, Locations, Busy
    <2>2. /\ managed' = ObserveExternalSet(managed, requested[t])
          /\ actual' = actual /\ ours' = ours
      BY <1>13 DEF ExternalObserved
    <2>3. actual = requested[t] /\ ours = FALSE
      BY <1>13 DEF SerialInv, ObservedIsCurrent, ExternalObserved, Goto
    <2>4. managed'.desired => requested[t] = PQ
      BY <1>1, <1>2, <2>2
         DEF ObserveExternalSet, Relinquish, Expected, ManagedState
    <2>5. ~InFlight(t)'
      BY <2>1 DEF InFlight
    <2> QED
      BY <1>5, <2>1, <2>2, <2>3, <2>4, <2>5, RendererStep
  <1>14. CASE ReconfigureDone(t)
    <2>1. /\ Busy(t) /\ "idle" \in Locations
          /\ pc' = [pc EXCEPT ![t] = "idle"] /\ pc'[t] = "idle"
      BY <1>1, <1>14 DEF ReconfigureDone, Goto, Locations, Busy
    <2>2. managed' = Reapply(managed) /\ ours' = ours
      BY <1>14 DEF ReconfigureDone
    <2>3. /\ managed'.restore = managed.restore
          /\ managed'.desired = managed.desired
          /\ managed'.latched = managed.latched
          /\ Owning(managed) /\ ~managed.latched => managed'.pending
      BY <1>1, <2>2 DEF Reapply, ManagedState
    <2>4. ~InFlight(t)'
      BY <2>1 DEF InFlight
    <2> QED
      BY <1>2, <1>3, <1>5, <2>1, <2>2, <2>3, <2>4, RendererStep DEF Owning
  <1> QED
    BY <1>6, <1>7, <1>8, <1>9, <1>10, <1>11, <1>12, <1>13, <1>14 DEF Present

\* Every step keeps the invariant.
LEMMA SerialStep ==
    ASSUME OneRenderer, IInv, SerialInv, [Next]_vars
    PROVE  SerialInv'
  <1>1. ASSUME NEW t \in Queriers, Query(t) PROVE SerialInv'
    <2>1. CASE QueryEnable(t)
      BY <2>1, RequestKeepsSerial DEF QueryEnable
    <2>2. CASE QueryRefused(t)
      <3>1. /\ UNCHANGED <<managed, actual, ours, transition, outcome, requested>>
            /\ \A u \in Threads : \/ pc'[u] = pc[u]
                                  \/ ~Busy(u) /\ pc'[u] \in {"idle", "withdraw"}
        BY <2>2 DEF QueryRefused, Goto, Busy, IInv, TypeOK
      <3> QED
        BY <3>1 DEF SerialInv, OnlyRenderersAreBusy, InFlightOwns, InFlight, Busy,
                    FinishIsCurrent, ObservedIsCurrent, HdrIsSubmitted, Settled
    <2> QED
      BY <1>1, <2>1, <2>2 DEF Query
  <1>2. ASSUME NEW t \in Threads, QueryWithdraw(t) PROVE SerialInv'
    <2>1. \A u \in Threads : \/ pc'[u] = pc[u]
                             \/ ~Busy(u) /\ pc'[u] \in {"idle", "withdraw"}
      BY <1>2 DEF QueryWithdraw, Goto, Busy, IInv, TypeOK
    <2> QED
      BY <1>2, <2>1, RequestKeepsSerial DEF QueryWithdraw
  <1>3. ASSUME NEW t \in Threads,
               \/ t \in Presenters /\ PresentBegin(t)
               \/ t \in Setters /\ \E c \in ColorSpaces : ExternalSet(t, c)
               \/ t \in Resizers /\ Reconfigure(t)
               \/ Present(t) \/ ExternalObserved(t) \/ ReconfigureDone(t)
        PROVE  SerialInv'
    BY <1>3, RendererKeepsSerial
  <1>4. CASE UNCHANGED vars
    BY <1>4 DEF vars, SerialInv, OnlyRenderersAreBusy, InFlightOwns, InFlight, Busy,
                FinishIsCurrent, ObservedIsCurrent, HdrIsSubmitted, Settled
  <1> QED
    BY <1>1, <1>2, <1>3, <1>4 DEF Next, Continue, Threads

\* A step that releases the baseline, other than for good, leaves the swap chain
\* in it: it records a restoration that succeeded, or a set to that color space.
LEMMA ReleaseStep ==
    ASSUME IInv, SerialInv, [Next]_vars, Owning(managed), ~Owning(managed'),
           ~managed'.latched
    PROVE  actual' = managed.restore
  <1>1. /\ managed \in ManagedState /\ observed \in ColorSpaces
        /\ transition \in [Threads -> Transition]
        /\ outcome \in [Threads -> BOOLEAN]
        /\ requested \in [Threads -> ColorSpaces]
    BY DEF IInv, TypeOK
  <1>2. managed.restore # NoColorSpace /\ managed'.restore = NoColorSpace
    BY DEF Owning
  <1>3. \A hdr \in BOOLEAN : managed' # Request(managed, hdr, observed)
    <2> SUFFICES ASSUME NEW hdr \in BOOLEAN
                 PROVE  managed' # Request(managed, hdr, observed)
      OBVIOUS
    <2> DEFINE n == Request(managed, hdr, observed)
    <2>1. n = managed \/ n.restore # NoColorSpace
      <3>1. CASE hdr = TRUE
        BY <1>1, <3>1, RequestEffect, ZenonT(60)
      <3>2. CASE hdr = FALSE
        BY <1>1, <3>2, RequestEffect, ZenonT(60)
      <3> QED
        BY <3>1, <3>2
    <2> QED
      BY <1>2, <2>1
  <1>4. ASSUME NEW t \in Threads, PresentFinish(t) PROVE actual' = managed.restore
    <2> DEFINE n == Finish(managed, transition[t], outcome[t])
    <2>1. transition[t] \in Transition /\ outcome[t] \in BOOLEAN
      BY <1>1
    <2>2. \/ n.restore = managed.restore
          \/ ~transition[t].enabling /\ outcome[t]
      BY <1>1, <2>1, FinishEffect
    <2>3. managed' = n /\ actual' = actual /\ pc[t] = "finish" /\ InFlight(t)
      BY <1>4 DEF PresentFinish, Goto, InFlight
    <2> HIDE DEF n
    <2>4. ~transition[t].enabling /\ outcome[t]
      BY <1>2, <2>2, <2>3
    <2> QED
      BY <2>3, <2>4 DEF SerialInv, InFlightOwns, FinishIsCurrent
  <1>5. ASSUME NEW t \in Threads, ExternalObserved(t) PROVE actual' = managed.restore
    <2>1. /\ managed' = ObserveExternalSet(managed, requested[t])
          /\ actual' = requested[t]
      BY <1>5 DEF ExternalObserved, Goto, SerialInv, ObservedIsCurrent
    <2>2. CASE requested[t] # Expected(managed)
      BY <1>1, <2>1, <2>2 DEF ObserveExternalSet, Relinquish, ManagedState
    <2>3. CASE requested[t] = Expected(managed)
      <3>1. managed'.restore = IF managed.desired THEN managed.restore ELSE NoColorSpace
        BY <1>1, <2>1, <2>3 DEF ObserveExternalSet, ManagedState
      <3> QED
        BY <1>2, <2>1, <2>3, <3>1 DEF Expected
    <2> QED
      BY <2>2, <2>3
  <1>6. ASSUME NEW t \in Threads, ReconfigureDone(t) PROVE FALSE
    BY <1>1, <1>2, <1>6, ReapplyEffect DEF ReconfigureDone, Reapply, ManagedState
  <1>7. ASSUME NEW t \in Presenters, PresentBegin(t) PROVE FALSE
    BY <1>1, <1>2, <1>7 DEF PresentBegin, Begin, ManagedState
  <1>8. ASSUME NEW t \in Threads, Present(t), ~PresentFinish(t) PROVE FALSE
    BY <1>2, <1>8
       DEF Present, ValidateAccept, ValidateReject, SetColorSpaceSucceeds,
           SetColorSpaceFails
  <1>9. ASSUME NEW t \in Threads, QueryWithdraw(t) PROVE FALSE
    BY <1>3, <1>9 DEF QueryWithdraw
  <1>10. ASSUME NEW t \in Queriers, Query(t) PROVE FALSE
    BY <1>2, <1>3, <1>10 DEF Query, QueryEnable, QueryRefused
  <1>11. ASSUME NEW t \in Setters, NEW c \in ColorSpaces, ExternalSet(t, c) PROVE FALSE
    BY <1>2, <1>11 DEF ExternalSet
  <1>12. ASSUME NEW t \in Resizers, Reconfigure(t) PROVE FALSE
    BY <1>2, <1>12 DEF Reconfigure
  <1>13. CASE UNCHANGED vars
    BY <1>2, <1>13 DEF vars
  <1> QED
    BY <1>4, <1>5, <1>6, <1>7, <1>8, <1>9, <1>10, <1>11, <1>12, <1>13
       DEF Next, Continue

\* The invariant holds throughout when one thread presents, sets and resizes.
THEOREM SerialInvariant ==
    ASSUME OneRenderer
    PROVE  Spec => [](IInv /\ SerialInv)
  <1>1. IInv /\ SerialInv /\ [Next]_vars => (IInv /\ SerialInv)'
    BY InvStep, SerialStep
  <1> QED
    BY <1>1, InvInit, SerialInit, PTL DEF Spec

\* Desired HDR is not left on an SDR swap chain by a poll that comes between a
\* Present, a set or a resize and its bookkeeping.
THEOREM DesiredHdrIsSubmitted ==
    ASSUME OneRenderer
    PROVE  Spec => []HdrIsSubmitted
  BY SerialInvariant, PTL DEF SerialInv

\* PQ that this module submitted never outlives the baseline it replaced.
THEOREM PqIsNeverOrphaned ==
    ASSUME OneRenderer
    PROVE  Spec => []NoOrphanedPq
  <1>1. IInv /\ SerialInv => NoOrphanedPq
    BY DEF IInv, TypeOK, SerialInv, NoOrphanedPq
  <1> QED
    BY <1>1, SerialInvariant, PTL

=============================================================================
