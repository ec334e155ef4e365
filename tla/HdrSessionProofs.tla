--------------------------- MODULE HdrSessionProofs ---------------------------
(***************************************************************************)
(* HdrSession for any threads, settings, chains and bounds, when one       *)
(* thread creates and releases the swap chain: what ManagedColorSpace      *)
(* keeps for one chain is kept over a whole session, across the removal of *)
(* the state and the reuse of the address, and a baseline never reaches a  *)
(* chain it was not captured from.                                         *)
(***************************************************************************)
EXTENDS HdrSession, ManagedColorSpaceProofs

\* The swap chain is created and released on one thread. Where two threads do
\* it, states.remove for the old chain may hit the state of the new one.
OneOwner == \A s, t \in Owners : s = t

\* While no chain lives at the address, nobody is inside a hook, only the
\* thread that released it is still inside its Release, and another may come.
DeadChainIsUnused ==
    /\ \A t \in Threads : stage[t] = "freed" => t \in Owners /\ object = 0
    /\ object = 0 => /\ created < MaxObjects
                     /\ \A t \in Threads :
                          pc[t] = "idle" /\ stage[t] \in {"none", "freed"}

\* Once the release is complete, its state is gone from the map.
DeadChainHasNoState ==
    object = 0 => ~Owning(managed) \/ \E t \in Threads : stage[t] = "freed"

SessionInv ==
    /\ IInv
    /\ SessionTypeOK
    /\ DeadChainIsUnused
    /\ DeadChainHasNoState
    /\ BaselineBelongsToChain

-----------------------------------------------------------------------------
\* The initial state satisfies the invariant.
LEMMA SessionInit == InitSession => SessionInv
  <1> SUFFICES ASSUME InitSession PROVE SessionInv
    OBVIOUS
  <1>1. IInv /\ TypeOK
    BY InvInit, TypeInit DEF InitSession
  <1>2. SessionTypeOK
    BY <1>1, SessionBounds DEF InitSession, SessionTypeOK
  <1>3. DeadChainIsUnused /\ DeadChainHasNoState
    BY DEF InitSession, DeadChainIsUnused, DeadChainHasNoState
  <1>4. BaselineBelongsToChain
    BY DEF InitSession, Init, BaselineBelongsToChain, Owning
  <1> QED
    BY <1>1, <1>2, <1>3, <1>4 DEF SessionInv

-----------------------------------------------------------------------------
(* The steps that are steps of ManagedColorSpace, or leave its state alone. *)

ManagedStep ==
    \/ User
    \/ \E q \in Queriers : Poll(q)
    \/ \E t \in Threads : Finishing(t)
    \/ \E t \in Presenters : BeginPresent(t)
    \/ \E t \in Setters, c \in ColorSpaces : SetExternally(t, c)
    \/ \E t \in Resizers, s \in Shapes : Resize(t, s) \/ Retarget(t, s)

\* A poll, a hook or a change by the user is a step of ManagedColorSpace.
LEMMA StepsAreManaged == ManagedStep => [Next]_vars
  <1> SUFFICES ASSUME ManagedStep PROVE [Next]_vars
    OBVIOUS
  <1>1. CASE User
    BY <1>1 DEF User, ChangeRequest, ApplySetting
  <1>2. ASSUME NEW q \in Queriers, Poll(q) PROVE [Next]_vars
    <2>1. CASE PollRead(q) \/ PollHit(q) \/ \E works \in BOOLEAN : PollInspect(q, works)
      BY <2>1 DEF PollRead, PollHit, PollInspect
    <2>2. CASE PollEnable(q) \/ PollRefused(q)
      BY <2>2 DEF PollEnable, PollRefused, Query, Next
    <2>3. CASE PollWithdraw(q)
      BY <2>3 DEF PollWithdraw, Continue, Next, Threads
    <2> QED
      BY <1>2, <2>1, <2>2, <2>3 DEF Poll
  <1>3. ASSUME NEW t \in Threads, Finishing(t) PROVE [Next]_vars
    <2>1. CASE RetargetDone(t)
      BY <2>1 DEF RetargetDone
    <2>2. CASE ContinuePresent(t) \/ ObserveSet(t) \/ ResizeDone(t)
      BY <2>2 DEF ContinuePresent, ObserveSet, ResizeDone, Present, Continue, Next
    <2> QED
      BY <1>3, <2>1, <2>2 DEF Finishing
  <1>4. ASSUME NEW t \in Presenters, BeginPresent(t) PROVE [Next]_vars
    BY <1>4 DEF BeginPresent, Next
  <1>5. ASSUME NEW t \in Setters, NEW c \in ColorSpaces, SetExternally(t, c)
        PROVE  [Next]_vars
    BY <1>5 DEF SetExternally, Next
  <1>6. ASSUME NEW t \in Resizers, NEW s \in Shapes, Resize(t, s) \/ Retarget(t, s)
        PROVE  [Next]_vars
    BY <1>6 DEF Resize, Retarget, Next
  <1> QED
    BY <1>1, <1>2, <1>3, <1>4, <1>5, <1>6 DEF ManagedStep


\* What it can do to the baseline: only a poll that requests HDR captures one,
\* and it belongs to the chain that has the address.
LEMMA BaselineStep ==
    ASSUME SessionInv, ManagedStep
    PROVE  /\ Owning(managed') => \/ Owning(managed) /\ holder' = holder
                                  \/ ~Owning(managed) /\ holder' = object
           /\ object' = object
           /\ Owning(managed') /\ ~Owning(managed) => object # 0
  <1>1. /\ managed \in ManagedState /\ observed \in ColorSpaces
        /\ requested \in [Threads -> ColorSpaces]
        /\ transition \in [Threads -> Transition]
        /\ outcome \in [Threads -> BOOLEAN]
    BY DEF SessionInv, IInv, TypeOK
  <1>2. CASE User
    BY <1>2 DEF User, ChangeRequest, ApplySetting, vars, chainVars
  <1>3. ASSUME NEW q \in Queriers, Poll(q)
        PROVE  /\ Owning(managed') => \/ Owning(managed) /\ holder' = holder
                                      \/ ~Owning(managed) /\ holder' = object
               /\ object' = object
               /\ Owning(managed') /\ ~Owning(managed) => object # 0
    <2>1. CASE PollRead(q) \/ PollHit(q) \/ \E works \in BOOLEAN : PollInspect(q, works)
      BY <2>1 DEF PollRead, PollHit, PollInspect, vars, chainVars
    <2>2. CASE PollEnable(q)
      <3>1. stage[q] = "eligible"
        BY <2>2 DEF PollEnable, Step
      <3>2. object # 0
        BY <3>1, <1>3 DEF SessionInv, DeadChainIsUnused, Threads
      <3> QED
        BY <2>2, <3>2 DEF PollEnable, chainVars
    <2>3. CASE PollRefused(q)
      BY <2>3 DEF PollRefused, QueryRefused, chainVars
    <2>4. CASE PollWithdraw(q)
      <3>1. managed' = Request(managed, FALSE, observed)
        BY <2>4 DEF PollWithdraw, QueryWithdraw
      <3>2. Owning(managed') => Owning(managed)
        BY <1>1, <3>1, RequestEffect DEF Owning
      <3> QED
        BY <2>4, <3>2 DEF PollWithdraw, sessionVars
    <2> QED
      BY <1>3, <2>1, <2>2, <2>3, <2>4 DEF Poll
  <1>4. ASSUME NEW t \in Threads, Finishing(t)
        PROVE  /\ Owning(managed') => Owning(managed)
               /\ holder' = holder /\ object' = object
    <2>1. transition[t] \in Transition /\ outcome[t] \in BOOLEAN
          /\ requested[t] \in ColorSpaces
      BY <1>1
    <2>2. CASE RetargetDone(t)
      BY <2>2 DEF RetargetDone, vars
    <2>3. CASE ResizeDone(t)
      <3>1. Owning(managed') => Owning(managed)
        BY <1>1, <2>3, ReapplyEffect DEF ResizeDone, ReconfigureDone, Owning
      <3> QED
        BY <2>3, <3>1 DEF ResizeDone
    <2>4. CASE ObserveSet(t)
      <3>1. managed' = ObserveExternalSet(managed, requested[t])
        BY <2>4 DEF ObserveSet, ExternalObserved
      <3>2. Owning(managed') => Owning(managed)
        BY <1>1, <2>1, <3>1, ObserveEffect DEF Owning
      <3> QED
        BY <2>4, <3>2 DEF ObserveSet, sessionVars
    <2>5. CASE ContinuePresent(t)
      <3>1. CASE PresentFinish(t)
        <4>1. managed' = Finish(managed, transition[t], outcome[t])
          BY <3>1 DEF PresentFinish
        <4> QED
          BY <1>1, <2>1, <2>5, <4>1, FinishEffect
             DEF ContinuePresent, Owning, sessionVars
      <3>2. CASE ~PresentFinish(t)
        BY <2>5, <3>2
           DEF ContinuePresent, ValidateAccept, ValidateReject, sessionVars,
               SetColorSpaceSucceeds, SetColorSpaceFails
      <3> QED
        BY <3>1, <3>2
    <2> QED
      BY <1>4, <2>2, <2>3, <2>4, <2>5 DEF Finishing
  <1>5. ASSUME NEW t \in Presenters, BeginPresent(t)
        PROVE  /\ Owning(managed') => Owning(managed)
               /\ holder' = holder /\ object' = object
    BY <1>5 DEF BeginPresent, PresentBegin, CanBegin, sessionVars
  <1>6. ASSUME NEW t \in Setters, NEW c \in ColorSpaces, SetExternally(t, c)
        PROVE  managed' = managed /\ holder' = holder /\ object' = object
    BY <1>6 DEF SetExternally, ExternalSet, sessionVars
  <1>7. ASSUME NEW t \in Resizers, NEW s \in Shapes, Resize(t, s) \/ Retarget(t, s)
        PROVE  managed' = managed /\ holder' = holder /\ object' = object
    BY <1>7 DEF Resize, Retarget, Reconfigure, vars
  <1> QED
    BY <1>2, <1>3, <1>4, <1>5, <1>6, <1>7 DEF ManagedStep, Owning

\* Without a chain only the user acts, and these steps never begin a Release.
LEMMA StageStep ==
    ASSUME SessionInv, ManagedStep
    PROVE  /\ object = 0 => User
           /\ \A t \in Threads : stage'[t] = "freed" => stage[t] = "freed"
           /\ stage' \in [Threads -> {"none", "wanted", "unwanted", "eligible",
                                     "retargeted", "freed"}]
  <1>1. stage \in [Threads -> {"none", "wanted", "unwanted", "eligible",
                              "retargeted", "freed"}]
    BY DEF SessionInv, SessionTypeOK
  <1>0. object = 0 =>
          \A t \in Threads : pc[t] = "idle" /\ stage[t] \in {"none", "freed"}
    BY DEF SessionInv, DeadChainIsUnused
  <1> DEFINE Fine == /\ object # 0
                     /\ \A t \in Threads : stage'[t] = "freed" => stage[t] = "freed"
                     /\ stage' \in [Threads -> {"none", "wanted", "unwanted",
                                    "eligible", "retargeted", "freed"}]
  <1>2. CASE User
    BY <1>1, <1>2 DEF User, ChangeRequest, ApplySetting
  <1>3. ASSUME NEW q \in Queriers, Poll(q) PROVE Fine
    <2>1. CASE PollRead(q)
      BY <1>1, <2>1 DEF PollRead, Step, Free
    <2>2. CASE PollHit(q)
      BY <1>1, <1>0, <2>2 DEF PollHit, Step, Threads
    <2>3. ASSUME NEW works \in BOOLEAN, PollInspect(q, works) PROVE Fine
      BY <1>1, <1>0, <2>3 DEF PollInspect, Step, Threads
    <2>4. CASE PollEnable(q)
      BY <1>1, <1>0, <2>4 DEF PollEnable, Step, Threads
    <2>5. CASE PollRefused(q)
      BY <1>1, <1>0, <2>5 DEF PollRefused, Step, Threads
    <2>6. CASE PollWithdraw(q)
      BY <1>1, <1>0, <2>6 DEF PollWithdraw, QueryWithdraw, Goto, sessionVars, Threads
    <2> QED
      BY <1>3, <2>1, <2>2, <2>3, <2>4, <2>5, <2>6 DEF Poll
  <1>4. ASSUME NEW t \in Threads, Finishing(t) PROVE Fine
    <2>1. CASE RetargetDone(t)
      BY <1>1, <1>0, <2>1 DEF RetargetDone, Step
    <2>2. CASE ResizeDone(t)
      BY <1>1, <1>0, <2>2 DEF ResizeDone, ReconfigureDone, Goto
    <2>3. CASE ObserveSet(t)
      BY <1>1, <1>0, <2>3 DEF ObserveSet, ExternalObserved, Goto, sessionVars
    <2>4. CASE ContinuePresent(t)
      BY <1>1, <1>0, <2>4
         DEF ContinuePresent, ValidateAccept, ValidateReject, PresentFinish,
             SetColorSpaceSucceeds, SetColorSpaceFails, Goto, sessionVars
    <2> QED
      BY <1>4, <2>1, <2>2, <2>3, <2>4 DEF Finishing
  <1>5. ASSUME NEW t \in Presenters, BeginPresent(t) PROVE Fine
    BY <1>1, <1>5 DEF BeginPresent, Free, sessionVars
  <1>6. ASSUME NEW t \in Setters, NEW c \in ColorSpaces, SetExternally(t, c)
        PROVE  Fine
    BY <1>1, <1>6 DEF SetExternally, Free, sessionVars
  <1>7. ASSUME NEW t \in Resizers, NEW s \in Shapes, Resize(t, s) \/ Retarget(t, s)
        PROVE  Fine
    BY <1>1, <1>7 DEF Resize, Retarget, Free, Step
  <1> QED
    BY <1>2, <1>3, <1>4, <1>5, <1>6, <1>7 DEF ManagedStep

\* The types of what the session adds.
LEMMA SessionTypeStep ==
    ASSUME SessionInv, ManagedStep, TypeOK'
    PROVE  SessionTypeOK'
  <1> USE DEF SessionInv, SessionTypeOK, Shapes
  <1>1. stage' \in [Threads -> {"none", "wanted", "unwanted", "eligible",
                               "retargeted", "freed"}]
    BY StageStep
  <1>2. object' = object
    BY BaselineStep
  <1>3. object \in 0..MaxObjects
    BY SessionBounds
  <1> DEFINE Fine == /\ holder' \in {holder, object} /\ created' = created
                     /\ setting' \in {"unknown", "off", "on"}
                     /\ request' \in BOOLEAN
                     /\ changes' \in 0..MaxChanges
                     /\ shape' \in Shapes
                     /\ revision' \in Nat
                     /\ cache' \in [revision : Nat, eligible : BOOLEAN]
  <1>4. ASSUME User PROVE Fine
    <2>1. CASE ChangeRequest
      <3>1. changes' \in 0..MaxChanges
        BY <2>1, SessionBounds DEF ChangeRequest
      <3> QED
        BY <2>1, <3>1 DEF ChangeRequest, chainVars
    <2>2. ASSUME NEW value \in {"off", "on"}, ApplySetting(value) PROVE Fine
      BY <2>2, SessionBounds DEF ApplySetting, chainVars
    <2> QED
      BY <1>4, <2>1, <2>2 DEF User
  <1>5. ASSUME NEW q \in Queriers, Poll(q) PROVE Fine
    <2>1. CASE PollRead(q) \/ PollHit(q)
      BY <2>1 DEF PollRead, PollHit, userVars, chainVars
    <2>2. ASSUME NEW works \in BOOLEAN, PollInspect(q, works) PROVE Fine
      BY <2>2 DEF PollInspect, userVars
    <2>3. CASE PollEnable(q) \/ PollRefused(q)
      BY <2>3 DEF PollEnable, PollRefused, userVars, chainVars
    <2>4. CASE PollWithdraw(q)
      BY <2>4 DEF PollWithdraw, sessionVars
    <2> QED
      BY <1>5, <2>1, <2>2, <2>3, <2>4 DEF Poll
  <1>6. ASSUME NEW t \in Threads, Finishing(t) PROVE Fine
    <2>1. CASE RetargetDone(t) \/ ResizeDone(t)
      BY <2>1 DEF RetargetDone, ResizeDone, userVars
    <2>2. CASE ObserveSet(t) \/ ContinuePresent(t)
      BY <2>2 DEF ObserveSet, ContinuePresent, sessionVars
    <2> QED
      BY <1>6, <2>1, <2>2 DEF Finishing
  <1>7. ASSUME NEW t \in Presenters, BeginPresent(t) PROVE Fine
    BY <1>7 DEF BeginPresent, sessionVars
  <1>8. ASSUME NEW t \in Setters, NEW c \in ColorSpaces, SetExternally(t, c)
        PROVE  Fine
    BY <1>8 DEF SetExternally, sessionVars
  <1>9. ASSUME NEW t \in Resizers, NEW s \in Shapes, Resize(t, s) \/ Retarget(t, s)
        PROVE  Fine
    BY <1>9 DEF Resize, Retarget, userVars
  <1>10. Fine
    BY <1>4, <1>5, <1>6, <1>7, <1>8, <1>9 DEF ManagedStep
  <1> QED
    BY <1>1, <1>2, <1>3, <1>10

-----------------------------------------------------------------------------
(* The life of the address.                                                  *)

\* A hook, a poll or a change by the user keeps the invariant.
LEMMA ManagedStepKeepsInv ==
    ASSUME SessionInv, ManagedStep
    PROVE  SessionInv'
  <1>1. IInv' /\ TypeOK'
    BY StepsAreManaged, InvStep, TypeStep DEF SessionInv, IInv
  <1>2. SessionTypeOK'
    BY <1>1, SessionTypeStep
  <1>3. object' = object
    BY BaselineStep
  <1>4. DeadChainIsUnused'
    <2>1. CASE object # 0
      BY <1>3, <2>1, StageStep DEF SessionInv, DeadChainIsUnused
    <2>2. CASE object = 0
      <3>1. pc' = pc /\ stage' = stage
        BY <2>2, StageStep DEF User, ChangeRequest, ApplySetting, vars
      <3>2. created' = created
        BY <2>2, StageStep DEF User, ChangeRequest, ApplySetting, chainVars
      <3> QED
        BY <1>3, <3>1, <3>2 DEF SessionInv, DeadChainIsUnused
    <2> QED
      BY <2>1, <2>2
  <1>5. DeadChainHasNoState'
    <2>1. CASE object # 0
      BY <1>3, <2>1 DEF DeadChainHasNoState
    <2>2. CASE object = 0
      <3>1. managed' = managed /\ stage' = stage
        BY <2>2, StageStep DEF User, ChangeRequest, ApplySetting, vars
      <3> QED
        BY <1>3, <3>1 DEF SessionInv, DeadChainHasNoState
    <2> QED
      BY <2>1, <2>2
  <1>6. BaselineBelongsToChain'
    BY BaselineStep DEF SessionInv, BaselineBelongsToChain
  <1> QED
    BY <1>1, <1>2, <1>4, <1>5, <1>6 DEF SessionInv

\* The forwarded last Release only frees the chain.
LEMMA ReleaseKeepsInv ==
    ASSUME SessionInv, NEW t \in Owners, ReleaseChain(t)
    PROVE  SessionInv'
  <1>1. IInv' /\ TypeOK'
    BY InvStep, TypeStep DEF ReleaseChain, SessionInv, IInv
  <1>2. t \in Threads
    BY OwnersAssumption
  <1>3. SessionTypeOK'
    BY <1>1, <1>2 DEF SessionInv, SessionTypeOK, ReleaseChain, Step, userVars
  <1>4. DeadChainIsUnused'
    BY <1>2 DEF SessionInv, SessionTypeOK, ReleaseChain, Step, Free, vars,
                DeadChainIsUnused
  <1>5. DeadChainHasNoState'
    BY <1>2 DEF SessionInv, SessionTypeOK, ReleaseChain, Step, DeadChainHasNoState
  <1>6. BaselineBelongsToChain'
    BY DEF ReleaseChain, BaselineBelongsToChain
  <1> QED
    BY <1>1, <1>3, <1>4, <1>5, <1>6 DEF SessionInv

\* Removing the state of a dead chain: nobody is inside a transition.
LEMMA RemoveKeepsInv ==
    ASSUME SessionInv, NEW t \in Owners, RemoveState(t)
    PROVE  SessionInv'
  <1> DEFINE fresh == [restore |-> NoColorSpace, desired |-> FALSE,
                       pending |-> FALSE, inProgress |-> FALSE,
                       latched |-> FALSE, epoch |-> 0]
  <1>1. t \in Threads /\ stage[t] = "freed"
    BY OwnersAssumption DEF RemoveState, Step
  <1>2. object = 0 /\ \A u \in Threads : pc[u] = "idle"
    BY <1>1 DEF SessionInv, DeadChainIsUnused
  <1>3. fresh \in ManagedState /\ managed' = fresh
    BY DEF RemoveState, ManagedState
  <1>4. TypeOK'
    BY <1>3, ColorSpaceAssumption DEF SessionInv, IInv, TypeOK, RemoveState
  <1>5. \A u \in Threads : ~InFlight(u)'
    BY <1>2 DEF RemoveState, InFlight
  <1>6. lateEnables' = 0
    BY DEF RemoveState
  <1>7. IInv'
    BY <1>3, <1>4, <1>5, <1>6
       DEF IInv, AtMostOneTransition, DesiredHasBaseline,
           CurrentTransitionIsDesired, NoForgottenRestore, InFlightIsMarked,
           InFlightIsPast, RetryIsSpent, Owning
  <1>8. SessionTypeOK'
    <2>1. revision' \in Nat /\ holder' \in 0..MaxObjects
      BY SessionBounds DEF SessionInv, SessionTypeOK, RemoveState
    <2> QED
      BY <1>1, <1>4, <2>1
         DEF SessionInv, SessionTypeOK, RemoveState, Step, userVars
  <1>9. DeadChainIsUnused' /\ DeadChainHasNoState' /\ BaselineBelongsToChain'
    BY <1>1, <1>2, <1>3
       DEF SessionInv, SessionTypeOK, RemoveState, Step, DeadChainIsUnused,
           DeadChainHasNoState, BaselineBelongsToChain, Owning
  <1> QED
    BY <1>7, <1>8, <1>9 DEF SessionInv

\* A new chain meets no state of an older one: its creator is the thread that
\* released the last chain, and has finished that Release.
LEMMA CreateKeepsInv ==
    ASSUME SessionInv, OneOwner, NEW t \in Owners, NEW s \in Shapes,
           CreateChain(t, s)
    PROVE  SessionInv'
  <1>1. t \in Threads /\ object = 0 /\ stage[t] = "none" /\ created < MaxObjects
    BY OwnersAssumption DEF CreateChain, SessionInv, DeadChainIsUnused
  <1>2. \A u \in Threads : stage[u] # "freed"
    BY <1>1 DEF SessionInv, DeadChainIsUnused, OneOwner
  <1>3. ~Owning(managed)
    BY <1>1, <1>2 DEF SessionInv, DeadChainHasNoState
  <1>4. TypeOK'
    BY ColorSpaceAssumption DEF SessionInv, IInv, TypeOK, CreateChain
  <1>5. IInv'
    BY <1>4, UnmovedKeepsInv DEF SessionInv, CreateChain, InFlight
  <1>6. SessionTypeOK'
    BY <1>1, <1>4, SessionBounds DEF SessionInv, SessionTypeOK, CreateChain, userVars
  <1>7. DeadChainIsUnused' /\ DeadChainHasNoState'
    BY <1>2 DEF SessionInv, SessionTypeOK, DeadChainIsUnused,
                DeadChainHasNoState, CreateChain
  <1>8. BaselineBelongsToChain'
    BY <1>3 DEF CreateChain, BaselineBelongsToChain
  <1> QED
    BY <1>5, <1>6, <1>7, <1>8 DEF SessionInv

\* Every step of a session keeps the invariant.
LEMMA SessionStep ==
    ASSUME SessionInv, OneOwner, [NextSession]_allVars
    PROVE  SessionInv'
  <1>1. CASE ManagedStep
    BY <1>1, ManagedStepKeepsInv
  <1>2. ASSUME NEW t \in Owners,
               ReleaseChain(t) \/ RemoveState(t) \/ \E s \in Shapes : CreateChain(t, s)
        PROVE  SessionInv'
    BY <1>2, ReleaseKeepsInv, RemoveKeepsInv, CreateKeepsInv
  <1>3. CASE UNCHANGED allVars
    <2>1. IInv' /\ TypeOK'
      BY <1>3, InvStep, TypeStep DEF allVars, SessionInv, IInv
    <2> QED
      BY <1>3, <2>1
         DEF allVars, vars, sessionVars, SessionInv, SessionTypeOK,
             DeadChainIsUnused, DeadChainHasNoState, BaselineBelongsToChain
  <1> QED
    BY <1>1, <1>2, <1>3 DEF NextSession, ManagedStep

\* The invariant holds throughout every session with one owner.
THEOREM SessionInvariant ==
    ASSUME OneOwner
    PROVE  SpecSession => []SessionInv
  <1>1. SessionInv /\ [NextSession]_allVars => SessionInv'
    BY SessionStep
  <1> QED
    BY SessionInit, <1>1, PTL DEF SpecSession

\* A baseline is never given back to a chain it was not captured from, although
\* chains share an address and the state is keyed by it.
THEOREM BaselinesStayWithTheirChain ==
    ASSUME OneOwner
    PROVE  SpecSession => []BaselineBelongsToChain
  BY SessionInvariant, PTL DEF SessionInv

\* What is proved of one chain's managed color space holds in a session, where
\* chains come and go and the request depends on the setting and the cache.
THEOREM SessionKeepsManagedSafety ==
    ASSUME OneOwner
    PROVE  SpecSession => [](/\ SessionTypeOK
                             /\ AtMostOneTransition
                             /\ DesiredHasBaseline
                             /\ CurrentTransitionIsDesired
                             /\ NoForgottenRestore
                             /\ BoundedRetry)
  <1>1. SessionInv => /\ SessionTypeOK
                      /\ AtMostOneTransition
                      /\ DesiredHasBaseline
                      /\ CurrentTransitionIsDesired
                      /\ NoForgottenRestore
                      /\ BoundedRetry
    BY DEF SessionInv, IInv, RetryIsSpent, BoundedRetry
  <1> QED
    BY <1>1, SessionInvariant, PTL

-----------------------------------------------------------------------------
(* With one renderer as well: what presents, sets and resizes is one thread. *)

\* The renderer's invariant survives the chain: the removal of the state and
\* the next chain come while nobody is inside a hook.
LEMMA SessionSerialStep ==
    ASSUME OneOwner, OneRenderer, SessionInv, SerialInv, [NextSession]_allVars
    PROVE  SerialInv'
  <1>1. CASE ManagedStep \/ UNCHANGED allVars
    <2>1. [Next]_vars
      BY <1>1, StepsAreManaged DEF allVars
    <2> QED
      BY <2>1, SerialStep DEF SessionInv
  <1>2. ASSUME NEW t \in Owners, ReleaseChain(t) PROVE SerialInv'
    <2>1. [Next]_vars
      BY <1>2 DEF ReleaseChain
    <2> QED
      BY <2>1, SerialStep DEF SessionInv
  <1>3. ASSUME NEW t \in Owners, RemoveState(t) PROVE SerialInv'
    <2>1. object = 0 /\ \A u \in Threads : pc[u] = "idle"
      BY <1>3, OwnersAssumption DEF RemoveState, Step, SessionInv, DeadChainIsUnused
    <2>2. pc' = pc /\ ours' = FALSE /\ ~managed'.desired
      BY <1>3, <2>1 DEF RemoveState
    <2> QED
      BY <2>1, <2>2
         DEF SerialInv, OnlyRenderersAreBusy, InFlightOwns, InFlight, Busy,
             FinishIsCurrent, ObservedIsCurrent, HdrIsSubmitted
  <1>4. ASSUME NEW t \in Owners, NEW s \in Shapes, CreateChain(t, s)
        PROVE  SerialInv'
    <2>1. /\ t \in Threads /\ object = 0 /\ stage[t] = "none"
          /\ \A u \in Threads : pc[u] = "idle"
      BY <1>4, OwnersAssumption DEF CreateChain, SessionInv, DeadChainIsUnused
    <2>2. \A u \in Threads : stage[u] # "freed"
      BY <2>1 DEF SessionInv, DeadChainIsUnused, OneOwner
    <2>3. ~managed.desired
      BY <2>1, <2>2 DEF SessionInv, DeadChainHasNoState, IInv, DesiredHasBaseline
    <2>4. pc' = pc /\ ours' = FALSE /\ managed' = managed
      BY <1>4 DEF CreateChain
    <2> QED
      BY <2>1, <2>3, <2>4
         DEF SerialInv, OnlyRenderersAreBusy, InFlightOwns, InFlight, Busy,
             FinishIsCurrent, ObservedIsCurrent, HdrIsSubmitted
  <1> QED
    BY <1>1, <1>2, <1>3, <1>4 DEF NextSession, ManagedStep

\* Over a whole session, HDR that is desired and settled is presented in PQ, and
\* PQ this module submitted does not outlive the baseline it replaced, whatever
\* polls come between a call into DXGI and its bookkeeping.
THEOREM SessionsLeaveNoColorSpaceBehind ==
    ASSUME OneOwner, OneRenderer
    PROVE  SpecSession => [](HdrIsSubmitted /\ NoOrphanedPq)
  <1>1. InitSession => SessionInv /\ SerialInv
    BY SessionInit, SerialInit DEF InitSession
  <1>2. SessionInv /\ SerialInv /\ [NextSession]_allVars => (SessionInv /\ SerialInv)'
    BY SessionStep, SessionSerialStep
  <1>3. SessionInv /\ SerialInv => HdrIsSubmitted /\ NoOrphanedPq
    BY DEF SessionInv, IInv, TypeOK, SerialInv, NoOrphanedPq
  <1> QED
    BY <1>1, <1>2, <1>3, PTL DEF SpecSession

\* And what the baseline is for: when it is released, unless for good, the swap
\* chain is back in it.
THEOREM ReleasedChainsAreRestored ==
    ASSUME OneOwner, OneRenderer
    PROVE  SpecSession => RestoredOnRelease
  <1> DEFINE Restored ==
               object # 0 /\ Owning(managed) /\ ~Owning(managed') /\ ~managed'.latched
                 => actual' = managed.restore
  <1>1. InitSession => SessionInv /\ SerialInv
    BY SessionInit, SerialInit DEF InitSession
  <1>2. SessionInv /\ SerialInv /\ [NextSession]_allVars => (SessionInv /\ SerialInv)'
    BY SessionStep, SessionSerialStep
  <1>3. SessionInv /\ SerialInv /\ [NextSession]_allVars => [Restored]_allVars
    <2> SUFFICES ASSUME SessionInv, SerialInv, NextSession PROVE Restored
      OBVIOUS
    <2>1. CASE ManagedStep
      BY <2>1, StepsAreManaged, ReleaseStep DEF SessionInv
    <2>2. ASSUME NEW t \in Owners, ReleaseChain(t) PROVE Restored
      BY <2>2 DEF ReleaseChain, vars
    <2>3. ASSUME NEW t \in Owners, RemoveState(t) PROVE Restored
      BY <2>3, OwnersAssumption DEF RemoveState, Step, SessionInv, DeadChainIsUnused
    <2>4. ASSUME NEW t \in Owners, NEW s \in Shapes, CreateChain(t, s) PROVE Restored
      BY <2>4 DEF CreateChain
    <2> QED
      BY <2>1, <2>2, <2>3, <2>4 DEF NextSession, ManagedStep
  <1> QED
    BY <1>1, <1>2, <1>3, PTL DEF SpecSession, RestoredOnRelease

=============================================================================
