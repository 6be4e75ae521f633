-------------------------- MODULE LifecycleProofs --------------------------
(***************************************************************************)
(* Proofs about Lifecycle, for any finite set of requests, any limits,     *)
(* any length of the two periods and any number of signals.  The inductive *)
(* invariant is InvOK: types, the counter, the time that each phase of the *)
(* shutdown may have taken, and who is told, cut off or let in by then.    *)
(***************************************************************************)
EXTENDS Lifecycle, FiniteSetTheorems, TLAPS

\* What a request has read of the counter leaves it a slot below its limit.
SlotsOK ==
    /\ inflight = Cardinality(Running)
    /\ \A r \in Requests :
        request[r].at = "loaded" /\ request[r].limit > 0 => request[r].seen < request[r].limit
    /\ \A r \in Running : request[r].limit > 0 => place[r] <= request[r].limit

\* How much time has passed in each phase.
TimeOK ==
    /\ phase \in {"starting", "serving"} => elapsed = 0
    /\ phase = "draining" => elapsed + wait = DrainDelay
    /\ phase = "waiting" => elapsed + wait = DrainDelay + ShutdownGrace
    /\ phase = "telling" => elapsed + wait = DrainDelay + ShutdownGrace + FinalErrors
    /\ phase = "closing" => elapsed + wait <= DrainDelay + ShutdownGrace + FinalErrors + TraceFlush
    /\ phase = "exited" => elapsed <= DrainDelay + ShutdownGrace + FinalErrors + TraceFlush

\* No request is let in after the listener, and those still there are told, then cut off.
CutOK ==
    /\ phase \in {"starting", "waiting", "telling", "closing", "exited"} => listening = FALSE
    /\ phase \notin {"closing", "exited"} => severed = {}
    /\ phase = "telling" => Active \subseteq told
    /\ phase \in {"starting", "closing"} => Active = {}

InvOK == TypeOK /\ SlotsOK /\ TimeOK /\ CutOK
----------------------------------------------------------------------------
\* The requests that run are finitely many.
LEMMA RunningFinite == IsFiniteSet(Running)
  BY LifecycleAssumption, FS_Subset DEF Running, At

\* Variables that do not change keep their types.
LEMMA SignalTypesKept == SignalTypeOK /\ UNCHANGED signalVars => SignalTypeOK'
  BY DEF SignalTypeOK, signalVars
LEMMA RunTypesKept == RunTypeOK /\ UNCHANGED runVars => RunTypeOK'
  BY DEF RunTypeOK, runVars
LEMMA SlotTypesKept == SlotTypeOK /\ UNCHANGED slotVars => SlotTypeOK'
  BY DEF SlotTypeOK, slotVars

\* Taking a signal leaves a queue of signals.
LEMMA TailKept ==
  ASSUME SignalTypeOK, notices # <<>>
  PROVE  /\ Tail(notices) \in Seq({"hangup", "terminate"})
         /\ Len(Tail(notices)) <= Capacity
  BY LifecycleAssumption DEF SignalTypeOK

\* Only who takes from the queue shortens it.
LEMMA NotTaken ==
  ASSUME SignalTypeOK, notices' = notices \/ \E x : notices' = Append(notices, x)
  PROVE  ~TakesTerminate
<1> SUFFICES ASSUME TakesTerminate PROVE FALSE
  OBVIOUS
<1>1. notices \in Seq({"hangup", "terminate"}) /\ notices # <<>> /\ notices' = Tail(notices)
  BY DEF SignalTypeOK, TakesTerminate
<1>2. Len(notices') = Len(notices) - 1 /\ Len(notices) \in Nat
  BY <1>1
<1>3. CASE notices' = notices
  BY <1>2, <1>3
<1>4. CASE \E x : notices' = Append(notices, x)
  <2>1. Len(notices') = Len(notices) + 1
    BY <1>1, <1>4
  <2> QED
    BY <1>2, <2>1
<1> QED
  BY <1>3, <1>4

\* The initial states.
LEMMA InitInv == Init => InvOK
<1> SUFFICES ASSUME Init PROVE InvOK
  OBVIOUS
<1> USE LifecycleAssumption DEF Init
<1>1. TypeOK
  <2>1. SignalTypeOK
    <3>1. notices \in Seq({"hangup", "terminate"}) /\ Len(notices) <= Capacity
      OBVIOUS
    <3>2. terminating \in BOOLEAN /\ reload \in BOOLEAN
      OBVIOUS
    <3>3. sent \in 0 .. MaxSignals
      OBVIOUS
    <3> QED
      BY <3>1, <3>2, <3>3 DEF SignalTypeOK
  <2>2. RunTypeOK
    BY DEF RunTypeOK
  <2>3. SlotTypeOK
    BY DEF SlotTypeOK
  <2> QED
    BY <2>1, <2>2, <2>3 DEF TypeOK
<1>2. Running = {} /\ Active = {}
  BY DEF Running, Active, At
<1>3. SlotsOK
  BY <1>2, FS_EmptySet DEF SlotsOK
<1>4. TimeOK /\ CutOK
  BY <1>2 DEF TimeOK, CutOK
<1> QED
  BY <1>1, <1>3, <1>4 DEF InvOK

----------------------------------------------------------------------------
(* The steps of one request                                                 *)

\* A step of one request leaves Run's state alone and keeps types and slots.
LEMMA HandleSlots ==
  ASSUME TypeOK, SlotsOK, NEW r \in Requests, Handle(r)
  PROVE  TypeOK' /\ SlotsOK'
<1> USE LifecycleAssumption, RunningFinite
<1> DEFINE Others == \A q \in Requests \ {r} : request'[q] = request[q] /\ place'[q] = place[q]
<1>t. /\ request \in [Requests ->
              [at : {"unsent", "arrived", "loaded", "refused", "running", "left"},
               limit : Limits \cup {0}, seen : Nat]]
      /\ place \in [Requests -> Nat] /\ inflight \in Nat /\ limit \in Nat /\ limit \in Limits
  BY DEF TypeOK, SlotTypeOK
<1>s. UNCHANGED <<signalVars, limit, published, runVars, cutVars>>
  BY DEF Handle, Arrive, Refuse, Load, Swap, SwapFails, Leave
<1>k. ASSUME /\ request' \in [Requests ->
                     [at : {"unsent", "arrived", "loaded", "refused", "running", "left"},
                      limit : Limits \cup {0}, seen : Nat]]
             /\ place' \in [Requests -> Nat] /\ inflight' \in Nat
      PROVE  TypeOK'
  BY <1>k, <1>s, SignalTypesKept, RunTypesKept DEF TypeOK, SlotTypeOK, cutVars
<1>u. ASSUME Running' = Running, inflight' = inflight, place' = place, Others,
             request'[r].at # "running",
             request'[r].at = "loaded" /\ request'[r].limit > 0 =>
                request'[r].seen < request'[r].limit
      PROVE  SlotsOK'
  BY <1>u DEF SlotsOK, Running, At
<1>1. CASE Arrive(r)
  BY <1>1, <1>t, <1>k, <1>u DEF Arrive, Running, At
<1>2. CASE Refuse(r)
  BY <1>2, <1>t, <1>k, <1>u DEF Refuse, Moves, Running, At
<1>3. CASE Load(r)
  <2>1. request'[r].at = "loaded" /\ request'[r].seen = inflight
        /\ request'[r].limit = request[r].limit
    BY <1>3, <1>t DEF Load
  <2>2. request[r].limit \in Limits \cup {0} /\ Limits \subseteq Nat
    BY <1>t
  <2>3. request'[r].limit > 0 => request'[r].seen < request'[r].limit
    BY <1>3, <1>t, <2>1, <2>2 DEF Load, Full
  <2>4. Running' = Running /\ Others
    BY <1>3, <1>t DEF Load, Running, At
  <2> QED
    BY <1>3, <1>t, <1>k, <1>u, <2>1, <2>3, <2>4 DEF Load
<1>4. CASE Swap(r)
  <2>1. r \notin Running /\ Running' = Running \cup {r} /\ Others
    BY <1>4, <1>t DEF Swap, Moves, Running, At
  <2>2. Cardinality(Running \cup {r}) = inflight + 1
    BY <2>1, FS_AddElement DEF SlotsOK
  <2>3. place'[r] = inflight + 1 /\ inflight' = inflight + 1
    BY <1>4, <1>t, <2>2 DEF Swap
  <2>4. request'[r].limit = request[r].limit /\ request'[r].at = "running"
        /\ request[r].limit \in Nat
    BY <1>4, <1>t DEF Swap, Moves
  <2>5. request[r].limit > 0 => place'[r] <= request[r].limit
    BY <1>4, <1>t, <2>3, <2>4 DEF Swap, SlotsOK
  <2>6. TypeOK'
    BY <1>4, <1>t, <1>k, <2>2 DEF Swap, Moves
  <2>7. SlotsOK'
    <3>1. inflight' = Cardinality(Running')
      BY <2>1, <2>2, <2>3
    <3>2. \A q \in Requests : request'[q].at = "loaded" /\ request'[q].limit > 0 =>
                request'[q].seen < request'[q].limit
      BY <2>1, <2>4 DEF SlotsOK
    <3>3. \A q \in Running' : request'[q].limit > 0 => place'[q] <= request'[q].limit
      BY <2>1, <2>4, <2>5 DEF SlotsOK, Running, At
    <3> QED
      BY <3>1, <3>2, <3>3 DEF SlotsOK
  <2> QED
    BY <2>6, <2>7
<1>5. CASE SwapFails(r)
  BY <1>5, <1>t, <1>k, <1>u DEF SwapFails, Moves, Running, At
<1>6. CASE Leave(r)
  <2>1. r \in Running /\ Running' = Running \ {r} /\ Others
    BY <1>6, <1>t DEF Leave, Moves, Running, At
  <2>2. Cardinality(Running \ {r}) = inflight - 1 /\ Cardinality(Running \ {r}) \in Nat
    BY <2>1, FS_RemoveElement, FS_CardinalityType DEF SlotsOK
  <2>3. inflight' = inflight - 1 /\ place' = place /\ request'[r].at = "left"
    BY <1>6, <1>t DEF Leave, Moves
  <2>4. TypeOK'
    BY <1>6, <1>t, <1>k, <2>2 DEF Leave, Moves
  <2>5. SlotsOK'
    BY <2>1, <2>2, <2>3 DEF SlotsOK, Running, At
  <2> QED
    BY <2>4, <2>5
<1> QED
  BY <1>1, <1>2, <1>3, <1>4, <1>5, <1>6 DEF Handle

\* A step of one request keeps what is known of the shutdown.
LEMMA HandleCuts ==
  ASSUME InvOK, NEW r \in Requests, Handle(r)
  PROVE  TimeOK' /\ CutOK' /\ EndsInOrder
<1>1. UNCHANGED <<runVars, cutVars>> /\ notices' = notices
  BY DEF Handle, Arrive, Refuse, Load, Swap, SwapFails, Leave, signalVars
<1>n. ~TakesTerminate
  BY <1>1, NotTaken DEF InvOK, TypeOK
<1>2. \/ listening
      \/ Active' \subseteq Active
  BY <1>1 DEF InvOK, TypeOK, RunTypeOK, SlotTypeOK, Handle, Arrive, Refuse, Load, Swap, SwapFails, Leave, Moves,
       Active, At, cutVars
<1> QED
  BY <1>1, <1>2, <1>n DEF InvOK, TimeOK, CutOK, EndsInOrder, runVars, cutVars

----------------------------------------------------------------------------
(* The steps of the process                                                 *)

\* Whatever leaves the requests alone keeps their slots.
LEMMA SlotsKept ==
  ASSUME SlotsOK, UNCHANGED slotVars
  PROVE  SlotsOK'
  BY DEF SlotsOK, slotVars, Running, At

\* The active requests, after a step that leaves requests and connections alone.
LEMMA ActiveKept ==
  ASSUME UNCHANGED request, UNCHANGED severed
  PROVE  Active' = Active
  BY DEF Active, At

\* A signal sent, taken or heeded.
LEMMA SignalStep ==
  ASSUME InvOK,
         (\E notice \in {"hangup", "terminate"} : Signal(notice)) \/ TakeNotice
  PROVE  InvOK' /\ EndsInOrder
<1> USE LifecycleAssumption
<1>a. TypeOK /\ SlotsOK /\ TimeOK /\ CutOK
  BY DEF InvOK
<1>1. ASSUME NEW notice \in {"hangup", "terminate"}, Signal(notice)
      PROVE  InvOK' /\ EndsInOrder
  <2>1. TypeOK'
    <3>1. SignalTypeOK'
      BY <1>1, <1>a DEF TypeOK, SignalTypeOK, Signal
    <3> QED
      BY <3>1, <1>1, <1>a, RunTypesKept, SlotTypesKept DEF TypeOK, Signal, cutVars
  <2>2. UNCHANGED <<runVars, slotVars, cutVars>>
    BY <1>1 DEF Signal
  <2>3. Active' = Active
    BY <2>2, ActiveKept DEF slotVars, cutVars
  <2>4. ~TakesTerminate
    BY <1>1, <1>a, NotTaken DEF TypeOK, Signal
  <2> QED
    BY <1>a, <2>1, <2>2, <2>3, <2>4, SlotsKept
      DEF InvOK, TimeOK, CutOK, EndsInOrder, runVars, cutVars
<1>2. CASE TakeHangup \/ Stop
  <2>1. TypeOK'
    <3>1. SignalTypeOK'
      <4>1. notices' \in Seq({"hangup", "terminate"}) /\ Len(notices') <= Capacity
        BY <1>2, <1>a, TailKept DEF TypeOK, TakeHangup, Stop
      <4>2. terminating' \in BOOLEAN /\ reload' \in BOOLEAN
        BY <1>2, <1>a DEF TypeOK, SignalTypeOK, TakeHangup, Stop
      <4>3. sent' = sent
        BY <1>2 DEF TakeHangup, Stop
      <4> QED
        BY <4>1, <4>2, <4>3, <1>a DEF TypeOK, SignalTypeOK
    <3> QED
      BY <3>1, <1>2, <1>a, RunTypesKept, SlotTypesKept DEF TypeOK, TakeHangup, Stop, cutVars
  <2>2. UNCHANGED <<runVars, slotVars, cutVars>>
    BY <1>2 DEF TakeHangup, Stop
  <2>3. Active' = Active
    BY <2>2, ActiveKept DEF slotVars, cutVars
  <2>4. ~(terminating /\ TakesTerminate)
    BY <1>2 DEF TakeHangup, Stop, TakesTerminate
  <2> QED
    BY <1>a, <2>1, <2>2, <2>3, <2>4, SlotsKept
      DEF InvOK, TimeOK, CutOK, EndsInOrder, runVars, cutVars
<1>3. CASE phase # "exited" /\ Kill
  <2>1. TypeOK'
    <3>0. notices' \in Seq({"hangup", "terminate"}) /\ Len(notices') <= Capacity
      BY <1>3, <1>a, TailKept DEF TypeOK, Kill
    <3>1. SignalTypeOK' /\ RunTypeOK'
      BY <3>0, <1>3, <1>a DEF TypeOK, SignalTypeOK, RunTypeOK, Kill
    <3>2. severed' \subseteq Requests
      BY <1>3, <1>a DEF TypeOK, Kill, Active, At
    <3> QED
      BY <3>1, <3>2, <1>3, <1>a, SlotTypesKept DEF TypeOK, Kill
  <2>2. SlotsOK'
    BY <1>3, <1>a, SlotsKept DEF Kill
  <2>3. Active' = {}
    BY <1>3 DEF Kill, slotVars, Active, At
  <2>4. TimeOK'
    BY <1>3, <1>a DEF TypeOK, RunTypeOK, TimeOK, Kill, FinalErrors, TraceFlush
  <2>5. CutOK'
    BY <1>3, <2>3 DEF CutOK, Kill
  <2>6. SignalledAgain
    BY <1>3 DEF Kill, SignalledAgain, TakesTerminate
  <2> QED
    BY <1>3, <2>1, <2>2, <2>3, <2>4, <2>5, <2>6 DEF InvOK, EndsInOrder, Kill
<1> QED
  BY <1>1, <1>2, <1>3 DEF TakeNotice

\* A configuration published, a listener that fails, a second that passes.
LEMMA OutsideStep ==
  ASSUME InvOK, Publish \/ ServeFails \/ Tick
  PROVE  InvOK' /\ EndsInOrder
<1> USE LifecycleAssumption
<1>a. TypeOK /\ SlotsOK /\ TimeOK /\ CutOK
  BY DEF InvOK
<1>1. SlotsOK' /\ Active' = Active
  BY <1>a, SlotsKept, ActiveKept DEF Publish, ServeFails, Tick, slotVars, cutVars
<1>n. ~TakesTerminate
  BY <1>a, NotTaken DEF TypeOK, Publish, ServeFails, Tick, signalVars
<1>2. CASE Publish
  <2>1. TypeOK'
    <3>0. SignalTypeOK'
      BY <1>2, <1>a DEF TypeOK, SignalTypeOK, Publish
    <3>1. SignalTypeOK' /\ published' \in 0 .. MaxReloads /\ limit' \in Limits
      BY <3>0, <1>2, <1>a DEF TypeOK, Publish
    <3> QED
      BY <3>1, <1>2, <1>a, RunTypesKept, SlotTypesKept DEF TypeOK, Publish, cutVars
  <2> QED
    BY <1>1, <1>2, <1>a, <1>n, <2>1 DEF InvOK, TimeOK, CutOK, EndsInOrder, Publish, runVars, cutVars
<1>3. CASE ServeFails
  <2>1. TypeOK'
    <3>1. RunTypeOK'
      BY <1>3, <1>a DEF TypeOK, RunTypeOK, ServeFails
    <3> QED
      BY <3>1, <1>3, <1>a, SignalTypesKept, SlotTypesKept DEF TypeOK, ServeFails, cutVars
  <2> QED
    BY <1>1, <1>3, <1>a, <1>n, <2>1 DEF InvOK, TimeOK, CutOK, EndsInOrder, ServeFails, cutVars
<1>4. CASE Tick
  <2>1. TypeOK'
    <3>1. RunTypeOK'
      BY <1>4, <1>a DEF TypeOK, RunTypeOK, Tick
    <3> QED
      BY <3>1, <1>4, <1>a, SignalTypesKept, SlotTypesKept DEF TypeOK, Tick, cutVars
  <2>2. TimeOK'
    BY <1>4, <1>a DEF TypeOK, RunTypeOK, TimeOK, Tick
  <2> QED
    BY <1>1, <1>4, <1>a, <1>n, <2>1, <2>2 DEF InvOK, CutOK, EndsInOrder, Tick, cutVars
<1> QED
  BY <1>2, <1>3, <1>4

\* A step of Server.Run.
LEMMA RunStep ==
  ASSUME InvOK, Run
  PROVE  InvOK' /\ EndsInOrder
<1> USE LifecycleAssumption DEF FinalErrors, TraceFlush, Runs
<1>a. TypeOK /\ SlotsOK /\ TimeOK /\ CutOK
  BY DEF InvOK
<1>b. SlotsOK' /\ UNCHANGED <<signalVars, limit, published, slotVars>>
  BY <1>a, SlotsKept
    DEF Run, Listen, ListenFails, BeginDrain, BeginShutdown, AllIdle, GraceExpires, CloseAll, Exit
<1>n. ~TakesTerminate
  BY <1>a, <1>b, NotTaken DEF TypeOK, signalVars
<1>c. elapsed \in Nat /\ wait \in Nat /\ DrainDelay \in Nat /\ ShutdownGrace \in Nat
  BY <1>a DEF TypeOK, RunTypeOK
<1>1. CASE Listen \/ ListenFails \/ BeginDrain \/ BeginShutdown \/ AllIdle \/ Exit
  <2>0. UNCHANGED cutVars
    BY <1>1 DEF Listen, ListenFails, BeginDrain, BeginShutdown, AllIdle, Exit
  <2>1. Active' = Active
    BY <1>b, <2>0, ActiveKept DEF slotVars, cutVars
  <2>2. TypeOK'
    <3>1. RunTypeOK'
      <4>1. phase' \in {"serving", "closing", "draining", "waiting", "exited"} /\ wait' \in Nat
            /\ elapsed' = elapsed
        BY <1>1, <1>c DEF Listen, ListenFails, BeginDrain, BeginShutdown, AllIdle, Exit
      <4>2. listening' \in BOOLEAN /\ failed' \in BOOLEAN
        BY <1>1, <1>a
          DEF TypeOK, RunTypeOK, Listen, ListenFails, BeginDrain, BeginShutdown, AllIdle, Exit
      <4> QED
        BY <4>1, <4>2, <1>c DEF RunTypeOK
    <3> QED
      BY <3>1, <1>a, <1>b, <2>0, SignalTypesKept, SlotTypesKept DEF TypeOK, cutVars
  <2>3. TimeOK'
    BY <1>1, <1>a, <1>c
      DEF TimeOK, Listen, ListenFails, BeginDrain, BeginShutdown, AllIdle, Exit
  <2>4. CutOK'
    BY <1>1, <1>a, <2>0, <2>1
      DEF CutOK, Listen, ListenFails, BeginDrain, BeginShutdown, AllIdle, Exit, cutVars
  <2>5. EndsInOrder
    BY <1>1, <1>a, <1>c, <1>n, <2>0, <2>1 DEF EndsInOrder, TimeOK, CutOK, Listen, ListenFails,
         BeginDrain, BeginShutdown, AllIdle, Exit, cutVars
  <2> QED
    BY <1>b, <2>2, <2>3, <2>4, <2>5 DEF InvOK
<1>2. CASE GraceExpires
  <2>1. Active' = Active
    BY <1>2, <1>b, ActiveKept DEF GraceExpires, slotVars
  <2>2. TypeOK'
    <3>1. RunTypeOK'
      BY <1>2, <1>a DEF TypeOK, RunTypeOK, GraceExpires
    <3> QED
      BY <3>1, <1>2, <1>a, <1>b, SignalTypesKept, SlotTypesKept DEF TypeOK, GraceExpires, Active, At
  <2>3. TimeOK' /\ CutOK'
    BY <1>2, <1>a, <1>c, <2>1 DEF TimeOK, CutOK, GraceExpires
  <2>4. EndsInOrder
    BY <1>2, <1>a, <1>c, <1>n DEF EndsInOrder, TimeOK, GraceExpires
  <2> QED
    BY <1>b, <2>2, <2>3, <2>4 DEF InvOK
<1>3. CASE CloseAll
  <2>1. Active' = {}
    BY <1>3, <1>b DEF CloseAll, slotVars, Active, At
  <2>2. TypeOK'
    <3>1. RunTypeOK'
      BY <1>3, <1>a DEF TypeOK, RunTypeOK, CloseAll
    <3> QED
      BY <3>1, <1>3, <1>a, <1>b, SignalTypesKept, SlotTypesKept DEF TypeOK, CloseAll, Active, At
  <2>3. TimeOK' /\ CutOK'
    BY <1>3, <1>a, <1>c, <2>1 DEF TimeOK, CutOK, CloseAll
  <2>4. severed' \subseteq told
    BY <1>3, <1>a DEF CloseAll, CutOK
  <2>5. EndsInOrder
    BY <1>3, <1>a, <1>c, <1>n, <2>4 DEF EndsInOrder, TimeOK, CutOK, CloseAll
  <2> QED
    BY <1>b, <2>2, <2>3, <2>5 DEF InvOK
<1> QED
  BY <1>1, <1>2, <1>3 DEF Run

\* Every step keeps the invariant and is one that a termination may make.
LEMMA NextInv ==
  ASSUME InvOK, [Next]_vars
  PROVE  InvOK' /\ [EndsInOrder]_vars
<1>1. CASE \E r \in Requests : Handle(r)
  <2>1. PICK r \in Requests : Handle(r)
    BY <1>1
  <2> QED
    BY <2>1, HandleSlots, HandleCuts DEF InvOK
<1>2. CASE (\E notice \in {"hangup", "terminate"} : Signal(notice)) \/ TakeNotice
  BY <1>2, SignalStep
<1>3. CASE Publish \/ ServeFails \/ Tick
  BY <1>3, OutsideStep
<1>4. CASE Run
  BY <1>4, RunStep
<1>5. CASE UNCHANGED vars
  BY <1>5 DEF vars, signalVars, runVars, slotVars, cutVars, InvOK, TypeOK, SignalTypeOK, RunTypeOK,
       SlotTypeOK, SlotsOK, TimeOK, CutOK, Running, Active, At
<1> QED
  BY <1>1, <1>2, <1>3, <1>4, <1>5 DEF Next

----------------------------------------------------------------------------
\* Every variable of Lifecycle keeps its type.
THEOREM TypeCorrect == Spec => []TypeOK
<1>1. InvOK => TypeOK
  BY DEF InvOK
<1> QED
  BY <1>1, InitInv, NextInv, PTL DEF Spec

\* admit counts every running request once and lets none in over its limit, however
\* loads and swaps of any number of requests interleave with reloads of the limit.
THEOREM NoSlotLost == Spec => []SlotsCounted
<1>1. InvOK => SlotsCounted
  BY DEF InvOK, SlotsOK, SlotsCounted
<1> QED
  BY <1>1, InitInv, NextInv, PTL DEF Spec

\* Run gives every request its time, whatever the drain delay and the grace are.
THEOREM RequestsGetTheirTime == Spec => NothingCutEarly
<1> QED
  BY InitInv, NextInv, PTL DEF Spec, NothingCutEarly

\* Five seconds beyond the two periods suffice, as the documentation says.
THEOREM MarginSuffices == Spec => []ExitsInTime
<1>1. InvOK => ExitsInTime
  <2> SUFFICES ASSUME InvOK PROVE ExitsInTime
    OBVIOUS
  <2> QED
    BY LifecycleAssumption
      DEF InvOK, TypeOK, RunTypeOK, TimeOK, ExitsInTime, FinalErrors, TraceFlush, Margin
<1> QED
  BY <1>1, InitInv, NextInv, PTL DEF Spec
=============================================================================
