------------------------- MODULE WanoPipelineProofs -------------------------
(***************************************************************************)
(* Proofs about WanoPipeline for any list of plug-ins: types, the mutual   *)
(* exclusion of plug-ins that share a mask bit, the absence of callbacks   *)
(* for cancelled plug-ins, the wake-up of every resting state and the      *)
(* truth of the uplink table.                                              *)
(***************************************************************************)
EXTENDS WanoPipeline, TLAPS

-----------------------------------------------------------------------------
(* Types.                                                                  *)

(* Destroying plug-in instances keeps the types of what they own. *)
LEMMA ReleaseType ==
    ASSUME TypeOK, NEW W \in SUBSET Plugins, Release(W)
    PROVE  /\ timeout' \subseteq Plugins /\ own' \subseteq Plugins /\ child' \subseteq Plugins
           /\ status' \in [Plugins -> Statuses \cup {NoStatus}]
BY DEF TypeOK, Release

(* A reset leaves plug-ins ACTIVE, DETACHED or PENDING. *)
LEMMA ResetType ==
    ASSUME TypeOK, NEW force \in BOOLEAN, PluginReset(force)
    PROVE  /\ plugin' \in [Plugins -> PluginStates]
           /\ timeout' \subseteq Plugins /\ own' \subseteq Plugins /\ child' \subseteq Plugins
           /\ status' \in [Plugins -> Statuses \cup {NoStatus}]
<1> DEFINE kept == IF force THEN {} ELSE In("ACTIVE") \cup In("DETACHED")
<1>1. plugin' \in [Plugins -> PluginStates]
  BY DEF TypeOK, PluginReset, PluginStates, In
<1>2. Release(Plugins \ kept)
  BY DEF PluginReset
<1>. QED BY <1>1, <1>2, ReleaseType

(* So does moving one plug-in to IDLE. *)
LEMMA ToIdleType ==
    ASSUME TypeOK, NEW w \in Plugins, ToIdle(w)
    PROVE  /\ plugin' \in [Plugins -> PluginStates]
           /\ timeout' \subseteq Plugins /\ own' \subseteq Plugins /\ child' \subseteq Plugins
           /\ status' \in [Plugins -> Statuses \cup {NoStatus}]
BY ReleaseType DEF TypeOK, ToIdle, PluginStates

(* Every action keeps the types of the variables. *)
LEMMA TypeStep ==
    ASSUME TypeOK, [Next]_vars
    PROVE  TypeOK'
<1> USE DEF pluginVars, wanVars, timerVars, envVars, Goto, Stay, Entry
<1>a. /\ uplink.L2 \in Tri /\ uplink.L3 \in Tri
      /\ \A t \in Tri : [uplink EXCEPT !.L3 = t] \in [L2 : Tri, L3 : Tri]
      /\ \A t \in Tri : [uplink EXCEPT !.L2 = t] \in [L2 : Tri, L3 : Tri]
      /\ \A s, t \in Tri : [L2 |-> s, L3 |-> t] \in [L2 : Tri, L3 : Tri]
  BY DEF TypeOK
<1>b. {"unset", "true", "false"} = Tri
  BY DEF Tri
<1>1. CASE InitState
  BY <1>1, <1>a, <1>b, ResetType, Zenon DEF TypeOK, InitState, States
<1>2. CASE StartState
  BY <1>2 DEF TypeOK, StartState, States
<1>3. CASE EnableState
  BY <1>3, Zenon DEF TypeOK, EnableState
<1>4. CASE CarrierState
  BY <1>4, Zenon DEF TypeOK, CarrierState
<1>5. CASE SchedState
  <2>1. plugin' \in [Plugins -> PluginStates]
    BY <1>5 DEF TypeOK, SchedState, Schedule, PluginStates
  <2>. QED BY <1>5, <2>1 DEF TypeOK, SchedState, States
<1>6. CASE Ipv4ResetState
  BY <1>6, Zenon DEF TypeOK, Ipv4ResetState, States
<1>7. CASE Ipv6ResetState
  BY <1>7 DEF TypeOK, Ipv6ResetState, States
<1>8. CASE RunState
  <2>1. plugin' \in [Plugins -> PluginStates] /\ timeout' \subseteq Plugins
    BY <1>8 DEF TypeOK, RunState, In, PluginStates
  <2>2. state' \in States /\ entering' \in BOOLEAN
    BY <1>8, Zenon DEF TypeOK, RunState, States
  <2>. QED BY <1>8, <2>1, <2>2 DEF TypeOK, RunState
<1>9. CASE IdleState
  <2>1. PluginReset(FALSE) /\ UNCHANGED <<carrier, paused, hasL3, immediate, bridged, inet, inetEvent>>
    BY <1>9, Zenon DEF IdleState
  <2>2. uplink' \in [L2 : Tri, L3 : Tri]
    BY <1>9, <1>a, <1>b DEF TypeOK, IdleState
  <2>3. state' \in States /\ entering' \in BOOLEAN /\ retry' \in BOOLEAN
    BY <1>9, Zenon DEF TypeOK, IdleState, States
  <2>. QED BY <2>1, <2>2, <2>3, ResetType, Zenon DEF TypeOK
<1>10. CASE AbortState
  BY <1>10, <1>a, <1>b, ResetType, Zenon DEF TypeOK, AbortState
<1>11. CASE FreezeState
  BY <1>11, ResetType, Zenon DEF TypeOK, FreezeState
<1>12. CASE InetStateEvent
  <2>1. UNCHANGED <<plugin, timeout, status, own, child, hasL3, bridged, inet>> /\ inetEvent' = FALSE
    BY <1>12 DEF InetStateEvent
  <2>2. /\ state' \in States /\ entering' \in BOOLEAN /\ carrier' \in BOOLEAN
        /\ paused' \in BOOLEAN /\ retry' \in BOOLEAN /\ immediate' \in BOOLEAN
    BY <1>12, Zenon DEF TypeOK, InetStateEvent, CarrierLoss, CarrierFound, InetSettled, InetIgnored,
                 Exception, States
  <2>3. uplink' \in [L2 : Tri, L3 : Tri]
    BY <1>12, <1>a, <1>b DEF TypeOK, InetStateEvent, CarrierLoss, CarrierFound, InetSettled,
                            InetIgnored
  <2>. QED BY <2>1, <2>2, <2>3, Zenon DEF TypeOK
<1>13. ASSUME NEW w \in Plugins, StatusOk(w) PROVE TypeOK'
  <2>1. plugin' \in [Plugins -> PluginStates]
    BY <1>13 DEF TypeOK, StatusOk, PluginStates
  <2>2. status' \in [Plugins -> Statuses \cup {NoStatus}] /\ timeout' \subseteq Plugins
        /\ child' \subseteq Plugins
    BY <1>13 DEF TypeOK, StatusOk, Taken
  <2>3. uplink' \in [L2 : Tri, L3 : Tri]
    BY <1>13, <1>a, <1>b DEF StatusOk
  <2>. QED BY <1>13, <2>1, <2>2, <2>3 DEF TypeOK, StatusOk
<1>14. ASSUME NEW w \in Plugins, StatusOkProbeFails(w) PROVE TypeOK'
  <2>1. /\ plugin' \in [Plugins -> PluginStates]
        /\ timeout' \subseteq Plugins /\ own' \subseteq Plugins /\ child' \subseteq Plugins
        /\ status' \in [Plugins -> Statuses \cup {NoStatus}]
    BY <1>14, ToIdleType DEF StatusOkProbeFails
  <2>2. state' \in States /\ entering' \in BOOLEAN
    BY <1>14, Zenon DEF StatusOkProbeFails, PluginUpdate, States, TypeOK
  <2>. QED BY <1>14, <2>1, <2>2, Zenon DEF TypeOK, StatusOkProbeFails
<1>15. ASSUME NEW w \in Plugins, StatusReserved(w) PROVE TypeOK'
  BY <1>15, <1>a, <1>b DEF TypeOK, StatusReserved, Taken
<1>16. ASSUME NEW w \in Plugins, StatusBusy(w) PROVE TypeOK'
  BY <1>16, <1>a, <1>b DEF TypeOK, StatusBusy, Taken
<1>17. ASSUME NEW w \in Plugins, StatusSkip(w) PROVE TypeOK'
  <2>1. ToIdle(w) \/ (status' = Taken(w) /\ UNCHANGED <<plugin, timeout, own, child>>)
    BY <1>17 DEF StatusSkip
  <2>2. /\ plugin' \in [Plugins -> PluginStates]
        /\ timeout' \subseteq Plugins /\ own' \subseteq Plugins /\ child' \subseteq Plugins
        /\ status' \in [Plugins -> Statuses \cup {NoStatus}]
    BY <2>1, ToIdleType DEF TypeOK, Taken
  <2>. QED BY <1>17, <2>2, ZenonT(60) DEF TypeOK, StatusSkip, PluginUpdate, States
<1>18. ASSUME NEW w \in Plugins, StatusDetach(w) PROVE TypeOK'
  <2>1. plugin' \in [Plugins -> PluginStates]
    BY <1>18 DEF TypeOK, StatusDetach, PluginStates
  <2>. QED BY <1>18, <2>1, Zenon DEF TypeOK, StatusDetach, PluginUpdate, States, Taken
<1>19. ASSUME NEW w \in Plugins, StatusException(w) PROVE TypeOK'
  BY <1>19, Zenon DEF TypeOK, StatusException, Exception, States, Taken
<1>20. ASSUME NEW w \in Plugins, PluginTimeout(w) PROVE TypeOK'
  <2>1. ToIdle(w) \/ (timeout' = timeout \ {w} /\ UNCHANGED <<plugin, status, own, child>>)
    BY <1>20 DEF PluginTimeout
  <2>2. /\ plugin' \in [Plugins -> PluginStates]
        /\ timeout' \subseteq Plugins /\ own' \subseteq Plugins /\ child' \subseteq Plugins
        /\ status' \in [Plugins -> Statuses \cup {NoStatus}]
    BY <2>1, ToIdleType DEF TypeOK
  <2>. QED BY <1>20, <2>2, ZenonT(60) DEF TypeOK, PluginTimeout, PluginUpdate, States
<1>21. ASSUME NEW w \in Plugins, NEW s \in Statuses, Report(w, s) PROVE TypeOK'
  BY <1>21 DEF TypeOK, Report
<1>22. CASE RetryTimeout
  BY <1>22, Zenon DEF TypeOK, RetryTimeout, States
<1>23. ASSUME NEW b \in BOOLEAN \X BOOLEAN, BridgeEvent(b) PROVE TypeOK'
  <2>1. bridged' \in BOOLEAN \X BOOLEAN
    BY <1>23 DEF BridgeEvent
  <2>2. /\ state' \in States /\ entering' \in BOOLEAN /\ paused' \in BOOLEAN
        /\ retry' \in BOOLEAN /\ immediate' \in BOOLEAN
    BY <1>23, Zenon DEF TypeOK, BridgeEvent, CheckFreeze, Exception, States
  <2>. QED BY <1>23, <2>1, <2>2 DEF TypeOK, BridgeEvent
<1>24. CASE RestartAll
  BY <1>24, Zenon DEF TypeOK, RestartAll, Exception, States
<1>25. ASSUME NEW i \in Inet, InetUpdate(i) PROVE TypeOK'
  BY <1>25 DEF TypeOK, InetUpdate
<1>26. CASE Fini
  <2>1. plugin' \in [Plugins -> PluginStates]
    BY <1>26 DEF Fini, PluginStates
  <2>2. /\ timeout' \subseteq Plugins /\ own' \subseteq Plugins /\ child' \subseteq Plugins
        /\ status' \in [Plugins -> Statuses \cup {NoStatus}]
    BY <1>26, ReleaseType DEF Fini
  <2>3. uplink' \in [L2 : Tri, L3 : Tri]
    BY <1>26, <1>a, <1>b DEF Fini
  <2>4. state' \in States /\ entering' \in BOOLEAN /\ inetEvent' \in BOOLEAN
    BY <1>26, Zenon DEF Fini, States
  <2>. QED BY <1>26, <2>1, <2>2, <2>3, <2>4 DEF TypeOK, Fini
<1>27. CASE ImmediateExpires
  BY <1>27, Zenon DEF TypeOK, ImmediateExpires
<1>28. CASE UNCHANGED vars
  BY <1>28 DEF TypeOK, vars
<1>. QED
  BY <1>1, <1>2, <1>3, <1>4, <1>5, <1>6, <1>7, <1>8, <1>9, <1>10, <1>11, <1>12, <1>13, <1>14,
     <1>15, <1>16, <1>17, <1>18, <1>19, <1>20, <1>21, <1>22, <1>23, <1>24, <1>25, <1>26, <1>27,
     <1>28
     DEF Next, Entries, StatusEvent

(* The initial state is well typed. *)
LEMMA InitType == Init => TypeOK
<1> SUFFICES ASSUME Init PROVE TypeOK
  OBVIOUS
<1>1. plugin \in [Plugins -> PluginStates]
  BY DEF Init, PluginStates
<1>2. status \in [Plugins -> Statuses \cup {NoStatus}]
  BY DEF Init
<1>3. uplink \in [L2 : Tri, L3 : Tri]
  BY DEF Init, Tri
<1>4. state \in States
  BY DEF Init, States
<1>5. bridged \in BOOLEAN \X BOOLEAN
  BY Zenon DEF Init
<1>6. retry \in BOOLEAN /\ immediate \in BOOLEAN /\ carrier \in BOOLEAN /\ paused \in BOOLEAN
      /\ hasL3 \in BOOLEAN /\ inetEvent \in BOOLEAN /\ entering \in BOOLEAN
  BY Zenon DEF Init
<1>. QED BY <1>1, <1>2, <1>3, <1>4, <1>5, <1>6 DEF Init, TypeOK

(* TypeOK holds of every reachable state of the pipeline, for every list of *)
(* plug-ins.                                                                *)
THEOREM TypeCorrect == Spec => []TypeOK
<1>1. TypeOK /\ [Next]_vars => TypeOK'
  BY TypeStep
<1>. QED BY <1>1, InitType, PTL DEF Spec

-----------------------------------------------------------------------------
(* Callbacks and wake-ups.                                                 *)

(* What a status says about the plug-in it waits for: the last conjuncts    *)
(* are needed for the OK of a plug-in that is ACTIVE already, which only a  *)
(* plug-in that asked for a restart can report.                             *)
StatusInv ==
    /\ NoStaleCallback
    /\ \A w \in Plugins :
          /\ status[w] \in {"OK", "OK_OWN"} => plugin[w] \in {"RUNNING", "ACTIVE"}
          /\ status[w] # NoStatus => status[w] \in Says[w]
          /\ status[w] \in {"OK", "OK_OWN"} /\ plugin[w] = "ACTIVE" => "RESTART" \in Says[w]

(* How a step changes the states of the plug-ins.                           *)
Schedules == \E T \in SUBSET Plugins, failing \in SUBSET MayFail :
                 Walk(T) /\ Schedule(T, failing)

Starts == plugin' = [w \in Plugins |-> IF plugin[w] = "SCHEDULED"
                                       THEN "RUNNING" ELSE plugin[w]]

Leaves(w) ==
    /\ plugin' = [plugin EXCEPT ![w] = "IDLE"]
    /\ \/ plugin[w] \in {"RUNNING", "DETACHED"}
       \/ ProbeFails /\ status[w] \in {"OK", "OK_OWN"}

Settles(w) ==
    /\ plugin[w] = "RUNNING"
    /\ \E s \in {"ACTIVE", "DETACHED"} : plugin' = [plugin EXCEPT ![w] = s]

(* Every step keeps the states of the plug-ins or changes them in one of    *)
(* these ways.                                                              *)
LEMMA PluginStep ==
    ASSUME TypeOK, [Next]_vars
    PROVE  \/ plugin' = plugin
           \/ \E force \in BOOLEAN : PluginReset(force)
           \/ Schedules
           \/ Starts
           \/ \E w \in Plugins : Leaves(w) \/ Settles(w)
           \/ plugin' = [w \in Plugins |-> "IDLE"]
<1> USE DEF pluginVars
<1>1. CASE Entries
  BY <1>1, Zenon DEF Entries, InitState, StartState, EnableState, CarrierState, SchedState,
     Ipv4ResetState, Ipv6ResetState, RunState, IdleState, AbortState, FreezeState,
     Schedules, Starts
<1>2. ASSUME NEW w \in Plugins, StatusEvent(w)
      PROVE  plugin' = plugin \/ Leaves(w) \/ Settles(w)
  <2>1. CASE StatusOk(w)
    <3>1. plugin[w] = "RUNNING" => plugin' = [plugin EXCEPT ![w] = "ACTIVE"]
      BY <2>1 DEF StatusOk
    <3>2. plugin[w] # "RUNNING" => plugin' = plugin
      BY <2>1 DEF StatusOk, TypeOK
    <3>. QED BY <3>1, <3>2 DEF Settles
  <2>2. CASE StatusDetach(w)
    <3>1. plugin[w] = "RUNNING" => plugin' = [plugin EXCEPT ![w] = "DETACHED"]
      BY <2>2 DEF StatusDetach
    <3>2. plugin[w] # "RUNNING" => plugin' = plugin
      BY <2>2 DEF StatusDetach, TypeOK
    <3>. QED BY <3>1, <3>2 DEF Settles
  <2>3. CASE StatusOkProbeFails(w)
    BY <2>3 DEF StatusOkProbeFails, ToIdle, Leaves
  <2>4. CASE StatusSkip(w)
    BY <2>4 DEF StatusSkip, ToIdle, Leaves
  <2>. QED BY <1>2, <2>1, <2>2, <2>3, <2>4
           DEF StatusEvent, StatusReserved, StatusBusy, StatusException
<1>3. ASSUME NEW w \in Plugins, PluginTimeout(w)
      PROVE  plugin' = plugin \/ Leaves(w)
  BY <1>3 DEF PluginTimeout, ToIdle, Leaves
<1>4. CASE InetStateEvent
  BY <1>4 DEF InetStateEvent
<1>5. CASE RetryTimeout \/ RestartAll \/ ImmediateExpires \/ UNCHANGED vars
  BY <1>5 DEF RetryTimeout, RestartAll, ImmediateExpires, vars
<1>6. ASSUME \/ \E w \in Plugins, s \in Statuses : Report(w, s)
             \/ \E b \in BOOLEAN \X BOOLEAN : BridgeEvent(b)
             \/ \E i \in Inet : InetUpdate(i)
      PROVE  plugin' = plugin
  BY <1>6 DEF Report, BridgeEvent, InetUpdate
<1>7. CASE Fini
  BY <1>7 DEF Fini
<1>. QED BY <1>1, <1>2, <1>3, <1>4, <1>5, <1>6, <1>7 DEF Next

(* Destroying every instance but the ones that are kept ACTIVE or DETACHED  *)
(* leaves no timeout behind, and no status but theirs.                      *)
LEMMA ResetStatus ==
    ASSUME TypeOK, StatusInv, NEW force \in BOOLEAN, PluginReset(force)
    PROVE  StatusInv'
<1> DEFINE kept == IF force THEN {} ELSE In("ACTIVE") \cup In("DETACHED")
<1>1. /\ plugin' = [w \in Plugins |-> IF w \in kept THEN plugin[w] ELSE "PENDING"]
      /\ timeout' = timeout \ (Plugins \ kept)
      /\ status' = [w \in Plugins |-> IF w \in Plugins \ kept THEN NoStatus ELSE status[w]]
  BY DEF PluginReset, Release
<1>2. timeout' = {}
  BY <1>1 DEF StatusInv, NoStaleCallback, In
<1>3. NoStatus \notin {"OK", "OK_OWN"}
  BY DEF NoStatus
<1>4. \A w \in Plugins : status'[w] # NoStatus => status'[w] = status[w] /\ plugin'[w] = plugin[w]
  BY <1>1
<1>. QED BY <1>2, <1>3, <1>4 DEF StatusInv, NoStaleCallback, In

(* So does destroying one instance. *)
LEMMA IdleStatus ==
    ASSUME TypeOK, StatusInv, NEW v \in Plugins, ToIdle(v)
    PROVE  StatusInv'
<1>1. /\ plugin' = [plugin EXCEPT ![v] = "IDLE"]
      /\ timeout' = timeout \ {v}
      /\ status' = [w \in Plugins |-> IF w \in {v} THEN NoStatus ELSE status[w]]
  BY DEF ToIdle, Release
<1>2. NoStatus \notin {"OK", "OK_OWN"}
  BY DEF NoStatus
<1>3. timeout' \subseteq In("RUNNING")'
  BY <1>1 DEF StatusInv, NoStaleCallback, In, TypeOK
<1>4. \A w \in Plugins : status'[w] # NoStatus => status'[w] = status[w] /\ plugin'[w] = plugin[w]
  BY <1>1 DEF TypeOK
<1>. QED BY <1>2, <1>3, <1>4 DEF StatusInv, NoStaleCallback

(* A status that has been taken leaves the others as they were. *)
LEMMA TakenStatus ==
    ASSUME TypeOK, StatusInv, NEW v \in Plugins, status' = Taken(v),
           timeout' \subseteq timeout,
           plugin' = plugin \/ (v \notin timeout' /\ \E s : plugin' = [plugin EXCEPT ![v] = s])
    PROVE  StatusInv'
<1>1. NoStatus \notin {"OK", "OK_OWN"}
  BY DEF NoStatus
<1>2. \A w \in Plugins : status'[w] # NoStatus => status'[w] = status[w] /\ plugin'[w] = plugin[w]
  BY DEF Taken, TypeOK
<1>3. timeout' \subseteq In("RUNNING")'
  BY DEF StatusInv, NoStaleCallback, In, TypeOK
<1>. QED BY <1>1, <1>2, <1>3 DEF StatusInv, NoStaleCallback

(* Every action keeps StatusInv. *)
LEMMA StatusStep ==
    ASSUME TypeOK, StatusInv, [Next]_vars
    PROVE  StatusInv'
<1> USE DEF pluginVars
<1>1. CASE InitState \/ IdleState \/ AbortState \/ FreezeState
  BY <1>1, ResetStatus, Zenon DEF InitState, IdleState, AbortState, FreezeState
<1>2. CASE SchedState
  <2>1. PICK T \in SUBSET Plugins, failing \in SUBSET MayFail : Schedule(T, failing)
    BY <1>2 DEF SchedState
  <2>2. \A w \in Plugins : plugin[w] # "PENDING" => plugin'[w] = plugin[w]
    BY <2>1 DEF Schedule
  <2>3. UNCHANGED <<timeout, status>>
    BY <1>2 DEF SchedState
  <2>4. timeout' \subseteq In("RUNNING")'
    BY <2>2, <2>3 DEF StatusInv, NoStaleCallback, In
  <2>5. \A w \in Plugins : status'[w] # NoStatus => status'[w] = status[w] /\ plugin'[w] = plugin[w]
    BY <2>2, <2>3 DEF StatusInv, NoStaleCallback
  <2>6. NoStatus \notin {"OK", "OK_OWN"}
    BY DEF NoStatus
  <2>. QED BY <2>4, <2>5, <2>6 DEF StatusInv, NoStaleCallback
<1>3. CASE RunState
  <2>1. \A w \in Plugins : plugin'[w] = IF plugin[w] = "SCHEDULED" THEN "RUNNING" ELSE plugin[w]
    BY <1>3 DEF RunState
  <2>2. timeout' = timeout \cup In("SCHEDULED") /\ status' = status
    BY <1>3 DEF RunState
  <2>3. timeout' \subseteq In("RUNNING")'
    BY <2>1, <2>2 DEF StatusInv, NoStaleCallback, In
  <2>4. \A w \in Plugins : status'[w] # NoStatus => status'[w] = status[w] /\ plugin'[w] = plugin[w]
    BY <2>1, <2>2 DEF StatusInv, NoStaleCallback
  <2>5. NoStatus \notin {"OK", "OK_OWN"}
    BY DEF NoStatus
  <2>. QED BY <2>3, <2>4, <2>5 DEF StatusInv, NoStaleCallback
<1>4. ASSUME NEW w \in Plugins, StatusEvent(w) PROVE StatusInv'
  <2>1. CASE StatusOk(w)
    <3>1. (status' = Taken(w) /\ timeout' = timeout \ {w}
            /\ plugin' = [plugin EXCEPT ![w] = IF @ = "RUNNING" THEN "ACTIVE" ELSE @])
      BY <2>1 DEF StatusOk
    <3>. QED BY <3>1, TakenStatus, Zenon
  <2>2. CASE StatusDetach(w)
    BY <2>2, TakenStatus, Zenon DEF StatusDetach
  <2>3. CASE StatusOkProbeFails(w)
    BY <2>3, IdleStatus DEF StatusOkProbeFails
  <2>4. CASE StatusSkip(w)
    BY <2>4, IdleStatus, TakenStatus DEF StatusSkip
  <2>5. CASE StatusReserved(w) \/ StatusBusy(w) \/ StatusException(w)
    BY <2>5, TakenStatus DEF StatusReserved, StatusBusy, StatusException
  <2>. QED BY <1>4, <2>1, <2>2, <2>3, <2>4, <2>5 DEF StatusEvent
<1>5. ASSUME NEW w \in Plugins, PluginTimeout(w) PROVE StatusInv'
  BY <1>5, IdleStatus DEF PluginTimeout, StatusInv, NoStaleCallback, In
<1>6. ASSUME NEW w \in Plugins, NEW s \in Statuses, Report(w, s) PROVE StatusInv'
  <2>1. status' = [status EXCEPT ![w] = s] /\ UNCHANGED <<plugin, timeout>> /\ s \in MayReport(w)
    BY <1>6 DEF Report
  <2>2. CASE plugin[w] = "RUNNING"
    BY <2>1, <2>2 DEF MayReport, TypeOK, StatusInv, NoStaleCallback, In
  <2>3. CASE plugin[w] = "DETACHED"
    BY <2>1, <2>3 DEF MayReport, TypeOK, StatusInv, NoStaleCallback, In
  <2>4. CASE plugin[w] = "ACTIVE"
    BY <2>1, <2>4 DEF MayReport, TypeOK, StatusInv, NoStaleCallback, In, NoStatus
  <2>5. plugin[w] \in {"RUNNING", "DETACHED", "ACTIVE"}
    BY <2>1 DEF MayReport
  <2>. QED BY <2>2, <2>3, <2>4, <2>5
<1>7. CASE Fini
  <2>1. plugin' = [w \in Plugins |-> "IDLE"] /\ timeout' = timeout \ Plugins
        /\ status' = [w \in Plugins |-> NoStatus]
    BY <1>7 DEF Fini, Release
  <2>. QED BY <2>1 DEF StatusInv, NoStaleCallback, TypeOK, NoStatus
<1>8. ASSUME UNCHANGED <<plugin, timeout, status>> PROVE StatusInv'
  BY <1>8 DEF StatusInv, NoStaleCallback, In
<1>9. \/ Entries \/ InetStateEvent \/ RetryTimeout \/ RestartAll \/ ImmediateExpires
      \/ (\E b \in BOOLEAN \X BOOLEAN : BridgeEvent(b)) \/ (\E i \in Inet : InetUpdate(i))
      \/ UNCHANGED vars
      => \/ UNCHANGED <<plugin, timeout, status>>
         \/ InitState \/ IdleState \/ AbortState \/ FreezeState \/ SchedState \/ RunState
  BY DEF Entries, StartState, EnableState, CarrierState, Ipv4ResetState, Ipv6ResetState,
     InetStateEvent, RetryTimeout, RestartAll, ImmediateExpires, BridgeEvent, InetUpdate, vars
<1>. QED BY <1>1, <1>2, <1>3, <1>4, <1>5, <1>6, <1>7, <1>8, <1>9 DEF Next

(* Nothing is pending in the initial state. *)
LEMMA InitStatus == Init => StatusInv
BY DEF Init, StatusInv, NoStaleCallback, NoStatus

(* NoStaleCallback for every list of plug-ins: neither the timeout nor the  *)
(* status of a plug-in outlives the instance it belongs to.                 *)
THEOREM CallbacksCorrect == Spec => []NoStaleCallback
<1>1. TypeOK /\ StatusInv /\ [Next]_vars => TypeOK' /\ StatusInv'
  BY TypeStep, StatusStep
<1>2. StatusInv => NoStaleCallback
  BY SMTT(60) DEF StatusInv
<1>. QED BY <1>1, <1>2, InitType, InitStatus, PTL DEF Spec

(* Every action keeps NeverStuck. *)
LEMMA StuckStep ==
    ASSUME TypeOK, NeverStuck, [Next]_vars
    PROVE  NeverStuck'
<1> USE DEF pluginVars, wanVars, timerVars, envVars, Goto, Stay, Entry
<1>1. CASE InitState \/ StartState \/ SchedState \/ Ipv6ResetState
  BY <1>1, Zenon DEF InitState, StartState, SchedState, Ipv6ResetState, NeverStuck
<1>2. CASE EnableState \/ CarrierState
  BY <1>2, SMTT(60) DEF EnableState, CarrierState, NeverStuck
<1>3. CASE Ipv4ResetState
  BY <1>3 DEF Ipv4ResetState, NeverStuck
<1>4. CASE RunState
  <2>1. In("SCHEDULED") \cup In("RUNNING") \subseteq In("RUNNING")'
    BY <1>4 DEF RunState, In
  <2>. QED BY <1>4, <2>1 DEF RunState, NeverStuck
<1>5. CASE IdleState \/ AbortState \/ FreezeState
  BY <1>5, Zenon DEF IdleState, AbortState, FreezeState, NeverStuck
<1>6. CASE InetStateEvent
  BY <1>6 DEF InetStateEvent, CarrierLoss, CarrierFound, InetSettled, InetIgnored, Exception,
     NeverStuck, In
<1>7. ASSUME NEW w \in Plugins, StatusOk(w) PROVE NeverStuck'
  <2>1. In("RUNNING") \cup In("ACTIVE") \subseteq In("RUNNING")' \cup In("ACTIVE")'
    BY <1>7 DEF StatusOk, In, TypeOK
  <2>. QED BY <1>7, <2>1 DEF StatusOk, NeverStuck
<1>8. ASSUME NEW w \in Plugins,
             \/ StatusOkProbeFails(w) \/ StatusSkip(w) \/ StatusDetach(w) \/ PluginTimeout(w)
      PROVE  NeverStuck'
  <2>1. PluginUpdate /\ UNCHANGED <<retry, inet, inetEvent>> /\ ~entering
    BY <1>8 DEF StatusOkProbeFails, StatusSkip, StatusDetach, PluginTimeout, Ready
  <2>. QED BY <2>1 DEF PluginUpdate, NeverStuck
<1>9. ASSUME NEW w \in Plugins, StatusReserved(w) \/ StatusBusy(w) PROVE NeverStuck'
  BY <1>9 DEF StatusReserved, StatusBusy, NeverStuck, In
<1>10. ASSUME NEW w \in Plugins, StatusException(w) PROVE NeverStuck'
  BY <1>10 DEF StatusException, Exception, NeverStuck
<1>11. ASSUME NEW w \in Plugins, NEW s \in Statuses, Report(w, s) PROVE NeverStuck'
  BY <1>11 DEF Report, NeverStuck, In
<1>12. CASE RetryTimeout
  BY <1>12 DEF RetryTimeout, Ready, NeverStuck, In
<1>13. ASSUME NEW b \in BOOLEAN \X BOOLEAN, BridgeEvent(b) PROVE NeverStuck'
  BY <1>13 DEF BridgeEvent, CheckFreeze, Exception, NeverStuck, In
<1>14. CASE RestartAll
  BY <1>14 DEF RestartAll, Exception, NeverStuck
<1>15. ASSUME NEW i \in Inet, InetUpdate(i) PROVE NeverStuck'
  BY <1>15 DEF InetUpdate, NeverStuck, In
<1>16. CASE Fini
  BY <1>16 DEF Fini, NeverStuck
<1>17. CASE ImmediateExpires \/ UNCHANGED vars
  BY <1>17 DEF ImmediateExpires, vars, NeverStuck, In
<1>. QED
  BY <1>1, <1>2, <1>3, <1>4, <1>5, <1>6, <1>7, <1>8, <1>9, <1>10, <1>11, <1>12, <1>13, <1>14,
     <1>15, <1>16, <1>17, SMTT(60)
     DEF Next, Entries, StatusEvent

(* NeverStuck for every list of plug-ins: wherever the pipeline rests, the  *)
(* event that moves it on is already due.                                   *)
THEOREM WakeUpCorrect == Spec => []NeverStuck
<1>1. Init => NeverStuck
  BY DEF Init, NeverStuck
<1>2. TypeOK /\ NeverStuck /\ [Next]_vars => TypeOK' /\ NeverStuck'
  BY TypeStep, StuckStep
<1>. QED BY <1>1, <1>2, InitType, PTL DEF Spec

-----------------------------------------------------------------------------
(* Mutual exclusion.                                                       *)

(* Why a plug-in that waits is not in the way of one that runs behind it:   *)
(* an ACTIVE plug-in keeps it from being scheduled.                         *)
Order ==
    \A p, r \in Plugins :
        /\ p < r /\ Overlap(p, r)
        /\ plugin[p] = "PENDING" /\ plugin[r] \in {"SCHEDULED", "RUNNING"}
        => \E q \in Plugins : plugin[q] = "ACTIVE" /\ Overlap(q, p)

(* A plug-in that uses the interface uses it until it is stopped. *)
InUse == {"SCHEDULED", "RUNNING", "ACTIVE"}

(* Exclusive, pair by pair. *)
Apart == \A v, w \in Plugins :
             v # w /\ plugin[v] \in InUse /\ plugin[w] \in InUse => ~Overlap(v, w)

(* Apart states Exclusive over the sets the steps change.                  *)
LEMMA ApartIsExclusive == Apart <=> Exclusive
BY DEF Apart, Exclusive, Busy, In, InUse

(* Sharing a mask bit is symmetric. *)
LEMMA OverlapSym == \A v, w \in Plugins : Overlap(v, w) => Overlap(w, v)
BY SMTT(60) DEF Overlap

(* wano_ppline_schedule picks plug-ins that share no bit with each other or *)
(* with an ACTIVE plug-in, and picks every plug-in that is in use already.  *)
LEMMA WalkApart ==
    ASSUME TypeOK, Apart, Order, NEW T \in SUBSET Plugins, Walk(T)
    PROVE  /\ \A v, w \in T : v # w => ~Overlap(v, w)
           /\ \A v \in Plugins, w \in T : plugin[v] = "ACTIVE" => ~Overlap(v, w)
           /\ \A w \in Plugins : plugin[w] \in {"SCHEDULED", "RUNNING"} => w \in T
           /\ \A w \in Plugins \ T : plugin[w] = "PENDING" =>
                  \E q \in Plugins : /\ plugin[q] = "ACTIVE" \/ (q \in T /\ q < w)
                                     /\ Overlap(q, w)
<1>1. \A w \in Plugins, v \in Plugins :
         (Mask[w] \cap RunMask(T, w) = {}) /\ (plugin[v] = "ACTIVE" \/ (v \in T /\ v < w))
         => ~Overlap(v, w)
  BY DEF RunMask, In, Overlap
<1>2. \A w \in Plugins : Mask[w] \cap RunMask(T, w) # {} =>
         \E q \in Plugins : (plugin[q] = "ACTIVE" \/ (q \in T /\ q < w)) /\ Overlap(q, w)
  BY DEF RunMask, In, Overlap
<1>3. \A w \in Plugins : w \in T <=> Occupies(w) /\ Mask[w] \cap RunMask(T, w) = {}
  BY Zenon DEF Walk
<1>4. \A v, w \in T : v < w => ~Overlap(v, w)
  BY <1>1, <1>3
<1>5. \A v, w \in T : v # w => ~Overlap(v, w)
  <2> SUFFICES ASSUME NEW v \in T, NEW w \in T, v # w PROVE ~Overlap(v, w)
    OBVIOUS
  <2>1. v \in Int /\ w \in Int
    BY PluginsAssumption DEF Plugins
  <2>2. v < w \/ w < v
    BY <2>1
  <2>. QED BY <2>2, <1>4, OverlapSym
<1>6. ASSUME NEW w \in Plugins, plugin[w] \in {"SCHEDULED", "RUNNING"}, w \notin T PROVE FALSE
  <2>1. Mask[w] \cap RunMask(T, w) # {}
    BY <1>6, <1>3 DEF Occupies
  <2>2. PICK q \in Plugins : (plugin[q] = "ACTIVE" \/ (q \in T /\ q < w)) /\ Overlap(q, w)
    BY <2>1, <1>2
  <2>3. plugin[q] # "ACTIVE"
    BY <2>2, <1>6 DEF Apart, InUse
  <2>4. q \in T /\ q < w /\ q # w
    BY <2>2, <2>3, <1>6
  <2>5. plugin[q] \in {"PENDING", "SCHEDULED", "RUNNING", "ACTIVE"}
    BY <2>4, <1>3 DEF Occupies, TypeOK, PluginStates
  <2>6. plugin[q] = "PENDING"
    BY <2>2, <2>4, <2>5, <1>6 DEF Apart, InUse
  <2>7. PICK a \in Plugins : plugin[a] = "ACTIVE" /\ Overlap(a, q)
    BY <2>2, <2>4, <2>6, <1>6 DEF Order
  <2>. QED BY <2>4, <2>7, <1>1, <1>3
<1>. QED BY <1>1, <1>2, <1>3, <1>5, <1>6 DEF Occupies

(* The scheduler keeps the plug-ins apart, and in order if the masks are.   *)
LEMMA ScheduleApart ==
    ASSUME MaskOrder, TypeOK, Apart, Order, Schedules
    PROVE  Apart' /\ Order'
<1>1. PICK T \in SUBSET Plugins, failing \in SUBSET MayFail : Walk(T) /\ Schedule(T, failing)
  BY DEF Schedules
<1>2. /\ \A v, w \in T : v # w => ~Overlap(v, w)
      /\ \A v \in Plugins, w \in T : plugin[v] = "ACTIVE" => ~Overlap(v, w)
      /\ \A w \in Plugins : plugin[w] \in {"SCHEDULED", "RUNNING"} => w \in T
      /\ \A w \in Plugins \ T : plugin[w] = "PENDING" =>
             \E q \in Plugins : (plugin[q] = "ACTIVE" \/ (q \in T /\ q < w)) /\ Overlap(q, w)
  BY <1>1, WalkApart
<1>3. \A w \in Plugins : plugin'[w] = IF w \in T /\ plugin[w] = "PENDING"
                                      THEN IF w \in failing THEN "IDLE" ELSE "SCHEDULED"
                                      ELSE plugin[w]
  BY <1>1 DEF Schedule
<1>4. \A w \in Plugins : plugin'[w] \in InUse => w \in T \/ (plugin[w] = "ACTIVE" /\ w \notin T)
  BY <1>2, <1>3 DEF InUse
<1>5. Apart'
  <2> SUFFICES ASSUME NEW v \in Plugins, NEW w \in Plugins, v # w,
                      plugin'[v] \in InUse, plugin'[w] \in InUse
               PROVE  ~Overlap(v, w)
    BY DEF Apart, Overlap
  <2>1. CASE v \in T /\ w \in T
    BY <2>1, <1>2
  <2>2. CASE v \in T /\ plugin[w] = "ACTIVE"
    BY <2>2, <1>2, OverlapSym
  <2>3. CASE w \in T /\ plugin[v] = "ACTIVE"
    BY <2>3, <1>2
  <2>4. CASE plugin[v] = "ACTIVE" /\ plugin[w] = "ACTIVE"
    BY <2>4 DEF Apart, InUse
  <2>. QED BY <1>4, <2>1, <2>2, <2>3, <2>4
<1>6. Order'
  <2> SUFFICES ASSUME NEW p \in Plugins, NEW r \in Plugins, p < r, Overlap(p, r),
                      plugin'[p] = "PENDING", plugin'[r] \in {"SCHEDULED", "RUNNING"}
               PROVE  \E q \in Plugins : plugin'[q] = "ACTIVE" /\ Overlap(q, p)
    BY DEF Order, Overlap
  <2>1. plugin[p] = "PENDING" /\ p \notin T
    BY <1>3
  <2>2. r \in T
    BY <1>2, <1>3
  <2>3. PICK q \in Plugins : (plugin[q] = "ACTIVE" \/ (q \in T /\ q < p)) /\ Overlap(q, p)
    BY <2>1, <1>2
  <2>4. ~(q \in T /\ q < p)
    <3>1. q \in Int /\ p \in Int /\ r \in Int
      BY PluginsAssumption DEF Plugins
    <3>2. q \in T /\ q < p => Overlap(q, r) /\ q # r
      BY <2>3, <3>1 DEF MaskOrder
    <3>. QED BY <3>2, <2>2, <1>2
  <2>5. plugin[q] = "ACTIVE" /\ plugin'[q] = "ACTIVE"
    BY <2>3, <2>4, <1>3
  <2>. QED BY <2>3, <2>5
<1>. QED BY <1>5, <1>6

(* Stopping one plug-in keeps them apart, and in order: one that is ACTIVE  *)
(* is stopped only if it may report RESTART, and then MaskOrder says that   *)
(* what waits for it shares no bit with what runs behind.                   *)
LEMMA LeaveApart ==
    ASSUME MaskOrder, TypeOK, StatusInv, Apart, Order, NEW v \in Plugins, Leaves(v)
    PROVE  Apart' /\ Order'
<1>1. \A w \in Plugins : plugin'[w] = IF w = v THEN "IDLE" ELSE plugin[w]
  BY DEF Leaves, TypeOK
<1>2. Apart'
  BY <1>1 DEF Apart, Overlap, InUse
<1>3. Order'
  <2> SUFFICES ASSUME NEW p \in Plugins, NEW r \in Plugins, p < r, Overlap(p, r),
                      plugin'[p] = "PENDING", plugin'[r] \in {"SCHEDULED", "RUNNING"}
               PROVE  \E q \in Plugins : plugin'[q] = "ACTIVE" /\ Overlap(q, p)
    BY DEF Order, Overlap
  <2>1. plugin[p] = "PENDING" /\ plugin[r] \in {"SCHEDULED", "RUNNING"}
    BY <1>1
  <2>2. PICK q \in Plugins : plugin[q] = "ACTIVE" /\ Overlap(q, p)
    BY <2>1 DEF Order
  <2>3. CASE q = v
    <3>1. "RESTART" \in Says[q]
      BY <2>2, <2>3 DEF Leaves, StatusInv
    <3>2. Overlap(q, r)
      BY <2>2, <3>1 DEF MaskOrder
    <3>3. q # r
      BY <2>1, <2>2, SMTT(60)
    <3>. QED BY <2>1, <2>2, <3>2, <3>3, SMTT(60) DEF Apart, InUse
  <2>4. CASE q # v
    BY <2>2, <2>4, <1>1
  <2>. QED BY <2>3, <2>4
<1>. QED BY <1>2, <1>3

(* Every step keeps the plug-ins apart and in order. *)
LEMMA ApartStep ==
    ASSUME MaskOrder, TypeOK, StatusInv, Apart, Order, [Next]_vars
    PROVE  Apart' /\ Order'
<1>1. CASE plugin' = plugin
  BY <1>1 DEF Apart, Order, Overlap
<1>2. ASSUME NEW force \in BOOLEAN, PluginReset(force) PROVE Apart' /\ Order'
  <2>1. \A w \in Plugins : \/ plugin'[w] = plugin[w] /\ plugin[w] \in {"ACTIVE", "DETACHED"}
                           \/ plugin'[w] = "PENDING"
    BY <1>2 DEF PluginReset, In
  <2>. QED BY <2>1 DEF Apart, Order, Overlap, InUse
<1>3. CASE Schedules
  BY <1>3, ScheduleApart, SMTT(60)
<1>4. CASE Starts
  <2>1. \A w \in Plugins : plugin'[w] = IF plugin[w] = "SCHEDULED" THEN "RUNNING" ELSE plugin[w]
    BY <1>4 DEF Starts
  <2>. QED BY <2>1 DEF Apart, Order, Overlap, InUse
<1>5. ASSUME NEW v \in Plugins, Settles(v) PROVE Apart' /\ Order'
  <2>1. PICK s \in {"ACTIVE", "DETACHED"} : plugin' = [plugin EXCEPT ![v] = s]
    BY <1>5, Zenon DEF Settles
  <2>2. \A w \in Plugins : plugin'[w] = IF w = v THEN s ELSE plugin[w]
    BY <2>1 DEF TypeOK
  <2>3. plugin[v] = "RUNNING"
    BY <1>5 DEF Settles
  <2>. QED BY <2>2, <2>3 DEF Apart, Order, Overlap, InUse
<1>6. ASSUME NEW v \in Plugins, Leaves(v) PROVE Apart' /\ Order'
  BY <1>6, LeaveApart
<1>7. CASE plugin' = [w \in Plugins |-> "IDLE"]
  BY <1>7 DEF Apart, Order, Overlap, InUse
<1>. QED BY <1>1, <1>2, <1>3, <1>4, <1>5, <1>6, <1>7, PluginStep

(* Exclusive for every list of plug-ins whose masks are in order: no two    *)
(* plug-ins that use the interface share a mask bit.                        *)
THEOREM ExclusionCorrect ==
    ASSUME MaskOrder
    PROVE  Spec => []Exclusive
<1> DEFINE IInv == TypeOK /\ StatusInv /\ Apart /\ Order
<1>1. Init => Apart /\ Order
  BY DEF Init, Apart, Order, InUse
<1>2. IInv /\ [Next]_vars => IInv'
  BY TypeStep, StatusStep, ApartStep
<1>3. IInv => Exclusive
  BY ApartIsExclusive
<1>4. Init => IInv
  BY <1>1, InitType, InitStatus
<1>. QED BY <1>2, <1>3, <1>4, PTL DEF Spec

-----------------------------------------------------------------------------
(* The uplink table.                                                       *)

(* The interface has carrier, says so and is watched. *)
LinkUp == uplink.L2 = "true" /\ carrier /\ ~paused

(* A reset of all plug-ins is due. *)
Resetting == entering /\ state \in {"INIT", "ABORT", "FREEZE"}

(* The states the pipeline reaches only with carrier. *)
Linked == {"PLUGIN_SCHED", "IF_IPV4_RESET", "IF_IPV6_RESET", "PLUGIN_RUN", "IDLE"}

L3Inv == uplink.L3 = "true" =>
             In("ACTIVE") # {} \/ state = "FREEZE" \/ (entering /\ state \in {"INIT", "ABORT"})

L2Inv ==
    /\ state \in Linked => LinkUp
    /\ Busy # {} /\ ~Resetting => LinkUp

ChildInv ==
    /\ child \subseteq own /\ child \subseteq In("ACTIVE")
    /\ \A w \in own : "OK_OWN" \in Says[w]

(* Only a reset or the disposal of the pipeline stops an ACTIVE plug-in. *)
LEMMA ActiveStays ==
    ASSUME RestartsPlain, TypeOK, StatusInv, [Next]_vars
    PROVE  \/ In("ACTIVE") \subseteq In("ACTIVE")'
           \/ Entry("INIT") \/ Entry("ABORT") \/ Entry("FREEZE") \/ Fini
<1>1. CASE plugin' = plugin
  BY <1>1 DEF In
<1>2. CASE Entries
  <2>1. CASE SchedState
    BY <2>1 DEF SchedState, Schedule, In
  <2>2. CASE IdleState
    BY <2>2 DEF IdleState, PluginReset, In
  <2>3. CASE RunState
    BY <2>3 DEF RunState, In
  <2>. QED BY <1>1, <1>2, <2>1, <2>2, <2>3, Zenon DEF Entries, InitState, StartState, EnableState,
              CarrierState, Ipv4ResetState, Ipv6ResetState, AbortState, FreezeState, pluginVars
<1>3. ASSUME NEW v \in Plugins, Leaves(v) PROVE In("ACTIVE") \subseteq In("ACTIVE")'
  <2>1. plugin[v] # "ACTIVE"
    BY <1>3 DEF Leaves, StatusInv, RestartsPlain
  <2>. QED BY <1>3, <2>1 DEF Leaves, In, TypeOK
<1>4. ASSUME NEW v \in Plugins, Settles(v) PROVE In("ACTIVE") \subseteq In("ACTIVE")'
  BY <1>4 DEF Settles, In, TypeOK
<1>5. ASSUME NEW v \in Plugins, StatusEvent(v) \/ PluginTimeout(v)
      PROVE  plugin' = plugin \/ \E w \in Plugins : Leaves(w) \/ Settles(w)
  <2>1. CASE StatusOk(v) \/ StatusDetach(v)
    <3>1. plugin' = plugin \/ (plugin[v] = "RUNNING" /\ \E s \in {"ACTIVE", "DETACHED"} :
                                  plugin' = [plugin EXCEPT ![v] = s])
      BY <2>1, SMTT(60) DEF StatusOk, StatusDetach, TypeOK
    <3>. QED BY <3>1 DEF Settles
  <2>. QED BY <1>5, <2>1 DEF StatusEvent, StatusOkProbeFails, StatusReserved, StatusBusy,
              StatusSkip, StatusException, PluginTimeout, ToIdle, Leaves
<1>6. Next => \/ plugin' = plugin \/ Entries \/ Fini
              \/ \E v \in Plugins : StatusEvent(v) \/ PluginTimeout(v)
  BY SMTT(60) DEF Next, InetStateEvent, Report, RetryTimeout, BridgeEvent, RestartAll, InetUpdate,
     ImmediateExpires, pluginVars
<1>. QED BY <1>1, <1>2, <1>3, <1>4, <1>5, <1>6 DEF vars, pluginVars

(* has_L3 stays true only as long as a plug-in is ACTIVE, the pipeline is   *)
(* frozen, or a reset that clears it is due.                                *)
LEMMA L3Step ==
    ASSUME RestartsPlain, TypeOK, StatusInv, L3Inv, [Next]_vars
    PROVE  L3Inv'
<1> USE DEF pluginVars, wanVars, timerVars, envVars, Goto, Stay, Entry
<1>a. /\ Tri = {"unset", "true", "false"}
      /\ \A t \in Tri : [uplink EXCEPT !.L3 = t].L3 = t /\ [uplink EXCEPT !.L2 = t].L3 = uplink.L3
  BY DEF Tri, TypeOK
<1>1. CASE InitState \/ AbortState \/ Fini
  <2>1. CASE InitState \/ Fini
    <3>1. \E t \in Tri : uplink' = [L2 |-> t, L3 |-> "unset"]
      BY <1>a, <2>1, Zenon DEF InitState, Fini
    <3>2. uplink'.L3 = "unset"
      BY <3>1
    <3>. QED BY <3>2 DEF L3Inv
  <2>2. CASE AbortState
    <3>1. uplink'.L3 = "false"
      BY <2>2, <1>a DEF AbortState
    <3>. QED BY <3>1 DEF L3Inv
  <2>. QED BY <1>1, <2>1, <2>2
<1>2. CASE FreezeState
  BY <1>2 DEF FreezeState, L3Inv
<1>3. ASSUME NEW w \in Plugins, StatusOk(w) PROVE L3Inv'
  <2>1. plugin[w] \in {"RUNNING", "ACTIVE"}
    BY <1>3 DEF StatusOk, StatusInv
  <2>2. w \in In("ACTIVE")'
    BY <1>3, <2>1 DEF StatusOk, In, TypeOK
  <2>. QED BY <2>2 DEF L3Inv
<1>4. ASSUME uplink' = uplink \/ uplink'.L3 # "true",
             In("ACTIVE") \subseteq In("ACTIVE")',
             state = "FREEZE" => state' = "FREEZE" \/ (entering' /\ state' = "INIT"),
             entering /\ state \in {"INIT", "ABORT"} => FALSE
      PROVE  L3Inv'
  BY <1>4 DEF L3Inv
<1>5. ASSUME uplink' = uplink, entering' /\ state' \in {"INIT", "ABORT"} PROVE L3Inv'
  BY <1>5 DEF L3Inv
<1>6. CASE \/ StartState \/ EnableState \/ CarrierState \/ SchedState \/ Ipv4ResetState
           \/ Ipv6ResetState \/ RunState \/ IdleState
  <2>1. In("ACTIVE") \subseteq In("ACTIVE")'
    BY <1>6, ActiveStays, Zenon DEF StartState, EnableState, CarrierState, SchedState, Ipv4ResetState,
       Ipv6ResetState, RunState, IdleState, Fini, Ready
  <2>2. uplink' = uplink \/ uplink'.L3 # "true"
    BY <1>6, <1>a, Zenon DEF StartState, EnableState, CarrierState, SchedState, Ipv4ResetState,
       Ipv6ResetState, RunState, IdleState
  <2>3. state \notin {"FREEZE", "INIT", "ABORT"}
    BY <1>6, Zenon DEF StartState, EnableState, CarrierState, SchedState, Ipv4ResetState,
       Ipv6ResetState, RunState, IdleState
  <2>. QED BY <1>4, <2>1, <2>2, <2>3
<1>7. CASE InetStateEvent
  <2>1. plugin' = plugin /\ uplink'.L3 = uplink.L3 /\ ~entering
    BY <1>7, <1>a, Zenon DEF InetStateEvent, Ready, CarrierLoss, CarrierFound, InetSettled, InetIgnored
  <2>2. state = "FREEZE" => state' = "FREEZE" \/ (entering' /\ state' = "INIT")
    BY <1>7 DEF InetStateEvent, CarrierLoss, CarrierFound, InetSettled, InetIgnored, Exception
  <2>. QED BY <2>1, <2>2 DEF L3Inv, In
<1>8. ASSUME NEW w \in Plugins,
             \/ StatusOkProbeFails(w) \/ StatusReserved(w) \/ StatusBusy(w) \/ StatusSkip(w)
             \/ StatusDetach(w) \/ PluginTimeout(w)
      PROVE  L3Inv'
  <2>1. ~entering /\ (state' = state \/ state # "FREEZE")
    BY <1>8 DEF StatusOkProbeFails, StatusReserved, StatusBusy, StatusSkip, StatusDetach,
       PluginTimeout, Ready, PluginUpdate
  <2>2. uplink' = uplink \/ uplink'.L3 # "true"
    <3>1. CASE StatusReserved(w)
      BY <3>1 DEF StatusReserved
    <3>2. CASE StatusBusy(w)
      BY <3>2, <1>a DEF StatusBusy
    <3>. QED BY <1>8, <3>1, <3>2 DEF StatusOkProbeFails, StatusSkip, StatusDetach, PluginTimeout
  <2>3. ~Fini \/ uplink'.L3 # "true"
    BY DEF Fini
  <2>4. In("ACTIVE") \subseteq In("ACTIVE")' \/ uplink'.L3 # "true"
    BY <2>1, <2>3, ActiveStays
  <2>. QED BY <1>4, <2>1, <2>2, <2>4 DEF L3Inv
<1>9. ASSUME NEW w \in Plugins, StatusException(w) PROVE L3Inv'
  BY <1>9, <1>5 DEF StatusException, Exception
<1>10. CASE RestartAll
  BY <1>10, <1>5 DEF RestartAll, Exception
<1>11. ASSUME NEW b \in BOOLEAN \X BOOLEAN, BridgeEvent(b) PROVE L3Inv'
  <2>1. plugin' = plugin /\ uplink' = uplink /\ ~entering
    BY <1>11 DEF BridgeEvent, Ready
  <2>2. \/ state' = "FREEZE" \/ (entering' /\ state' = "INIT") \/ UNCHANGED <<state, entering>>
    BY <1>11 DEF BridgeEvent, CheckFreeze, Exception
  <2>. QED BY <2>1, <2>2 DEF L3Inv, In
<1>12. CASE RetryTimeout
  BY <1>12 DEF RetryTimeout, Ready, L3Inv, In
<1>13. ASSUME UNCHANGED <<state, entering, plugin, uplink>> PROVE L3Inv'
  BY <1>13, SMTT(60) DEF L3Inv, In
<1>14. ASSUME \/ \E w \in Plugins, s \in Statuses : Report(w, s)
              \/ \E i \in Inet : InetUpdate(i)
              \/ ImmediateExpires \/ UNCHANGED vars
       PROVE  UNCHANGED <<state, entering, plugin, uplink>>
  BY <1>14 DEF Report, InetUpdate, ImmediateExpires, vars
<1>. QED
  BY <1>1, <1>2, <1>3, <1>6, <1>7, <1>8, <1>9, <1>10, <1>11, <1>12, <1>13, <1>14
     DEF Next, Entries, StatusEvent

(* A plug-in uses the interface only while the link is up: it is scheduled  *)
(* after carrier was found, and carrier loss resets it.                     *)
LEMMA L2Step ==
    ASSUME TypeOK, StatusInv, L2Inv, [Next]_vars
    PROVE  L2Inv'
<1> USE DEF pluginVars, wanVars, timerVars, envVars, Goto, Stay, Entry
<1>a. /\ \A t : [uplink EXCEPT !.L3 = t].L2 = uplink.L2
      /\ [uplink EXCEPT !.L2 = "true"].L2 = "true"
  BY DEF TypeOK
<1>1. ASSUME NEW force \in BOOLEAN, PluginReset(force) PROVE Busy' \subseteq Busy
  BY <1>1 DEF PluginReset, Busy, In
<1>2. ASSUME PluginReset(TRUE) PROVE Busy' = {}
  BY <1>2 DEF PluginReset, Busy, In
<1>3. ASSUME state' \notin Linked, Busy' = {} PROVE L2Inv'
  BY <1>3 DEF L2Inv
<1>4. ASSUME state' \notin Linked, Resetting' PROVE L2Inv'
  BY <1>4 DEF L2Inv
<1>5. ASSUME LinkUp => LinkUp', state' \in Linked => state \in Linked,
             ~Resetting, Busy' \subseteq Busy \/ state \in Linked
      PROVE  L2Inv'
  BY <1>5 DEF L2Inv
<1>6. CASE InitState \/ AbortState \/ FreezeState
  BY <1>2, <1>3, <1>6, Zenon DEF InitState, AbortState, FreezeState, Linked
<1>7. CASE StartState \/ EnableState \/ CarrierState
  <2>1. UNCHANGED <<plugin, uplink, carrier, paused>> /\ state \notin {"INIT", "ABORT", "FREEZE"}
        /\ state' \notin Linked
    BY <1>7 DEF StartState, EnableState, CarrierState, Linked
  <2>. QED BY <1>5, <2>1, SMTT(60) DEF LinkUp, Busy, In, Resetting
<1>8. CASE SchedState \/ Ipv4ResetState \/ Ipv6ResetState \/ RunState
  <2>1. UNCHANGED <<uplink, carrier, paused>> /\ state \in Linked
    BY <1>8 DEF SchedState, Ipv4ResetState, Ipv6ResetState, RunState, Linked
  <2>. QED BY <2>1, SMTT(60) DEF L2Inv, LinkUp
<1>9. CASE IdleState
  <2>1. state \in Linked /\ UNCHANGED <<carrier, paused>> /\ uplink'.L2 = uplink.L2
    BY <1>9, <1>a DEF IdleState, Linked
  <2>. QED BY <2>1 DEF L2Inv, LinkUp
<1>10. CASE InetStateEvent
  <2>0. plugin' = plugin /\ ~entering
    BY <1>10 DEF InetStateEvent, Ready
  <2>1. CASE CarrierLoss
    BY <2>1, <1>4 DEF CarrierLoss, Exception, Linked, Resetting
  <2>2. CASE CarrierFound
    <3>1. LinkUp'
      BY <2>2, <1>a, SMTT(60) DEF CarrierFound, LinkUp
    <3>. QED BY <3>1, SMTT(60) DEF L2Inv
  <2>3. CASE InetSettled
    BY <2>0, <2>3, <1>5 DEF InetSettled, LinkUp, Linked, Resetting, Busy, In
  <2>4. CASE InetIgnored
    BY <2>0, <2>4, <1>5 DEF InetIgnored, LinkUp, Linked, Resetting, Busy, In
  <2>. QED BY <1>10, <2>1, <2>2, <2>3, <2>4 DEF InetStateEvent
<1>11. ASSUME NEW w \in Plugins, StatusOk(w) PROVE L2Inv'
  <2>1. plugin[w] \in {"RUNNING", "ACTIVE"}
    BY <1>11 DEF StatusOk, StatusInv
  <2>2. Busy' \subseteq Busy
    BY <1>11, <2>1 DEF StatusOk, Busy, In, TypeOK
  <2>3. uplink'.L2 = uplink.L2 \/ uplink'.L2 = "true"
    <3>1. \/ uplink' = [uplink EXCEPT !.L3 = "unset"]
          \/ uplink' = [L2 |-> "true", L3 |-> "true"]
      BY <1>11 DEF StatusOk
    <3>2. [L2 |-> "true", L3 |-> "true"].L2 = "true"
      BY SMTT(60)
    <3>. QED BY <3>1, <3>2, <1>a, Zenon
  <2>4. UNCHANGED <<state, entering, carrier, paused>> /\ ~entering
    BY <1>11, SMTT(60) DEF StatusOk, Ready
  <2>. QED BY <1>5, <2>2, <2>3, <2>4 DEF LinkUp, Resetting
<1>12. ASSUME NEW w \in Plugins,
             \/ StatusOkProbeFails(w) \/ StatusSkip(w) \/ StatusDetach(w) \/ PluginTimeout(w)
      PROVE  L2Inv'
  <2>1. UNCHANGED <<uplink, carrier, paused>> /\ ~entering
    BY <1>12, SMTT(60) DEF StatusOkProbeFails, StatusSkip, StatusDetach, PluginTimeout, Ready
  <2>2. state' \in Linked => state \in Linked
    BY <1>12 DEF StatusOkProbeFails, StatusSkip, StatusDetach, PluginTimeout, PluginUpdate, Linked
  <2>3. Busy' \subseteq Busy
    <3>1. plugin' = plugin \/ \E s \in {"IDLE", "DETACHED"} : plugin' = [plugin EXCEPT ![w] = s]
      <4>1. CASE StatusDetach(w)
        BY <4>1, Zenon DEF StatusDetach, TypeOK
      <4>. QED BY <1>12, <4>1, SMTT(60) DEF StatusOkProbeFails, StatusSkip, PluginTimeout, ToIdle
    <3>. QED BY <3>1, SMTT(60) DEF Busy, In, TypeOK
  <2>. QED BY <1>5, <2>1, <2>2, <2>3 DEF LinkUp, Resetting
<1>13. ASSUME NEW w \in Plugins, StatusReserved(w) \/ StatusBusy(w) PROVE L2Inv'
  <2>1. uplink'.L2 = uplink.L2 \/ uplink'.L2 = "true"
    <3>1. CASE StatusReserved(w)
      BY <3>1 DEF StatusReserved
    <3>2. CASE StatusBusy(w)
      BY <3>2, <1>a DEF StatusBusy
    <3>. QED BY <1>13, <3>1, <3>2
  <2>2. UNCHANGED <<state, entering, plugin, carrier, paused>>
    BY <1>13 DEF StatusReserved, StatusBusy
  <2>. QED BY <2>1, <2>2 DEF L2Inv, LinkUp, Resetting, Busy, In
<1>14. ASSUME NEW w \in Plugins, StatusException(w) PROVE L2Inv'
  BY <1>14, <1>4, SMTT(60) DEF StatusException, Exception, Linked, Resetting
<1>15. CASE RestartAll
  BY <1>15, <1>4 DEF RestartAll, Exception, Linked, Resetting
<1>16. ASSUME NEW b \in BOOLEAN \X BOOLEAN, BridgeEvent(b) PROVE L2Inv'
  <2>1. \/ entering' /\ state' \in {"INIT", "FREEZE"}
        \/ UNCHANGED <<state, entering, plugin, uplink, carrier, paused>>
    BY <1>16 DEF BridgeEvent, CheckFreeze, Exception
  <2>2. CASE entering' /\ state' \in {"INIT", "FREEZE"}
    BY <2>2, <1>4 DEF Linked, Resetting
  <2>. QED BY <2>1, <2>2 DEF L2Inv, LinkUp, Resetting, Busy, In
<1>17. CASE RetryTimeout
  <2>1. UNCHANGED <<plugin, uplink, carrier, paused>> /\ ~entering
    BY <1>17 DEF RetryTimeout, Ready
  <2>2. state' \in Linked => state \in Linked
    BY <1>17, SMTT(60) DEF RetryTimeout, Linked
  <2>. QED BY <1>5, <2>1, <2>2 DEF LinkUp, Resetting, Busy, In
<1>18. ASSUME UNCHANGED <<state, entering, plugin, uplink, carrier, paused>> PROVE L2Inv'
  BY <1>18, SMTT(60) DEF L2Inv, LinkUp, Resetting, Busy, In
<1>19. ASSUME \/ \E w \in Plugins, s \in Statuses : Report(w, s)
              \/ \E i \in Inet : InetUpdate(i)
              \/ ImmediateExpires \/ UNCHANGED vars
       PROVE  UNCHANGED <<state, entering, plugin, uplink, carrier, paused>>
  BY <1>19 DEF Report, InetUpdate, ImmediateExpires, vars
<1>20. CASE Fini
  <2>1. Busy' = {} /\ state' \notin Linked
    BY <1>20, SMTT(60) DEF Fini, Busy, In, Linked
  <2>. QED BY <2>1, <1>3, SMTT(60)
<1>. QED
  BY <1>6, <1>7, <1>8, <1>9, <1>10, <1>11, <1>12, <1>13, <1>14, <1>15, <1>16, <1>17, <1>18,
     <1>19, <1>20
     DEF Next, Entries, StatusEvent

(* The row of a plug-in's own interface goes with the plug-in. *)
LEMMA ChildStep ==
    ASSUME RestartsPlain, TypeOK, StatusInv, ChildInv, [Next]_vars
    PROVE  ChildInv'
<1> USE DEF pluginVars
<1>1. ASSUME NEW force \in BOOLEAN, PluginReset(force) PROVE ChildInv'
  <2> DEFINE kept == IF force THEN {} ELSE In("ACTIVE") \cup In("DETACHED")
  <2>1. /\ child' = child \ ((Plugins \ kept) \cap own)
        /\ own' = own \ (Plugins \ kept)
        /\ \A w \in kept : plugin'[w] = plugin[w]
    BY <1>1, SMTT(60) DEF PluginReset, Release, In
  <2>2. child' \subseteq kept
    BY <2>1, SMTT(60) DEF ChildInv, TypeOK
  <2>. QED BY <2>1, <2>2, SMTT(60) DEF ChildInv, TypeOK, In
<1>2. ASSUME NEW v \in Plugins, ToIdle(v), plugin[v] # "ACTIVE" PROVE ChildInv'
  BY <1>2 DEF ToIdle, Release, ChildInv, TypeOK, In
<1>3. ASSUME UNCHANGED <<own, child>>, In("ACTIVE") \subseteq In("ACTIVE")' PROVE ChildInv'
  BY <1>3 DEF ChildInv
<1>4. CASE InitState \/ IdleState \/ AbortState \/ FreezeState
  BY <1>1, <1>4, Zenon DEF InitState, IdleState, AbortState, FreezeState
<1>5. CASE SchedState
  BY <1>3, <1>5 DEF SchedState, Schedule, In
<1>6. CASE RunState
  BY <1>3, <1>6 DEF RunState, In
<1>7. ASSUME NEW w \in Plugins, StatusOk(w) PROVE ChildInv'
  <2>1. plugin[w] \in {"RUNNING", "ACTIVE"}
    BY <1>7 DEF StatusOk, StatusInv
  <2>2. w \in In("ACTIVE")' /\ In("ACTIVE") \subseteq In("ACTIVE")'
    BY <1>7, <2>1 DEF StatusOk, In, TypeOK
  <2>3. own' = own /\ (child' = child \/ (w \in own /\ child' = child \cup {w}))
    BY <1>7 DEF StatusOk
  <2>. QED BY <2>2, <2>3 DEF ChildInv
<1>8. ASSUME NEW w \in Plugins, StatusOkProbeFails(w) PROVE ChildInv'
  <2>1. plugin[w] # "ACTIVE"
    BY <1>8, SMTT(60) DEF StatusOkProbeFails, StatusInv, RestartsPlain
  <2>. QED BY <1>2, <1>8, <2>1 DEF StatusOkProbeFails
<1>9. ASSUME NEW w \in Plugins, StatusSkip(w) \/ PluginTimeout(w) PROVE ChildInv'
  BY <1>2, <1>3, <1>9, SMTT(60) DEF StatusSkip, PluginTimeout, In
<1>10. ASSUME NEW w \in Plugins, StatusDetach(w) PROVE ChildInv'
  BY <1>3, <1>10 DEF StatusDetach, In, TypeOK
<1>11. ASSUME NEW w \in Plugins, NEW s \in Statuses, Report(w, s) PROVE ChildInv'
  <2>1. s \in Says[w]
    BY <1>11 DEF Report, MayReport
  <2>2. w \notin child
    BY <1>11, <2>1 DEF Report, MayReport, ChildInv, StatusInv, RestartsPlain, In, NoStatus
  <2>3. child' = child /\ plugin' = plugin /\ own' \in {own \cup {w}, own \ {w}}
        /\ (s # "OK_OWN" => own' = own \ {w})
    BY <1>11, SMTT(60) DEF Report
  <2>. QED BY <2>1, <2>2, <2>3 DEF ChildInv, In
<1>12. CASE Fini
  BY <1>12, SMTT(60) DEF Fini, Release, ChildInv, TypeOK
<1>13. ASSUME \/ StartState \/ EnableState \/ CarrierState \/ Ipv4ResetState \/ Ipv6ResetState
              \/ InetStateEvent \/ RetryTimeout \/ RestartAll \/ ImmediateExpires
              \/ (\E w \in Plugins : StatusReserved(w) \/ StatusBusy(w) \/ StatusException(w))
              \/ (\E b \in BOOLEAN \X BOOLEAN : BridgeEvent(b))
              \/ (\E i \in Inet : InetUpdate(i))
              \/ UNCHANGED vars
       PROVE  UNCHANGED <<plugin, own, child>>
  BY <1>13, SMTT(60) DEF StartState, EnableState, CarrierState, Ipv4ResetState, Ipv6ResetState,
     InetStateEvent, RetryTimeout, RestartAll, ImmediateExpires, StatusReserved, StatusBusy,
     StatusException, BridgeEvent, InetUpdate, vars
<1>14. UNCHANGED <<plugin, own, child>> => ChildInv'
  BY <1>3, SMTT(60) DEF In
<1>. QED
  BY <1>4, <1>5, <1>6, <1>7, <1>8, <1>9, <1>10, <1>11, <1>12, <1>13, <1>14, SMTT(60)
     DEF Next, Entries, StatusEvent

(* UplinkTruth for every list of plug-ins in which only plug-ins without an *)
(* interface of their own may restart the pipeline.                         *)
THEOREM UplinkCorrect ==
    ASSUME RestartsPlain
    PROVE  Spec => []UplinkTruth
<1> DEFINE IInv == TypeOK /\ StatusInv /\ L3Inv /\ L2Inv /\ ChildInv
<1>1. Init => L3Inv /\ ChildInv
  BY SMTT(60) DEF Init, L3Inv, ChildInv
<1>2. Init => L2Inv
  BY DEF Init, L2Inv, Linked, Busy, In
<1>3. IInv /\ [Next]_vars => IInv'
  BY TypeStep, StatusStep, L3Step, L2Step, ChildStep
<1>4. IInv => UplinkTruth
  BY DEF UplinkTruth, L3Inv, L2Inv, ChildInv, LinkUp, Resetting
<1>5. Init => IInv
  BY <1>1, <1>2, InitType, InitStatus
<1>. QED BY <1>3, <1>4, <1>5, PTL DEF Spec
=============================================================================
