------------------------- MODULE OswConfsyncProofs -------------------------
(***************************************************************************)
(* Proofs about confsync, for any number of interfaces, configurations,    *)
(* boot states and faults: types and what IDLE has stopped, that a         *)
(* bring-up is not interrupted, and that "settled" is true.                *)
(***************************************************************************)
EXTENDS OswConfsync, WellFoundedInduction, TLAPS

Vif == [on : BOOLEAN, set : Nat, mbss : Nat]
Defer == [timer : {"none", "armed", "expired"}, deferred : BOOLEAN]

(***************************************************************************)
(* What the configurations, the reports and the commands are.              *)
(***************************************************************************)
LEMMA ConfType ==
    /\ Confs \subseteq [Vifs -> Vif]
    /\ Boots \subseteq [Vifs -> Vif]
BY ConfsyncAssumption DEF Vif

(***************************************************************************)
(* No command and no grace period are of the types of the others.          *)
(***************************************************************************)
LEMMA ConstTypes == NoCmd \in Vif /\ NoDefer \in Defer
BY DEF NoCmd, NoDefer, Vif, Defer

(***************************************************************************)
(* The types the steps need, TypeOK without what IDLE has stopped.         *)
(***************************************************************************)
Types ==
    /\ state \in States /\ want \in Confs
    /\ have \in [Vifs -> Vif]
    /\ cmd \in [Vifs -> Vif]
    /\ \A v \in Vifs : cmd[v] = NoCmd \/ \E c \in Confs : cmd[v] = c[v]
    /\ last \in Confs \union {NoTree}
    /\ defer \in [Vifs -> Defer]
    /\ retry \in BOOLEAN /\ mbss \in BOOLEAN
    /\ dfs \in DfsStates /\ cac \in {"off", "armed", "expired"}
    /\ rising \subseteq Vifs /\ mbssUsed \in BOOLEAN
    /\ changes \in 0..MaxChanges /\ faults \in 0..MaxFaults

AtRest ==
    /\ state = "IDLE" => ~retry /\ ~mbss /\ last = NoTree /\ ~DeferPending(defer)
    /\ retry => state \in {"WAITING", "VERIFYING"}

-----------------------------------------------------------------------------
(* osw_confsync_set_state.                                                 *)

(***************************************************************************)
(* Entering a state keeps the types, and IDLE stops everything; staying in *)
(* IDLE is no entering, so there what the caller leaves must be at rest.   *)
(***************************************************************************)
LEMMA SetStateTypes ==
    ASSUME Types, AtRest,
           NEW s \in States, NEW d \in [Vifs -> Defer], NEW m \in BOOLEAN,
           NEW t \in Confs \union {NoTree},
           SetState(s, d, m, t),
           s = "IDLE" /\ state = "IDLE" => ~m /\ t = NoTree /\ ~DeferPending(d)
    PROVE  /\ state' = s
           /\ state' \in States /\ last' \in Confs \union {NoTree}
           /\ defer' \in [Vifs -> Defer] /\ retry' \in BOOLEAN /\ mbss' \in BOOLEAN
           /\ mbssUsed' \in BOOLEAN
           /\ AtRest'
<1>1. state' = s /\ mbssUsed' \in BOOLEAN
  BY DEF SetState, Types
<1>2. CASE s = state
  <2>1. defer' = d /\ mbss' = m /\ last' = t /\ retry' = retry /\ state' = state
    BY <1>2 DEF SetState
  <2>2. AtRest'
    BY <1>2, <2>1 DEF AtRest, DeferPending
  <2>. QED BY <1>1, <2>1, <2>2 DEF Types
<1>3. CASE s # state
  <2>1. /\ defer' = CASE s = "IDLE" -> [v \in Vifs |-> NoDefer]
                      [] s = "REQUESTING" -> FlushExpired(d)
                      [] OTHER -> d
        /\ mbss' = (m /\ s # "IDLE")
        /\ last' = IF s = "IDLE" THEN NoTree ELSE t
        /\ retry' = RetryAfter(s)
    BY <1>3 DEF SetState
  <2>2. FlushExpired(d) \in [Vifs -> Defer] /\ [v \in Vifs |-> NoDefer] \in [Vifs -> Defer]
    BY ConstTypes DEF FlushExpired
  <2>3. defer' \in [Vifs -> Defer]
    BY <2>1, <2>2
  <2>4. mbss' \in BOOLEAN /\ retry' \in BOOLEAN /\ last' \in Confs \union {NoTree}
    BY <2>1 DEF RetryAfter, Types
  <2>5. s = "IDLE" => ~retry' /\ ~mbss' /\ last' = NoTree
    BY <2>1 DEF RetryAfter
  <2>6. s = "IDLE" => ~DeferPending(defer')
    BY <2>1 DEF DeferPending, NoDefer
  <2>7. retry' => s \in {"WAITING", "VERIFYING"}
    BY <2>1 DEF RetryAfter
  <2>. QED BY <1>1, <2>3, <2>4, <2>5, <2>6, <2>7 DEF AtRest, DeferPending
<1>. QED BY <1>2, <1>3

(***************************************************************************)
(* After a report confsync is never IDLE (osw_confsync_state_changed).     *)
(***************************************************************************)
LEMMA ReportedBusy == state \in States => Reported \in States \ {"IDLE"}
BY DEF Reported, States

(***************************************************************************)
(* Starting grace periods keeps their type (osw_confsync_defer_start).     *)
(***************************************************************************)
LEMMA StartedType ==
    ASSUME NEW d \in [Vifs -> Defer]
    PROVE  Started(d) \in [Vifs -> Defer]
<1>1. [timer |-> "armed", deferred |-> FALSE] \in Defer
  BY DEF Defer
<1>2. ASSUME NEW v \in Vifs PROVE [d[v] EXCEPT !.deferred = TRUE] \in Defer
  BY DEF Defer
<1>3. ASSUME NEW v \in Vifs
      PROVE  (CASE ~Enabling(v) -> d[v]
                [] Enabling(v) /\ d[v].timer = "none" -> [timer |-> "armed", deferred |-> FALSE]
                [] OTHER -> [d[v] EXCEPT !.deferred = TRUE]) \in Defer
  BY <1>1, <1>2
<1>. QED BY <1>3, Zenon DEF Started

(***************************************************************************)
(* The driver's and the vif's part of an action.                           *)
(***************************************************************************)
LEMMA VifChangedTypes ==
    ASSUME Types, AtRest, NEW v \in Vifs, NEW now \in Vif, VifChanged(v, now)
    PROVE  /\ have' \in [Vifs -> Vif] /\ rising' \subseteq Vifs
           /\ state' \in States /\ last' \in Confs \union {NoTree}
           /\ defer' \in [Vifs -> Defer] /\ retry' \in BOOLEAN /\ mbss' \in BOOLEAN
           /\ mbssUsed' \in BOOLEAN
           /\ AtRest'
<1> DEFINE d == IF now.on THEN [defer EXCEPT ![v] = NoDefer] ELSE defer
<1>1. d \in [Vifs -> Defer]
  BY ConstTypes DEF Types
<1>2. SetState(Reported, d, mbss, last)
  BY DEF VifChanged
<1>3. have' \in [Vifs -> Vif] /\ rising' \subseteq Vifs
  BY DEF VifChanged, Types
<1>4. Reported \in States \ {"IDLE"}
  BY ReportedBusy DEF Types
<1>5. mbss \in BOOLEAN /\ last \in Confs \union {NoTree}
  BY DEF Types
<1>. HIDE DEF d
<1>. QED BY <1>1, <1>2, <1>3, <1>4, <1>5, SetStateTypes

(***************************************************************************)
(* A report of the channel's state keeps the types.                        *)
(***************************************************************************)
LEMMA PhyChangedTypes ==
    ASSUME Types, AtRest, NEW now \in DfsStates, PhyChanged(now)
    PROVE  /\ dfs' \in DfsStates /\ cac' \in {"off", "armed", "expired"}
           /\ state' \in States /\ last' \in Confs \union {NoTree}
           /\ defer' \in [Vifs -> Defer] /\ retry' \in BOOLEAN /\ mbss' \in BOOLEAN
           /\ mbssUsed' \in BOOLEAN
           /\ AtRest'
<1>1. SetState(Reported, defer, mbss, last)
  BY DEF PhyChanged
<1>2. dfs' \in DfsStates /\ cac' \in {"off", "armed", "expired"}
  BY DEF PhyChanged
<1>3. Reported \in States \ {"IDLE"}
  BY ReportedBusy DEF Types
<1>4. mbss \in BOOLEAN /\ last \in Confs \union {NoTree} /\ defer \in [Vifs -> Defer]
  BY DEF Types
<1>. QED BY <1>1, <1>2, <1>3, <1>4, SetStateTypes

-----------------------------------------------------------------------------
(* Types.                                                                  *)

(***************************************************************************)
(* The work of REQUESTING and of VERIFYING keeps the types.                *)
(***************************************************************************)
LEMMA WorkTypes ==
    ASSUME Types, AtRest, Work
    PROVE  Types' /\ AtRest'
<1>1. /\ mbss \in BOOLEAN /\ MbssAfter \in BOOLEAN /\ want \in Confs
      /\ last \in Confs \union {NoTree} /\ defer \in [Vifs -> Defer]
  BY DEF Types, MbssAfter
<1>2. Started(defer) \in [Vifs -> Defer]
  BY <1>1, StartedType
<1>3. {"IDLE", "WAITING", "VERIFYING"} \subseteq States
  BY DEF States
<1>4. state # "IDLE"
  BY DEF Work, Requesting, Verifying
<1>5. ASSUME Request PROVE /\ cmd' \in [Vifs -> Vif] /\ rising' \subseteq Vifs
                           /\ \A v \in Vifs : cmd'[v] = NoCmd \/ \E c \in Confs : cmd'[v] = c[v]
  <2>1. want \in [Vifs -> Vif]
    BY <1>1, ConfType
  <2>2. cmd' = [v \in Vifs |-> IF v \in Changed THEN want[v] ELSE cmd[v]]
    BY <1>5 DEF Request
  <2>3. rising' \subseteq Vifs
    BY <1>5 DEF Request, Changed, Types
  <2>. QED BY <1>1, <2>1, <2>2, <2>3 DEF Types
<1>6. CASE Requesting
  <2>1. CASE last = want
    <3>1. SetState("VERIFYING", defer, mbss, last) /\ UNCHANGED <<cmd, rising>>
      BY <1>6, <2>1 DEF Requesting
    <3>2. /\ state' \in States /\ last' \in Confs \union {NoTree}
          /\ defer' \in [Vifs -> Defer] /\ retry' \in BOOLEAN /\ mbss' \in BOOLEAN
          /\ mbssUsed' \in BOOLEAN /\ AtRest'
      BY <1>1, <1>3, <1>4, <3>1, SetStateTypes
    <3>. QED BY <1>6, <3>1, <3>2 DEF Requesting, Types
  <2>2. CASE last # want
    <3> DEFINE s == IF Changed # {} \/ DeferPending(Started(defer)) THEN "WAITING" ELSE "IDLE"
    <3>1. SetState(s, Started(defer), MbssAfter, want) /\ Request
      BY <1>6, <2>2 DEF Requesting
    <3>2. s \in States
      BY <1>3
    <3>. HIDE DEF s
    <3>3. /\ state' \in States /\ last' \in Confs \union {NoTree}
          /\ defer' \in [Vifs -> Defer] /\ retry' \in BOOLEAN /\ mbss' \in BOOLEAN
          /\ mbssUsed' \in BOOLEAN /\ AtRest'
      BY <1>1, <1>2, <1>4, <3>1, <3>2, SetStateTypes
    <3>. QED BY <1>5, <1>6, <3>1, <3>3 DEF Requesting, Types
  <2>. QED BY <2>1, <2>2
<1>7. CASE Verifying
  <2>1. \E s \in {"IDLE", "WAITING"}, d \in {defer, Started(defer)}, m \in {mbss, MbssAfter} :
            SetState(s, d, m, last)
    BY <1>7 DEF Verifying
  <2>2. /\ state' \in States /\ last' \in Confs \union {NoTree}
        /\ defer' \in [Vifs -> Defer] /\ retry' \in BOOLEAN /\ mbss' \in BOOLEAN
        /\ mbssUsed' \in BOOLEAN /\ AtRest'
    BY <1>1, <1>2, <1>3, <1>4, <2>1, SetStateTypes
  <2>. QED BY <1>7, <2>2 DEF Verifying, Types
<1>. QED BY <1>6, <1>7 DEF Work

(***************************************************************************)
(* Every step keeps the types and what IDLE has stopped.                   *)
(***************************************************************************)
LEMMA TypeStep ==
    ASSUME Types, AtRest, [Next]_vars
    PROVE  Types' /\ AtRest'
<1>1. /\ mbss \in BOOLEAN /\ state \in States /\ changes \in Nat /\ faults \in Nat
      /\ last \in Confs \union {NoTree} /\ defer \in [Vifs -> Defer]
      /\ MaxChanges \in Nat /\ MaxFaults \in Nat
  BY ConfsyncAssumption DEF Types
<1>2. "REQUESTING" \in States /\ Reported \in States \ {"IDLE"}
  BY <1>1, ReportedBusy DEF States
<1> DEFINE Entered == /\ state' \in States /\ last' \in Confs \union {NoTree}
                      /\ defer' \in [Vifs -> Defer] /\ retry' \in BOOLEAN
                      /\ mbss' \in BOOLEAN /\ mbssUsed' \in BOOLEAN /\ AtRest'
<1>3. ASSUME NEW s \in States, s # "IDLE", NEW d \in [Vifs -> Defer], NEW m \in BOOLEAN,
             SetState(s, d, m, last)
      PROVE  Entered
  BY <1>1, <1>3, SetStateTypes
<1>4. CASE Work
  BY <1>4, WorkTypes
<1>5. CASE Retry
  <2>1. Entered
    BY <1>1, <1>2, <1>3, <1>5 DEF Retry
  <2>. QED BY <1>5, <2>1 DEF Retry, Types
<1>6. CASE MbssExpires
  <2>1. Entered
    BY <1>1, <1>2, <1>3, <1>6 DEF MbssExpires
  <2>. QED BY <1>6, <2>1 DEF MbssExpires, Types
<1>7. CASE TreeExpires
  BY <1>7 DEF TreeExpires, Forgotten, Types, AtRest, DeferPending
<1>8. CASE CacExpires
  <2>1. Entered
    BY <1>1, <1>2, <1>3, <1>8 DEF CacExpires
  <2>. QED BY <1>8, <2>1 DEF CacExpires, Types
<1>9. ASSUME NEW c \in Confs, ConfMutated(c) PROVE Types' /\ AtRest'
  <2>1. Entered
    BY <1>1, <1>2, <1>3, <1>9 DEF ConfMutated
  <2>. QED BY <1>1, <1>9, <2>1 DEF ConfMutated, Types
<1>10. ASSUME NEW now \in {"running", "done"}, PhyChanged(now),
              UNCHANGED <<want, have, cmd, rising, changes, faults>>
       PROVE  Types' /\ AtRest'
  BY <1>10, PhyChangedTypes DEF Types, DfsStates
<1>11. CASE EndCac
  BY <1>10, <1>11 DEF EndCac
<1>12. ASSUME NEW v \in Vifs, StartCac(v) PROVE Types' /\ AtRest'
  BY <1>10, <1>12 DEF StartCac
<1>13. ASSUME NEW v \in Vifs, DeferExpires(v) PROVE Types' /\ AtRest'
  <2> DEFINE d == [defer EXCEPT ![v].timer = "expired"]
             s == IF defer[v].deferred THEN "REQUESTING" ELSE state
  <2>1. d \in [Vifs -> Defer]
    BY <1>1 DEF Defer
  <2>2. state # "IDLE"
    BY <1>13 DEF DeferExpires, AtRest, DeferPending
  <2>3. s \in States /\ s # "IDLE"
    BY <1>1, <1>2, <2>2
  <2>4. SetState(s, d, mbss, last)
    BY <1>13 DEF DeferExpires
  <2>. HIDE DEF s, d
  <2>5. Entered
    BY <1>1, <1>3, <2>1, <2>3, <2>4
  <2>. QED BY <1>13, <2>5 DEF DeferExpires, Types
<1>14. ASSUME NEW v \in Vifs, Apply(v) PROVE Types' /\ AtRest'
  <2>1. cmd' = [cmd EXCEPT ![v] = NoCmd] /\ UNCHANGED <<want, dfs, cac, changes, faults>>
    BY <1>14 DEF Apply
  <2>2. /\ cmd' \in [Vifs -> Vif]
        /\ \A u \in Vifs : cmd'[u] = NoCmd \/ \E c \in Confs : cmd'[u] = c[u]
    BY <2>1, ConstTypes DEF Types
  <2>3. CASE cmd[v] = have[v]
    <3>1. UNCHANGED <<state, have, last, defer, retry, mbss, rising, mbssUsed>>
      BY <1>14, <2>3 DEF Apply
    <3>. QED BY <2>1, <2>2, <3>1 DEF Types, AtRest, DeferPending
  <2>4. CASE cmd[v] # have[v]
    <3>1. VifChanged(v, cmd[v]) /\ cmd[v] \in Vif
      BY <1>14, <2>4 DEF Apply, Types
    <3>. QED BY <2>1, <2>2, <3>1, VifChangedTypes DEF Types
  <2>. QED BY <2>3, <2>4
<1>15. ASSUME NEW v \in Vifs, Lose(v) PROVE Types' /\ AtRest'
  <2>1. /\ cmd' = [cmd EXCEPT ![v] = NoCmd] /\ faults' \in 0..MaxFaults
        /\ UNCHANGED <<state, want, have, last, defer, retry, mbss, dfs, cac, rising, mbssUsed,
                       changes>>
    BY <1>1, <1>15 DEF Lose
  <2>2. /\ cmd' \in [Vifs -> Vif]
        /\ \A u \in Vifs : cmd'[u] = NoCmd \/ \E c \in Confs : cmd'[u] = c[u]
    BY <2>1, ConstTypes DEF Types
  <2>. QED BY <2>1, <2>2 DEF Types, AtRest, DeferPending
<1>16. ASSUME NEW v \in Vifs, Drop(v) PROVE Types' /\ AtRest'
  <2>1. [have[v] EXCEPT !.on = FALSE] \in Vif
    BY DEF Types, Vif
  <2>2. VifChanged(v, [have[v] EXCEPT !.on = FALSE]) /\ faults' \in 0..MaxFaults
    BY <1>1, <1>16 DEF Drop
  <2>3. /\ have' \in [Vifs -> Vif] /\ rising' \subseteq Vifs /\ Entered
    BY <2>1, <2>2, VifChangedTypes
  <2>. QED BY <1>16, <2>2, <2>3 DEF Drop, Types
<1>17. CASE UNCHANGED vars
  BY <1>17 DEF vars, Types, AtRest, DeferPending
<1>. QED BY <1>4, <1>5, <1>6, <1>7, <1>8, <1>9, <1>11, <1>12, <1>13, <1>14, <1>15, <1>16, <1>17
         DEF Next

(***************************************************************************)
(* At first the types hold and confsync is not IDLE.                       *)
(***************************************************************************)
LEMMA InitTypes == Init => Types /\ AtRest
<1>. SUFFICES ASSUME Init PROVE Types /\ AtRest
  OBVIOUS
<1>1. have \in [Vifs -> Vif] /\ cmd \in [Vifs -> Vif] /\ defer \in [Vifs -> Defer]
  BY ConfType, ConstTypes DEF Init
<1>2. dfs \in DfsStates
  BY ConfsyncAssumption DEF Init
<1>3. AtRest
  BY DEF Init, AtRest
<1>4. \A v \in Vifs : cmd[v] = NoCmd
  BY DEF Init
<1>5. changes \in 0..MaxChanges /\ faults \in 0..MaxFaults
  BY ConfsyncAssumption DEF Init
<1>6. /\ state \in States /\ want \in Confs /\ last \in Confs \union {NoTree}
      /\ retry \in BOOLEAN /\ mbss \in BOOLEAN /\ mbssUsed \in BOOLEAN
      /\ cac \in {"off", "armed", "expired"} /\ rising \subseteq Vifs
  BY DEF Init, States
<1>. QED BY <1>1, <1>2, <1>3, <1>4, <1>5, <1>6 DEF Types

(***************************************************************************)
(* The variables keep their types, and in IDLE no timer runs and nothing   *)
(* is cached (osw_confsync.c:2401-2413), for every radio and every driver. *)
(***************************************************************************)
THEOREM TypeCorrect == Spec => []TypeOK
<1>1. Types /\ AtRest /\ [Next]_vars => (Types /\ AtRest)'
  BY TypeStep
<1>2. Types /\ AtRest => TypeOK
  BY DEF Types, AtRest, TypeOK, Vif, Defer
<1>. QED BY <1>1, <1>2, InitTypes, PTL DEF Spec

-----------------------------------------------------------------------------
(* The grace period.                                                       *)

(***************************************************************************)
(* A vif in its grace period has its timer armed and is not up.            *)
(***************************************************************************)
RiseInv == \A v \in rising : v \in Vifs /\ defer[v].timer = "armed" /\ ~have[v].on

(***************************************************************************)
(* Only IDLE stops an armed grace period (osw_confsync_set_state).         *)
(***************************************************************************)
LEMMA ArmedKept ==
    ASSUME NEW s, NEW d, NEW m, NEW t, NEW v \in Vifs,
           s # "IDLE", SetState(s, d, m, t), d[v].timer = "armed"
    PROVE  defer'[v].timer = "armed"
<1>1. FlushExpired(d)[v].timer = "armed"
  BY DEF FlushExpired
<1>2. defer' = d \/ defer' = FlushExpired(d)
  BY DEF SetState
<1>. QED BY <1>1, <1>2

(***************************************************************************)
(* Starting grace periods leaves the ones that run, and starts one for     *)
(* every vif to be enabled (osw_confsync_defer_start).                     *)
(***************************************************************************)
LEMMA StartedArms ==
    ASSUME Types, NEW v \in Vifs
    PROVE  /\ defer[v].timer = "armed" => Started(defer)[v].timer = "armed"
           /\ Enabling(v) /\ defer[v].timer = "none" => Started(defer)[v].timer = "armed"
<1>1. defer[v] \in Defer
  BY DEF Types
<1>2. [defer[v] EXCEPT !.deferred = TRUE].timer = defer[v].timer
  BY <1>1 DEF Defer
<1>3. Started(defer)[v] =
        CASE ~Enabling(v) -> defer[v]
          [] Enabling(v) /\ defer[v].timer = "none" -> [timer |-> "armed", deferred |-> FALSE]
          [] OTHER -> [defer[v] EXCEPT !.deferred = TRUE]
  BY DEF Started
<1>4. CASE ~Enabling(v)
  BY <1>3, <1>4
<1>5. CASE Enabling(v) /\ defer[v].timer = "none"
  BY <1>3, <1>5
<1>6. CASE Enabling(v) /\ defer[v].timer # "none"
  BY <1>2, <1>3, <1>6
<1>. QED BY <1>4, <1>5, <1>6

(***************************************************************************)
(* A report of one interface keeps the grace periods of the others, and    *)
(* its own unless it says that the interface is up.                        *)
(***************************************************************************)
LEMMA VifChangedRise ==
    ASSUME Types, RiseInv, NEW u \in Vifs, NEW now \in Vif, VifChanged(u, now)
    PROVE  RiseInv'
<1>. SUFFICES ASSUME NEW v \in rising' PROVE v \in Vifs /\ defer'[v].timer = "armed" /\ ~have'[v].on
  BY DEF RiseInv
<1>1. v \in rising /\ v \in Vifs /\ defer[v].timer = "armed" /\ ~have[v].on /\ (now.on => v # u)
  BY DEF VifChanged, RiseInv
<1>2. ~have'[v].on
  BY <1>1 DEF VifChanged, Types
<1> DEFINE d == IF now.on THEN [defer EXCEPT ![u] = NoDefer] ELSE defer
<1>3. d[v].timer = "armed"
  BY <1>1 DEF Types
<1>4. SetState(Reported, d, mbss, last)
  BY DEF VifChanged
<1>. HIDE DEF d
<1>5. Reported # "IDLE"
  BY ReportedBusy DEF Types
<1>. QED BY <1>1, <1>2, <1>3, <1>4, <1>5, ArmedKept

(***************************************************************************)
(* Every step keeps RiseInv: work that starts a grace period or finds one  *)
(* running does not come to rest, and only its end, or the report that     *)
(* the interface is up, takes the timer away.                              *)
(***************************************************************************)
LEMMA RiseStep ==
    ASSUME Types, AtRest, RiseInv, [Next]_vars
    PROVE  RiseInv'
<1>1. Reported # "IDLE"
  BY ReportedBusy DEF Types
<1>2. ASSUME NEW s, s # "IDLE", NEW m, NEW t, SetState(s, defer, m, t), UNCHANGED <<have, rising>>
      PROVE  RiseInv'
  <2>. SUFFICES ASSUME NEW v \in rising PROVE v \in Vifs /\ defer'[v].timer = "armed" /\ ~have[v].on
    BY <1>2 DEF RiseInv
  <2>1. v \in Vifs /\ defer[v].timer = "armed" /\ ~have[v].on
    BY DEF RiseInv
  <2>. QED BY <1>2, <2>1, ArmedKept
<1>3. CASE Requesting
  <2>1. CASE last = want
    BY <1>2, <1>3, <2>1 DEF Requesting
  <2>2. CASE last # want
    <3> DEFINE new == {v \in Changed : Enabling(v) /\ defer[v].timer = "none"}
               s == IF Changed # {} \/ DeferPending(Started(defer)) THEN "WAITING" ELSE "IDLE"
    <3>1. /\ rising' = rising \union new /\ have' = have
          /\ SetState(s, Started(defer), MbssAfter, want)
      BY <1>3, <2>2 DEF Requesting, Request
    <3>. SUFFICES ASSUME NEW v \in rising'
                  PROVE  v \in Vifs /\ defer'[v].timer = "armed" /\ ~have[v].on
      BY <3>1 DEF RiseInv
    <3>2. v \in Vifs /\ ~have[v].on /\ Started(defer)[v].timer = "armed"
      <4>1. CASE v \in rising
        BY <4>1, StartedArms DEF RiseInv
      <4>2. CASE v \in new
        <5>1. v \in Vifs /\ Enabling(v) /\ defer[v].timer = "none"
          BY <4>2 DEF Changed
        <5>. QED BY <5>1, StartedArms DEF Enabling
      <4>. QED BY <3>1, <4>1, <4>2
    <3>3. s # "IDLE"
      BY <3>2 DEF DeferPending
    <3>. HIDE DEF s
    <3>. QED BY <3>1, <3>2, <3>3, ArmedKept
  <2>. QED BY <2>1, <2>2
<1>4. CASE Verifying
  <2>1. CASE DeferPending(defer)
    BY <1>2, <1>4, <2>1 DEF Verifying
  <2>2. CASE ~DeferPending(defer)
    <3>1. rising = {} /\ rising' = rising
      BY <1>4, <2>2 DEF Verifying, DeferPending, RiseInv
    <3>. QED BY <3>1 DEF RiseInv
  <2>. QED BY <2>1, <2>2
<1>5. CASE Retry
  BY <1>2, <1>5 DEF Retry
<1>6. CASE MbssExpires
  BY <1>1, <1>2, <1>6 DEF MbssExpires
<1>7. CASE TreeExpires
  BY <1>7 DEF TreeExpires, RiseInv
<1>8. CASE CacExpires
  BY <1>1, <1>2, <1>8 DEF CacExpires
<1>9. ASSUME NEW c \in Confs, ConfMutated(c) PROVE RiseInv'
  BY <1>2, <1>9 DEF ConfMutated
<1>10. CASE EndCac
  BY <1>1, <1>2, <1>10 DEF EndCac, PhyChanged
<1>11. ASSUME NEW u \in Vifs, StartCac(u) PROVE RiseInv'
  BY <1>1, <1>2, <1>11 DEF StartCac, PhyChanged
<1>12. ASSUME NEW u \in Vifs, DeferExpires(u) PROVE RiseInv'
  <2> DEFINE d == [defer EXCEPT ![u].timer = "expired"]
             s == IF defer[u].deferred THEN "REQUESTING" ELSE state
  <2>1. SetState(s, d, mbss, last) /\ rising' = rising \ {u} /\ have' = have
    BY <1>12 DEF DeferExpires
  <2>2. s # "IDLE"
    BY <1>12 DEF DeferExpires, AtRest, DeferPending
  <2>. SUFFICES ASSUME NEW v \in rising'
                PROVE  v \in Vifs /\ defer'[v].timer = "armed" /\ ~have[v].on
    BY <2>1 DEF RiseInv
  <2>3. v \in Vifs /\ ~have[v].on /\ defer[v].timer = "armed" /\ v # u
    BY <2>1 DEF RiseInv
  <2>4. d[v].timer = "armed"
    BY <2>3 DEF Types
  <2>. HIDE DEF s, d
  <2>. QED BY <2>1, <2>2, <2>3, <2>4, ArmedKept
<1>13. ASSUME NEW u \in Vifs, Apply(u) PROVE RiseInv'
  <2>1. CASE cmd[u] = have[u]
    BY <1>13, <2>1 DEF Apply, RiseInv
  <2>2. CASE cmd[u] # have[u]
    <3>1. VifChanged(u, cmd[u]) /\ cmd[u] \in Vif
      BY <1>13, <2>2 DEF Apply, Types
    <3>. QED BY <3>1, VifChangedRise
  <2>. QED BY <2>1, <2>2
<1>14. ASSUME NEW u \in Vifs, Lose(u) PROVE RiseInv'
  BY <1>14 DEF Lose, RiseInv
<1>15. ASSUME NEW u \in Vifs, Drop(u) PROVE RiseInv'
  <2>1. [have[u] EXCEPT !.on = FALSE] \in Vif
    BY DEF Types, Vif
  <2>. QED BY <1>15, <2>1, VifChangedRise DEF Drop
<1>16. CASE UNCHANGED vars
  BY <1>16 DEF vars, RiseInv
<1>. QED BY <1>3, <1>4, <1>5, <1>6, <1>7, <1>8, <1>9, <1>10, <1>11, <1>12, <1>13, <1>14, <1>15,
         <1>16
         DEF Next, Work

(***************************************************************************)
(* The grace period is respected (osw_confsync.c:49-62): whatever is       *)
(* configured, reported or lost meanwhile, on any number of interfaces, a  *)
(* bring-up that was commanded is not replaced by another command.         *)
(***************************************************************************)
THEOREM GraceCorrect == Spec => NoInterrupt
<1> DEFINE IInv == Types /\ AtRest /\ RiseInv
<1>1. Init => IInv
  BY InitTypes DEF Init, RiseInv
<1>2. IInv /\ [Next]_vars => IInv'
  BY TypeStep, RiseStep
<1>3. ASSUME IInv, [Next]_vars
      PROVE  [\A v \in rising : cmd'[v] \in {cmd[v], NoCmd}]_vars
  <2>. SUFFICES ASSUME Next, NEW v \in rising PROVE cmd'[v] \in {cmd[v], NoCmd}
    BY <1>3
  <2>1. v \in Vifs /\ defer[v].timer = "armed" /\ ~have[v].on
    BY <1>3 DEF RiseInv
  <2>2. CASE Requesting
    <3>1. v \notin Changed
      BY <1>3, <2>1 DEF Changed, Skip, SkipAlone, Deferred, Enabling, Types, Vif
    <3>. QED BY <2>1, <2>2, <3>1 DEF Requesting, Request
  <2>3. CASE \E u \in Vifs : Apply(u) \/ Lose(u)
    BY <1>3, <2>1, <2>3 DEF Apply, Lose, Types
  <2>4. CASE cmd' = cmd
    BY <2>4
  <2>5. Requesting \/ (\E u \in Vifs : Apply(u) \/ Lose(u)) \/ cmd' = cmd
    BY DEF Next, Work, Verifying, Retry, MbssExpires, TreeExpires, CacExpires, ConfMutated, EndCac,
           DeferExpires, StartCac, Drop
  <2>. QED BY <2>2, <2>3, <2>4, <2>5
<1>. HIDE DEF IInv
<1>. QED BY <1>1, <1>2, <1>3, PTL DEF Spec, NoInterrupt

-----------------------------------------------------------------------------
(* Settling.                                                               *)

(***************************************************************************)
(* No interface is up on a channel that is still to be checked: the        *)
(* external driver checks it first.                                        *)
(***************************************************************************)
UpInv == (\E v \in Vifs : have[v].on) => dfs \notin {"needed", "running"}

(***************************************************************************)
(* Every step keeps UpInv: a driver starts a check only with every         *)
(* interface down, and brings one up only after it.                        *)
(***************************************************************************)
LEMMA UpStep ==
    ASSUME Types, UpInv, [Next]_vars
    PROVE  UpInv'
<1>1. CASE \E u \in Vifs : StartCac(u)
  BY <1>1 DEF StartCac, PhyChanged, UpInv
<1>2. CASE EndCac
  BY <1>2 DEF EndCac, PhyChanged, UpInv
<1>3. ASSUME NEW u \in Vifs, Apply(u), cmd[u] # have[u] PROVE UpInv'
  <2>1. /\ have' = [have EXCEPT ![u] = cmd[u]] /\ dfs' = dfs
        /\ RisesTo(u) => dfs \notin {"needed", "running"}
    BY <1>3 DEF Apply, VifChanged
  <2>. QED BY <2>1 DEF RisesTo, UpInv, Types, Vif
<1>4. ASSUME NEW u \in Vifs, Drop(u) PROVE UpInv'
  <2>1. have[u].on /\ dfs' = dfs
    BY <1>4 DEF Drop
  <2>. QED BY <2>1 DEF UpInv
<1>5. CASE UNCHANGED <<have, dfs>>
  BY <1>5 DEF UpInv
<1>6. \/ \E u \in Vifs : StartCac(u) \/ (Apply(u) /\ cmd[u] # have[u]) \/ Drop(u)
      \/ EndCac
      \/ UNCHANGED <<have, dfs>>
  BY DEF Next, vars, Work, Requesting, Verifying, Retry, MbssExpires, TreeExpires, CacExpires,
         ConfMutated, DeferExpires, Apply, Lose
<1>. QED BY <1>1, <1>2, <1>3, <1>4, <1>5, <1>6

(***************************************************************************)
(* A set of interfaces has a first one.                                    *)
(***************************************************************************)
LEMMA FirstVif ==
    ASSUME NEW D, D \subseteq Vifs, D # {}
    PROVE  \E v \in D : \A u \in D : ~(u < v)
<1>1. D \subseteq Nat
  BY ConfsyncAssumption DEF Vifs
<1>2. PICK v \in D : \A u \in D : <<u, v>> \notin OpToRel(<, Nat)
  BY <1>1, WFMin, NatLessThanWellFounded
<1>. QED BY <1>1, <1>2 DEF OpToRel

(***************************************************************************)
(* Nothing to command, no MBSS timer and no channel check that runs mean   *)
(* that the radio is as configured or a bring-up has been put off: the     *)
(* first interface that differs is not kept waiting by one before it,      *)
(* which would be up on a channel to be checked.                           *)
(***************************************************************************)
LEMMA NothingChanged ==
    ASSUME Types, UpInv, Changed = {}, ~mbss, ~CacOngoing,
           \A v \in Vifs : ~Deferred(v)
    PROVE  InSync
<1> DEFINE D == {v \in Vifs : Differs(v) /\ ~SkipAlone(v)}
<1>1. D = {}
  <2>. SUFFICES ASSUME D # {} PROVE FALSE
    OBVIOUS
  <2>1. PICK v \in D : \A u \in D : ~(u < v)
    BY FirstVif
  <2>2. PICK u \in Vifs : u < v /\ ~SkipAlone(u) /\ CacPlanned(u)
    BY <2>1 DEF Changed, Skip
  <2>3. ~Differs(u)
    BY <2>1, <2>2
  <2>4. have[u].on /\ dfs \in {"needed", "running"}
    BY <2>2, <2>3 DEF CacPlanned, Differs
  <2>. QED BY <2>4 DEF UpInv
<1>. QED BY <1>1 DEF InSync, SkipAlone, Differs

(***************************************************************************)
(* Every step keeps SettledTruth: only work enters IDLE, and nothing       *)
(* changes the radio or the configuration without leaving it.              *)
(***************************************************************************)
LEMMA SettledStep ==
    ASSUME Types, AtRest, UpInv, SettledTruth, [Next]_vars
    PROVE  SettledTruth'
<1>. SUFFICES ASSUME state' = "IDLE", ~mbssUsed' PROVE InSync' \/ CacOngoing'
  BY DEF SettledTruth, IdleTruth
<1>1. ASSUME NEW s, NEW d, NEW m, NEW t, SetState(s, d, m, t) PROVE s = "IDLE" /\ ~m /\ ~mbssUsed
  BY <1>1 DEF SetState
<1>2. ASSUME UNCHANGED <<want, have, dfs, cac>>, InSync \/ CacOngoing PROVE InSync' \/ CacOngoing'
  BY <1>2 DEF InSync, CacOngoing
<1>3. ASSUME UNCHANGED <<want, have, dfs, cac>>, Changed = {}, ~MbssAfter,
             \A v \in Vifs : ~Deferred(v)
      PROVE  InSync' \/ CacOngoing'
  <2>1. ~mbss
    BY <1>3 DEF MbssAfter
  <2>. QED BY <1>2, <1>3, <2>1, NothingChanged
<1>4. CASE Requesting
  <2>1. last # want
    BY <1>1, <1>4 DEF Requesting
  <2>2. /\ ~DeferPending(Started(defer)) /\ Changed = {} /\ ~MbssAfter
        /\ UNCHANGED <<want, have, dfs, cac>>
    BY <1>1, <1>4, <2>1 DEF Requesting
  <2>3. \A v \in Vifs : ~Deferred(v)
    BY <2>2, StartedArms DEF Deferred, DeferPending
  <2>. QED BY <1>3, <2>2, <2>3
<1>5. CASE Verifying
  <2>1. ~DeferPending(defer)
    BY <1>1, <1>5 DEF Verifying
  <2>2. Changed = {} /\ ~MbssAfter /\ UNCHANGED <<want, have, dfs, cac>>
    BY <1>1, <1>5, <2>1 DEF Verifying
  <2>3. \A v \in Vifs : ~Deferred(v)
    BY <2>1 DEF Deferred, DeferPending
  <2>. QED BY <1>3, <2>2, <2>3
<1>6. ASSUME NEW v \in Vifs, DeferExpires(v) PROVE FALSE
  <2>1. state # "IDLE"
    BY <1>6 DEF DeferExpires, AtRest, DeferPending
  <2>. QED BY <1>6, <2>1 DEF DeferExpires, SetState
<1>7. ASSUME NEW d, NEW m, NEW t, SetState(Reported, d, m, t) PROVE FALSE
  BY <1>7, ReportedBusy DEF SetState, Types
<1>8. ASSUME UNCHANGED <<state, want, have, dfs, cac, mbssUsed>> PROVE InSync' \/ CacOngoing'
  BY <1>2, <1>8 DEF SettledTruth, IdleTruth
<1>9. CASE Retry
  BY <1>1, <1>9 DEF Retry
<1>10. ASSUME NEW c \in Confs, ConfMutated(c) PROVE FALSE
  BY <1>1, <1>10 DEF ConfMutated
<1>11. CASE MbssExpires \/ CacExpires \/ EndCac
  BY <1>7, <1>11 DEF MbssExpires, CacExpires, EndCac, PhyChanged
<1>12. ASSUME NEW v \in Vifs, StartCac(v) \/ Apply(v) \/ Lose(v) \/ Drop(v)
       PROVE  InSync' \/ CacOngoing'
  BY <1>7, <1>8, <1>12 DEF StartCac, Apply, Lose, Drop, PhyChanged, VifChanged
<1>13. CASE TreeExpires \/ UNCHANGED vars
  BY <1>8, <1>13 DEF TreeExpires, vars
<1>. QED BY <1>4, <1>5, <1>6, <1>9, <1>10, <1>11, <1>12, <1>13 DEF Next, Work

(***************************************************************************)
(* "settled" (osw_confsync.c:2404) is true while no MBSS mode changes: at  *)
(* rest every interface is as configured, or a channel check runs whose    *)
(* end or timeout wakes confsync; for any number of interfaces,            *)
(* configurations, lost commands and interfaces that go down.              *)
(***************************************************************************)
THEOREM SettledCorrect == Spec => []SettledTruth
<1> DEFINE IInv == Types /\ AtRest /\ UpInv /\ SettledTruth
<1>1. Init => IInv
  <2>. SUFFICES ASSUME Init PROVE UpInv /\ SettledTruth
    BY InitTypes
  <2>1. UpInv
    BY BootAssumption DEF Init, UpInv
  <2>2. SettledTruth
    BY DEF Init, SettledTruth, IdleTruth
  <2>. QED BY <2>1, <2>2
<1>2. IInv /\ [Next]_vars => IInv'
  BY TypeStep, UpStep, SettledStep
<1>. HIDE DEF IInv
<1>3. IInv => SettledTruth
  BY DEF IInv
<1>. QED BY <1>1, <1>2, <1>3, PTL DEF Spec
=============================================================================
