---------------------------- MODULE OswConfsync ----------------------------
(***************************************************************************)
(* osw_confsync (src/src/lib/osw/src/osw_confsync.c): compares the         *)
(* intended Wi-Fi configuration with the reported state, commands the      *)
(* drivers what differs, and waits for reports, timers and new             *)
(* configurations to compare again.  One radio (phy) with its access point *)
(* interfaces (vifs) is modelled; a driver that applies a command, keeps   *)
(* it for long or loses it is external.                                    *)
(*                                                                         *)
(* Everything runs in one libev loop, so a callback is one action.  The    *)
(* grace periods of bring-up and of MBSS changes (10 s) end before a retry *)
(* (30 s) armed with or after them; the other timers are in no order.      *)
(***************************************************************************)
EXTENDS Integers, FiniteSets

CONSTANTS
    NVifs,       \* the interfaces, in the order they are visited
    Confs,       \* the intended configurations: [Vifs -> [on, set, mbss]]
    Boots,       \* the states the radio may be found in, likewise
    Dfs,         \* the states of the channel at first, subset of DfsStates
    Faults,      \* subset of {"lose", "drop"}
    MaxChanges,  \* bound: new configurations
    MaxFaults    \* bound: commands lost and interfaces that go down

Vifs == 1..NVifs
States == {"IDLE", "REQUESTING", "WAITING", "VERIFYING"}
DfsStates == {"none", "needed", "running", "done"}

ASSUME ConfsyncAssumption ==
    /\ NVifs \in Nat /\ MaxChanges \in Nat /\ MaxFaults \in Nat
    /\ Confs \union Boots \subseteq [Vifs -> [on : BOOLEAN, set : Nat \ {0}, mbss : Nat]]
    /\ Dfs \subseteq DfsStates /\ Faults \subseteq {"lose", "drop"}

(***************************************************************************)
(* No interface is up at first on a channel still to be checked: a driver  *)
(* brings none up before the check.                                        *)
(***************************************************************************)
ASSUME BootAssumption ==
    (\E b \in Boots : \E v \in Vifs : b[v].on) => Dfs \intersect {"needed", "running"} = {}

VARIABLES
    state,    \* cs->state; work and deadline run in REQUESTING and VERIFYING
    want,     \* what osw_conf_build returns
    have,     \* osw_state: what the driver last reported
    cmd,      \* per vif the command the driver works on, or NoCmd
    last,     \* cs->last_phy_tree, whose timer runs while there is one
    defer,    \* cs->defers: per vif its timer and the deferred flag
    retry,    \* the retry timer runs
    mbss,     \* the phy's mbss_timeout is armed
    dfs,      \* whether the channel needs a check (CAC), is checked, ...
    cac,      \* the phy's cac_timeout: "off", "armed" or "expired"
    rising,   \* ghost: the vifs brought up with a grace period that is not over
    mbssUsed, \* ghost: an MBSS change was met
    changes,  \* new configurations so far
    faults    \* faults so far

vars == <<state, want, have, cmd, last, defer, retry, mbss, dfs, cac, rising, mbssUsed,
          changes, faults>>

NoCmd == [on |-> FALSE, set |-> 0, mbss |-> 0]   \* no configuration has set 0
NoTree == <<>>
NoDefer == [timer |-> "none", deferred |-> FALSE]

Init ==
    /\ state = "REQUESTING"
    /\ want \in Confs /\ have \in Boots
    /\ cmd = [v \in Vifs |-> NoCmd]
    /\ last = NoTree
    /\ defer = [v \in Vifs |-> NoDefer]
    /\ retry = FALSE /\ mbss = FALSE
    /\ dfs \in Dfs /\ cac = "off"
    /\ rising = {} /\ mbssUsed = FALSE
    /\ changes = 0 /\ faults = 0
-----------------------------------------------------------------------------
(***************************************************************************)
(* osw_confsync_defer_flush_expired                                        *)
(***************************************************************************)
FlushExpired(d) == [v \in Vifs |-> IF d[v].timer = "expired" THEN NoDefer ELSE d[v]]

\* Mutant: IDLE does not stop the retry timer.
RetryAfterIdle(s) == s = "WAITING" \/ (s # "REQUESTING" /\ retry)

(***************************************************************************)
(* The retry timer, when the state s has been entered.                     *)
(***************************************************************************)
RetryAfter(s) == s = "WAITING" \/ (s = "VERIFYING" /\ retry)

(***************************************************************************)
(* osw_confsync_set_state, over the defers d, the MBSS timer m and the     *)
(* cached tree t that the caller leaves: IDLE forgets all of them.         *)
(***************************************************************************)
SetState(s, d, m, t) ==
    /\ state' = s
    /\ mbssUsed' = (mbssUsed \/ m)
    /\ IF s = state
       THEN defer' = d /\ mbss' = m /\ last' = t /\ retry' = retry
       ELSE /\ defer' = CASE s = "IDLE" -> [v \in Vifs |-> NoDefer]
                          [] s = "REQUESTING" -> FlushExpired(d)
                          [] OTHER -> d
            /\ mbss' = (m /\ s # "IDLE")
            /\ last' = IF s = "IDLE" THEN NoTree ELSE t
            /\ retry' = RetryAfter(s)

(***************************************************************************)
(* osw_confsync_state_changed: what a report moves to.                     *)
(***************************************************************************)
Reported ==
    CASE state = "IDLE" -> "REQUESTING"
      [] state = "WAITING" -> "VERIFYING"
      [] OTHER -> state
-----------------------------------------------------------------------------
(* osw_confsync_build_drv_conf: what is to be commanded.                   *)

Differs(v) == want[v] # have[v]

Enabling(v) == want[v].on /\ ~have[v].on

(***************************************************************************)
(* osw_confsync_defer_start: the first attempt to enable a vif starts its  *)
(* grace period, the next ones are noted.                                  *)
(***************************************************************************)
Started(d) ==
    [v \in Vifs |->
        CASE ~Enabling(v) -> d[v]
          [] Enabling(v) /\ d[v].timer = "none" -> [timer |-> "armed", deferred |-> FALSE]
          [] OTHER -> [d[v] EXCEPT !.deferred = TRUE]]

\* Mutant: the grace period is started but not respected.
DeferredNever(v) == FALSE

(***************************************************************************)
(* An attempt within the grace period is put off.                          *)
(***************************************************************************)
Deferred(v) == Enabling(v) /\ defer[v].timer = "armed"

CacOngoing == dfs = "running" /\ cac = "armed"

SkipAlone(v) ==
    \/ ~want[v].on /\ ~have[v].on
    \/ mbss
    \/ CacOngoing
    \/ Deferred(v)

(***************************************************************************)
(* osw_confsync_cac_is_planned                                             *)
(***************************************************************************)
CacPlanned(v) ==
    /\ want[v].on
    /\ dfs \in {"needed", "running"} \/ (dfs = "done" /\ Differs(v))

(***************************************************************************)
(* osw_confsync_build_drv_conf_vif: a vif is skipped for its own reasons   *)
(* or since an earlier one is going to have the channel checked.           *)
(***************************************************************************)
Skip(v) ==
    \/ SkipAlone(v)
    \/ \E u \in Vifs : u < v /\ ~SkipAlone(u) /\ CacPlanned(u)

Changed == {v \in Vifs : ~Skip(v) /\ Differs(v)}

(***************************************************************************)
(* osw_confsync_mbss_start                                                 *)
(***************************************************************************)
MbssAfter == mbss \/ \E v \in Changed : want[v].mbss # have[v].mbss
-----------------------------------------------------------------------------
(* osw_confsync_work                                                       *)

\* Mutant: a request that was put off is not waited for.
DeferPendingNever(d) == FALSE

(***************************************************************************)
(* osw_confsync_defer_is_pending                                           *)
(***************************************************************************)
DeferPending(d) == \E v \in Vifs : d[v].timer # "none"

(***************************************************************************)
(* osw_mux_request_config: the driver gets the commands of the vifs that   *)
(* changed.                                                                *)
(***************************************************************************)
Request ==
    /\ cmd' = [v \in Vifs |-> IF v \in Changed THEN want[v] ELSE cmd[v]]
    /\ rising' = rising \union {v \in Changed : Enabling(v) /\ defer[v].timer = "none"}

Requesting ==
    /\ state = "REQUESTING"
    /\ IF last = want
       THEN SetState("VERIFYING", defer, mbss, last) /\ UNCHANGED <<cmd, rising>>
       ELSE /\ Request
            /\ SetState(IF Changed # {} \/ DeferPending(Started(defer)) THEN "WAITING" ELSE "IDLE",
                        Started(defer), MbssAfter, want)
    /\ UNCHANGED <<want, have, dfs, cac, changes, faults>>

(***************************************************************************)
(* osw_confsync_conf_is_synced builds too, when nothing is deferred, and   *)
(* starts grace periods and the MBSS timer by it.                          *)
(***************************************************************************)
Verifying ==
    /\ state = "VERIFYING"
    /\ IF DeferPending(defer)
       THEN SetState("WAITING", defer, mbss, last)
       ELSE SetState(IF Changed = {} THEN "IDLE" ELSE "WAITING", Started(defer), MbssAfter, last)
    /\ UNCHANGED <<want, have, cmd, dfs, cac, rising, changes, faults>>

Work == Requesting \/ Verifying
-----------------------------------------------------------------------------
(* Timers and observers.                                                   *)

(***************************************************************************)
(* osw_confsync_retry_cb                                                   *)
(***************************************************************************)
Retry ==
    /\ retry /\ ~mbss
    /\ \A v \in Vifs : defer[v].timer # "armed"
    /\ SetState("REQUESTING", defer, mbss, last)
    /\ UNCHANGED <<want, have, cmd, dfs, cac, rising, changes, faults>>

(***************************************************************************)
(* osw_confsync_defer_expiry_cb                                            *)
(***************************************************************************)
DeferExpires(v) ==
    LET d == [defer EXCEPT ![v].timer = "expired"]
    IN  /\ defer[v].timer = "armed"
        /\ SetState(IF defer[v].deferred THEN "REQUESTING" ELSE state, d, mbss, last)
        /\ rising' = rising \ {v}
        /\ UNCHANGED <<want, have, cmd, dfs, cac, changes, faults>>

(***************************************************************************)
(* osw_confsync_mbss_timeout_cb                                            *)
(***************************************************************************)
MbssExpires ==
    /\ mbss
    /\ SetState(Reported, defer, FALSE, last)
    /\ UNCHANGED <<want, have, cmd, dfs, cac, rising, changes, faults>>

\* Mutant: the timer does not free the tree.
ForgottenNot == last

(***************************************************************************)
(* osw_confsync_phy_tree_timeout_cb: a configuration that was asked for is *)
(* asked for again.                                                        *)
(***************************************************************************)
Forgotten == NoTree

TreeExpires ==
    /\ last # NoTree
    /\ last' = Forgotten
    /\ UNCHANGED <<state, want, have, cmd, defer, retry, mbss, dfs, cac, rising, mbssUsed, changes,
                   faults>>

(***************************************************************************)
(* osw_confsync_cac_timeout_cb                                             *)
(***************************************************************************)
CacExpires ==
    /\ cac = "armed"
    /\ cac' = "expired"
    /\ SetState(Reported, defer, mbss, last)
    /\ UNCHANGED <<want, have, cmd, dfs, rising, changes, faults>>

(***************************************************************************)
(* osw_confsync_conf_mutated_cb                                            *)
(***************************************************************************)
ConfMutated(c) ==
    /\ changes < MaxChanges /\ c # want
    /\ changes' = changes + 1
    /\ want' = c
    /\ SetState("REQUESTING", defer, mbss, last)
    /\ UNCHANGED <<have, cmd, dfs, cac, rising, faults>>

(***************************************************************************)
(* osw_confsync_state_vif_changed_cb, for a report that v is now `now'.    *)
(***************************************************************************)
VifChanged(v, now) ==
    /\ have' = [have EXCEPT ![v] = now]
    /\ SetState(Reported, IF now.on THEN [defer EXCEPT ![v] = NoDefer] ELSE defer, mbss, last)
    /\ rising' = IF now.on THEN rising \ {v} ELSE rising

(***************************************************************************)
(* osw_confsync_state_phy_changed_cb, for a report of the channel's state: *)
(* osw_confsync_cac_update first.                                          *)
(***************************************************************************)
PhyChanged(now) ==
    /\ dfs' = now
    /\ cac' = IF now = "running" THEN "armed" ELSE "off"
    /\ SetState(Reported, defer, mbss, last)
-----------------------------------------------------------------------------
(* The driver.                                                             *)

(***************************************************************************)
(* It brings a vif up on a channel that needs a check only after it.       *)
(***************************************************************************)
RisesTo(v) == cmd[v].on /\ ~have[v].on

StartCac(v) ==
    /\ cmd[v] # NoCmd /\ RisesTo(v) /\ dfs = "needed"
    /\ PhyChanged("running")
    /\ UNCHANGED <<want, have, cmd, rising, changes, faults>>

EndCac ==
    /\ dfs = "running"
    /\ PhyChanged("done")
    /\ UNCHANGED <<want, have, cmd, rising, changes, faults>>

(***************************************************************************)
(* A command is carried out and the new state reported, if it is new.      *)
(***************************************************************************)
Apply(v) ==
    /\ cmd[v] # NoCmd
    /\ RisesTo(v) => dfs \notin {"needed", "running"}
    /\ cmd' = [cmd EXCEPT ![v] = NoCmd]
    /\ IF cmd[v] = have[v]
       THEN UNCHANGED <<state, have, last, defer, retry, mbss, rising, mbssUsed>>
       ELSE VifChanged(v, cmd[v])
    /\ UNCHANGED <<want, dfs, cac, changes, faults>>

Lose(v) ==
    /\ cmd[v] # NoCmd
    /\ "lose" \in Faults /\ faults < MaxFaults
    /\ faults' = faults + 1
    /\ cmd' = [cmd EXCEPT ![v] = NoCmd]
    /\ UNCHANGED <<state, want, have, last, defer, retry, mbss, dfs, cac, rising, mbssUsed, changes>>

Drop(v) ==
    /\ have[v].on
    /\ "drop" \in Faults /\ faults < MaxFaults
    /\ faults' = faults + 1
    /\ VifChanged(v, [have[v] EXCEPT !.on = FALSE])
    /\ UNCHANGED <<want, cmd, dfs, cac, changes>>

Next ==
    \/ Work
    \/ Retry \/ MbssExpires \/ TreeExpires \/ CacExpires
    \/ \E c \in Confs : ConfMutated(c)
    \/ EndCac
    \/ \E v \in Vifs :
          DeferExpires(v) \/ StartCac(v) \/ Apply(v) \/ Lose(v) \/ Drop(v)

Spec == Init /\ [][Next]_vars

(***************************************************************************)
(* libev runs the work when idle and at the latest at its deadline, timers *)
(* expire, and a driver carries out what it has not lost.                  *)
(***************************************************************************)
FairSpec ==
    /\ Spec
    /\ WF_vars(Work) /\ WF_vars(Retry) /\ WF_vars(MbssExpires) /\ WF_vars(TreeExpires)
    /\ WF_vars(EndCac)
    /\ \A v \in Vifs : WF_vars(DeferExpires(v)) /\ WF_vars(StartCac(v)) /\ WF_vars(Apply(v))
-----------------------------------------------------------------------------
(***************************************************************************)
(* Types, and what IDLE has stopped (osw_confsync.c:2401-2413).            *)
(***************************************************************************)
TypeOK ==
    /\ state \in States /\ want \in Confs
    /\ have \in [Vifs -> [on : BOOLEAN, set : Nat, mbss : Nat]]
    /\ \A v \in Vifs : cmd[v] = NoCmd \/ \E c \in Confs : cmd[v] = c[v]
    /\ last \in Confs \union {NoTree}
    /\ defer \in [Vifs -> [timer : {"none", "armed", "expired"}, deferred : BOOLEAN]]
    /\ retry \in BOOLEAN /\ mbss \in BOOLEAN
    /\ dfs \in DfsStates /\ cac \in {"off", "armed", "expired"}
    /\ rising \subseteq Vifs /\ mbssUsed \in BOOLEAN
    /\ changes \in 0..MaxChanges /\ faults \in 0..MaxFaults
    /\ state = "IDLE" => ~retry /\ ~mbss /\ last = NoTree /\ ~DeferPending(defer)
    /\ retry => state \in {"WAITING", "VERIFYING"}

InSync == \A v \in Vifs : want[v].on \/ have[v].on => want[v] = have[v]

(***************************************************************************)
(* "settled" (osw_confsync.c:2404) is true: confsync comes to rest only    *)
(* when the radio is as configured, or while a channel check runs whose    *)
(* end or timeout will wake it.  It does not hold while the driver changes *)
(* an MBSS mode, when every interface is skipped.                          *)
(***************************************************************************)
IdleTruth == state = "IDLE" => InSync \/ CacOngoing

(***************************************************************************)
(* The same of behaviours in which no MBSS mode changed.                   *)
(***************************************************************************)
SettledTruth == mbssUsed \/ IdleTruth

(***************************************************************************)
(* The grace period (osw_confsync.c:49-62): from the command that started  *)
(* it until it ends or the interface is up, whatever is configured and     *)
(* reported meanwhile, the command is not replaced.                        *)
(***************************************************************************)
NoInterrupt == [][\A v \in rising : cmd'[v] \in {cmd[v], NoCmd}]_vars

(***************************************************************************)
(* When configurations and faults cease, and no MBSS mode changed, the     *)
(* radio becomes and stays as configured and confsync comes to rest: lost  *)
(* commands are repeated although a configuration is asked for only once,  *)
(* put-off ones are made up for, and it never goes round for ever          *)
(* (osw_confsync.c:2461-2564).                                             *)
(***************************************************************************)
Settles == <>[](mbssUsed \/ (state = "IDLE" /\ InSync))
=============================================================================
