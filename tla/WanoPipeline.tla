---------------------------- MODULE WanoPipeline ----------------------------
(***************************************************************************)
(* The WAN provisioning pipeline of one interface, src/wano/src/           *)
(* wano_ppline.c.  The pipeline enables the interface, waits for carrier   *)
(* and runs WAN plug-ins (DHCP, PPPoE, VLAN, ...) in priority order, with  *)
(* plug-ins whose masks do not overlap running at the same time.           *)
(*                                                                         *)
(* WANO is a single libev loop.  An event callback drives the state        *)
(* machine through a chain of STATE_INIT calls before it returns, so one   *)
(* call of a state handler is one action, "entering" says that a STATE_INIT *)
(* call is due, and events are delivered only when none is.                *)
(***************************************************************************)
EXTENDS Integers, FiniteSets

CONSTANTS
    N,           \* number of plug-ins; 1..N in the order of wpl_plugin_waitq
    Mask,        \* wanp_mask of each plug-in, as a set of bits
    Says,        \* the status types each plug-in may report
    Broken,      \* plug-ins whose init returns NULL every time
    MayFail,     \* plug-ins whose init may return NULL
    ProbeFails,  \* whether the DNS probe after WANP_OK may fail
    Disposable   \* whether the pipeline belongs to a plug-in (vlan)

Plugins == 1 .. N

Statuses == {"OK", "OK_OWN", "RESERVED", "SKIP", "BUSY", "ERROR", "DETACH",
             "RESTART", "ABORT"}

NoStatus == "none"

ASSUME PluginsAssumption ==
    /\ N \in Nat
    /\ DOMAIN Mask = Plugins
    /\ \A w \in Plugins : Mask[w] # {}
    /\ Says \in [Plugins -> SUBSET Statuses]
    /\ Broken \subseteq MayFail /\ MayFail \subseteq Plugins
    /\ ProbeFails \in BOOLEAN /\ Disposable \in BOOLEAN

VARIABLES
    state,      \* wpl_state
    entering,   \* the STATE_INIT call of state is still to be made
    plugin,     \* wpp_state of each plug-in
    timeout,    \* plug-ins whose wpp_timeout timer is running
    status,     \* the status an ev_async is pending for, or NoStatus
    own,        \* plug-ins whose wpp_status.ws_ifname names their own interface
    child,      \* plug-ins whose own interface has an uplink row
    uplink,     \* has_L2 and has_L3 of the interface's uplink row
    retry,      \* wpl_retry_timer is running
    immediate,  \* the clock has not reached wpl_immediate_timeout
    carrier,    \* wpl_carrier_exception
    paused,     \* wano_wan_pause of the pipeline's WAN
    hasL3,      \* wpl_has_l3
    bridged,    \* <<wpl_bridge, wpl_uplink_bridge>>
    inet,       \* Wifi_Inet_State as WANO sees it
    inetEvent   \* an inet state event is due

pluginVars == <<plugin, timeout, status, own, child>>
wanVars == <<uplink, carrier, paused, hasL3>>
timerVars == <<retry, immediate>>
envVars == <<bridged, inet, inetEvent>>
vars == <<state, entering, pluginVars, wanVars, timerVars, envVars>>

States == {"INIT", "START", "IF_ENABLE", "IF_CARRIER", "PLUGIN_SCHED",
           "IF_IPV4_RESET", "IF_IPV6_RESET", "PLUGIN_RUN", "IDLE", "ABORT",
           "FREEZE", "GONE"}

PluginStates == {"IDLE", "PENDING", "SCHEDULED", "RUNNING", "ACTIVE", "DETACHED"}

Tri == {"unset", "true", "false"}

Inet == [ready : BOOLEAN, clear : BOOLEAN, port : BOOLEAN]

In(s) == {w \in Plugins : plugin[w] = s}

Frozen == bridged[1] \/ bridged[2]

-----------------------------------------------------------------------------
(* The state machine library: transitions, exceptions and plug-in updates. *)

Goto(s) == state' = s /\ entering' = TRUE

Stay == state' = state /\ entering' = FALSE

Exception(s) ==
    /\ Goto(s)
    /\ immediate' = TRUE
    /\ retry' = FALSE

PluginUpdate ==
    IF state \in {"IF_IPV4_RESET", "PLUGIN_RUN"}
    THEN Goto("PLUGIN_SCHED")
    ELSE UNCHANGED <<state, entering>>

ReleaseKeepsStatus(W) ==
    /\ timeout' = timeout \ W
    /\ status' = status
    /\ child' = child \ (W \cap own)
    /\ own' = own \ W

(* The IDLE state of a plug-in: its instance is destroyed together with its *)
(* timers and a status that is still pending.                               *)
Release(W) ==
    /\ timeout' = timeout \ W
    /\ status' = [w \in Plugins |-> IF w \in W THEN NoStatus ELSE status[w]]
    /\ child' = child \ (W \cap own)
    /\ own' = own \ W

ToIdle(w) ==
    /\ plugin' = [plugin EXCEPT ![w] = "IDLE"]
    /\ Release({w})

PluginReset(force) ==
    LET kept == IF force THEN {} ELSE In("ACTIVE") \cup In("DETACHED")
    IN  /\ plugin' = [w \in Plugins |->
                         IF w \in kept THEN plugin[w] ELSE "PENDING"]
        /\ Release(Plugins \ kept)

RunMaskActiveOnly(T, w) == UNION {Mask[v] : v \in In("ACTIVE")}

(* The greedy walk of wano_ppline_schedule: T are the plug-ins that find    *)
(* their mask free when their turn comes and then occupy it.                *)
RunMask(T, w) ==
    UNION {Mask[v] : v \in In("ACTIVE") \cup {u \in T : u < w}}

Occupies(w) == plugin[w] \notin {"IDLE", "DETACHED"}

Walk(T) ==
    T = {w \in Plugins : Occupies(w) /\ Mask[w] \cap RunMask(T, w) = {}}

Schedule(T, failing) ==
    plugin' = [w \in Plugins |->
                  IF w \in T /\ plugin[w] = "PENDING"
                  THEN IF w \in failing THEN "IDLE" ELSE "SCHEDULED"
                  ELSE plugin[w]]

-----------------------------------------------------------------------------
(* STATE_INIT handlers. *)

Entry(s) == entering /\ state = s

InitStateKeepsUplink ==
    /\ Entry("INIT")
    /\ PluginReset(TRUE)
    /\ immediate' = TRUE
    /\ paused' = TRUE
    /\ hasL3' = FALSE
    /\ Goto("START")
    /\ UNCHANGED <<uplink, carrier, retry, envVars>>

InitState ==
    /\ Entry("INIT")
    /\ PluginReset(TRUE)
    /\ uplink' = [L2 |-> "false", L3 |-> "unset"]
    /\ immediate' = TRUE
    /\ paused' = TRUE
    /\ hasL3' = FALSE
    /\ Goto("START")
    /\ UNCHANGED <<carrier, retry, envVars>>

StartState ==
    /\ Entry("START")
    /\ Goto("IF_ENABLE")
    /\ UNCHANGED <<pluginVars, wanVars, timerVars, envVars>>

EnableState ==
    /\ Entry("IF_ENABLE")
    /\ Stay
    /\ inetEvent' = TRUE
    /\ UNCHANGED <<pluginVars, wanVars, timerVars, bridged, inet>>

CarrierStateNoRefresh ==
    /\ Entry("IF_CARRIER")
    /\ Stay
    /\ UNCHANGED <<pluginVars, wanVars, timerVars, envVars>>

CarrierState ==
    /\ Entry("IF_CARRIER")
    /\ Stay
    /\ inetEvent' = TRUE
    /\ UNCHANGED <<pluginVars, wanVars, timerVars, bridged, inet>>

SchedState ==
    /\ Entry("PLUGIN_SCHED")
    /\ \E T \in SUBSET Plugins, failing \in SUBSET MayFail :
           /\ Walk(T)
           /\ Broken \subseteq failing
           /\ Schedule(T, failing)
    /\ Goto("IF_IPV4_RESET")
    /\ UNCHANGED <<timeout, status, own, child, wanVars, timerVars, envVars>>

Ipv4ResetState ==
    /\ Entry("IF_IPV4_RESET")
    /\ IF \E w \in In("SCHEDULED") : "ipv4" \in Mask[w]
       THEN Stay /\ inetEvent' = TRUE
       ELSE Goto("IF_IPV6_RESET") /\ UNCHANGED inetEvent
    /\ UNCHANGED <<pluginVars, wanVars, timerVars, bridged, inet>>

Ipv6ResetState ==
    /\ Entry("IF_IPV6_RESET")
    /\ Goto("PLUGIN_RUN")
    /\ UNCHANGED <<pluginVars, wanVars, timerVars, envVars>>

RunState ==
    /\ Entry("PLUGIN_RUN")
    /\ plugin' = [w \in Plugins |-> IF plugin[w] = "SCHEDULED"
                                    THEN "RUNNING" ELSE plugin[w]]
    /\ timeout' = timeout \cup In("SCHEDULED")
    /\ IF In("SCHEDULED") \cup In("RUNNING") # {} THEN Stay ELSE Goto("IDLE")
    /\ UNCHANGED <<status, own, child, wanVars, timerVars, envVars>>

IdleStateAlwaysImmediate ==
    /\ Entry("IDLE")
    /\ PluginReset(FALSE)
    /\ Goto(IF In("ACTIVE") # {} THEN "PLUGIN_SCHED" ELSE "START")
    /\ UNCHANGED <<wanVars, timerVars, envVars>>

(* rollover: there is no WAN configuration left to try, so has_L3 is reset. *)
IdleState ==
    /\ Entry("IDLE")
    /\ PluginReset(FALSE)
    /\ \E rollover \in BOOLEAN :
           uplink' = IF In("ACTIVE") = {} /\ rollover
                     THEN [uplink EXCEPT !.L3 = "false"] ELSE uplink
    /\ IF immediate
       THEN /\ Goto(IF In("ACTIVE") # {} THEN "PLUGIN_SCHED" ELSE "START")
            /\ UNCHANGED retry
       ELSE Stay /\ retry' = TRUE
    /\ UNCHANGED <<carrier, paused, hasL3, immediate, envVars>>

AbortStateWholeRow ==
    /\ Entry("ABORT")
    /\ PluginReset(TRUE)
    /\ uplink' = [L3 |-> "false"]
    /\ Stay
    /\ retry' = TRUE
    /\ UNCHANGED <<carrier, paused, hasL3, immediate, envVars>>

AbortState ==
    /\ Entry("ABORT")
    /\ PluginReset(TRUE)
    /\ uplink' = [uplink EXCEPT !.L3 = "false"]
    /\ Stay
    /\ retry' = TRUE
    /\ UNCHANGED <<carrier, paused, hasL3, immediate, envVars>>

FreezeState ==
    /\ Entry("FREEZE")
    /\ PluginReset(TRUE)
    /\ paused' = TRUE
    /\ Stay
    /\ UNCHANGED <<uplink, carrier, hasL3, timerVars, envVars>>

-----------------------------------------------------------------------------
(* Events of the loop. *)

Ready == ~entering /\ state # "GONE"

CarrierLoss ==
    /\ carrier /\ ~inet.port
    /\ carrier' = FALSE
    /\ Exception("INIT")
    /\ UNCHANGED <<uplink, paused>>

CarrierFound ==
    /\ state = "IF_CARRIER" /\ inet.port
    /\ paused' = FALSE
    /\ carrier' = TRUE
    /\ uplink' = [uplink EXCEPT !.L2 = "true"]
    /\ Goto("PLUGIN_SCHED")
    /\ UNCHANGED timerVars

InetSettled ==
    /\ carrier => inet.port
    /\ \/ state = "IF_ENABLE" /\ inet.ready /\ Goto("IF_CARRIER")
       \/ state = "IF_IPV4_RESET" /\ inet.clear /\ Goto("IF_IPV6_RESET")
    /\ UNCHANGED <<carrier, uplink, paused, timerVars>>

InetIgnored ==
    /\ carrier => inet.port
    /\ state = "IF_ENABLE" => ~inet.ready
    /\ state = "IF_IPV4_RESET" => ~inet.clear
    /\ state = "IF_CARRIER" => ~inet.port
    /\ UNCHANGED <<state, entering, carrier, uplink, paused, timerVars>>

InetStateEvent ==
    /\ Ready /\ inetEvent
    /\ inetEvent' = FALSE
    /\ CarrierLoss \/ CarrierFound \/ InetSettled \/ InetIgnored
    /\ UNCHANGED <<pluginVars, hasL3, bridged, inet>>

(* A plug-in that runs reports a status; the pipeline looks at it later,    *)
(* and at the last one only.                                                *)
MayReport(w) ==
    CASE plugin[w] = "RUNNING"  -> Says[w]
      [] plugin[w] = "DETACHED" -> Says[w] \cap {"SKIP", "ABORT"}
      [] plugin[w] = "ACTIVE"   ->
             Says[w] \cap (IF status[w] = "RESTART" THEN {"OK"} ELSE {"RESTART"})
      [] OTHER -> {}

Report(w, s) ==
    /\ Ready
    /\ s \in MayReport(w)
    /\ status' = [status EXCEPT ![w] = s]
    /\ own' = IF s = "OK_OWN" THEN own \cup {w} ELSE own \ {w}
    /\ UNCHANGED <<state, entering, plugin, timeout, child, wanVars, timerVars,
                   envVars>>

(* The ev_async of the status: NoStatus while the handler looks at it. *)
Taken(w) == [status EXCEPT ![w] = NoStatus]

StatusOk(w) ==
    /\ Ready /\ status[w] \in {"OK", "OK_OWN"}
    /\ plugin' = [plugin EXCEPT ![w] = IF @ = "RUNNING" THEN "ACTIVE" ELSE @]
    /\ timeout' = timeout \ {w}
    /\ status' = Taken(w)
    /\ IF w \in own
       THEN /\ child' = child \cup {w}
            /\ uplink' = [uplink EXCEPT !.L3 = "unset"]
       ELSE /\ uplink' = [L2 |-> "true", L3 |-> "true"]
            /\ UNCHANGED child
    /\ hasL3' = TRUE
    /\ UNCHANGED <<state, entering, own, carrier, paused, timerVars, envVars>>

StatusOkProbeFails(w) ==
    /\ ProbeFails
    /\ Ready /\ status[w] \in {"OK", "OK_OWN"}
    /\ ToIdle(w)
    /\ PluginUpdate
    /\ UNCHANGED <<wanVars, timerVars, envVars>>

StatusReserved(w) ==
    /\ Ready /\ status[w] = "RESERVED"
    /\ status' = Taken(w)
    /\ uplink' = [L2 |-> "true", L3 |-> "unset"]
    /\ hasL3' = TRUE
    /\ UNCHANGED <<state, entering, plugin, timeout, own, child, carrier,
                   paused, timerVars, envVars>>

StatusBusy(w) ==
    /\ Ready /\ status[w] = "BUSY"
    /\ status' = Taken(w)
    /\ uplink' = [uplink EXCEPT !.L3 = "unset"]
    /\ timeout' = timeout \ {w}
    /\ UNCHANGED <<state, entering, plugin, own, child, carrier, paused, hasL3,
                   timerVars, envVars>>

(* WANP_SKIP and WANP_ERROR; the state machine ignores an ERROR of a        *)
(* detached plug-in and both of an active one.                              *)
StatusSkip(w) ==
    /\ Ready /\ status[w] \in {"SKIP", "ERROR"}
    /\ IF plugin[w] = "RUNNING" \/ (plugin[w] = "DETACHED" /\ status[w] = "SKIP")
       THEN ToIdle(w)
       ELSE status' = Taken(w) /\ UNCHANGED <<plugin, timeout, own, child>>
    /\ PluginUpdate
    /\ UNCHANGED <<wanVars, timerVars, envVars>>

StatusDetach(w) ==
    /\ Ready /\ status[w] = "DETACH"
    /\ status' = Taken(w)
    /\ timeout' = timeout \ {w}
    /\ plugin' = [plugin EXCEPT ![w] = IF @ = "RUNNING" THEN "DETACHED" ELSE @]
    /\ PluginUpdate
    /\ UNCHANGED <<own, child, wanVars, timerVars, envVars>>

StatusException(w) ==
    /\ Ready /\ status[w] \in {"RESTART", "ABORT"}
    /\ status' = Taken(w)
    /\ Exception(IF status[w] = "RESTART" THEN "INIT" ELSE "ABORT")
    /\ UNCHANGED <<plugin, timeout, own, child, wanVars, envVars>>

PluginTimeoutNoUpdate(w) ==
    /\ Ready /\ w \in timeout /\ plugin[w] = "RUNNING"
    /\ ToIdle(w)
    /\ UNCHANGED <<state, entering, wanVars, timerVars, envVars>>

PluginTimeout(w) ==
    /\ Ready /\ w \in timeout
    /\ IF plugin[w] = "RUNNING"
       THEN ToIdle(w)
       ELSE /\ timeout' = timeout \ {w}
            /\ UNCHANGED <<plugin, status, own, child>>
    /\ PluginUpdate
    /\ UNCHANGED <<wanVars, timerVars, envVars>>

RetryTimeout ==
    /\ Ready /\ retry
    /\ retry' = FALSE
    /\ CASE state = "IDLE"  -> Goto(IF In("ACTIVE") # {} THEN "PLUGIN_SCHED"
                                                        ELSE "START")
         [] state = "ABORT" -> Goto("START")
         [] OTHER -> UNCHANGED <<state, entering>>
    /\ UNCHANGED <<pluginVars, wanVars, immediate, envVars>>

(* An update of the Port table or of the bridge column of the uplink row. *)
CheckFreeze ==
    LET freeze == bridged'[1] \/ bridged'[2]
    IN  \/ /\ freeze /\ state # "FREEZE"
           /\ Exception("FREEZE")
           /\ UNCHANGED paused
        \/ /\ ~freeze /\ state = "FREEZE"
           /\ Goto("INIT")
           /\ paused' = FALSE
           /\ UNCHANGED timerVars
        \/ /\ freeze = (state = "FREEZE")
           /\ UNCHANGED <<state, entering, paused, timerVars>>

BridgeEvent(b) ==
    /\ Ready
    /\ b \in BOOLEAN \X BOOLEAN
    /\ b # bridged /\ (b[1] = bridged[1] \/ b[2] = bridged[2])
    /\ bridged' = b
    /\ CheckFreeze
    /\ UNCHANGED <<pluginVars, uplink, carrier, hasL3, inet, inetEvent>>

(* wano_ppline_restart_all, requested through OVSDB for every pipeline. *)
RestartAll ==
    /\ Ready
    /\ Exception("INIT")
    /\ UNCHANGED <<pluginVars, wanVars, envVars>>

(* The network manager and the link change the state of the interface. *)
InetUpdate(i) ==
    /\ Ready
    /\ i # inet
    /\ inet' = i
    /\ inetEvent' = TRUE
    /\ UNCHANGED <<state, entering, pluginVars, wanVars, timerVars, bridged>>

(* wano_ppline_fini: a plug-in that owns the pipeline disposes of it. *)
Fini ==
    /\ Disposable
    /\ Ready
    /\ state' = "GONE" /\ entering' = FALSE
    /\ plugin' = [w \in Plugins |-> "IDLE"]
    /\ Release(Plugins)
    /\ uplink' = [L2 |-> "unset", L3 |-> "unset"]
    /\ inetEvent' = FALSE
    /\ UNCHANGED <<carrier, paused, hasL3, timerVars, bridged, inet>>

ImmediateExpires ==
    /\ immediate
    /\ immediate' = FALSE
    /\ UNCHANGED <<state, entering, pluginVars, wanVars, retry, envVars>>

-----------------------------------------------------------------------------
(* The pipeline right after the first event ran INIT, START and IF_ENABLE. *)
Init ==
    /\ state = "IF_ENABLE" /\ entering = FALSE
    /\ plugin = [w \in Plugins |-> "PENDING"]
    /\ timeout = {} /\ own = {} /\ child = {}
    /\ status = [w \in Plugins |-> NoStatus]
    /\ uplink = [L2 |-> "false", L3 |-> "unset"]
    /\ retry = FALSE /\ immediate = TRUE
    /\ carrier = FALSE /\ paused = TRUE /\ hasL3 = FALSE
    /\ bridged = <<FALSE, FALSE>>
    /\ inet \in Inet /\ inetEvent = TRUE

Entries ==
    \/ InitState \/ StartState \/ EnableState \/ CarrierState \/ SchedState
    \/ Ipv4ResetState \/ Ipv6ResetState \/ RunState \/ IdleState
    \/ AbortState \/ FreezeState

StatusEvent(w) ==
    \/ StatusOk(w) \/ StatusOkProbeFails(w) \/ StatusReserved(w)
    \/ StatusBusy(w) \/ StatusSkip(w) \/ StatusDetach(w) \/ StatusException(w)

Next ==
    \/ Entries
    \/ InetStateEvent
    \/ \E w \in Plugins : StatusEvent(w) \/ PluginTimeout(w)
    \/ \E w \in Plugins, s \in Statuses : Report(w, s)
    \/ RetryTimeout
    \/ \E b \in BOOLEAN \X BOOLEAN : BridgeEvent(b)
    \/ RestartAll
    \/ \E i \in Inet : InetUpdate(i)
    \/ Fini
    \/ ImmediateExpires

Spec == Init /\ [][Next]_vars

-----------------------------------------------------------------------------
TypeOK ==
    /\ state \in States /\ entering \in BOOLEAN
    /\ plugin \in [Plugins -> PluginStates]
    /\ timeout \subseteq Plugins /\ own \subseteq Plugins /\ child \subseteq Plugins
    /\ status \in [Plugins -> Statuses \cup {NoStatus}]
    /\ uplink \in [L2 : Tri, L3 : Tri]
    /\ retry \in BOOLEAN /\ immediate \in BOOLEAN
    /\ carrier \in BOOLEAN /\ paused \in BOOLEAN /\ hasL3 \in BOOLEAN
    /\ bridged \in BOOLEAN \X BOOLEAN
    /\ inet \in Inet /\ inetEvent \in BOOLEAN

(* The plug-ins that use the interface. *)
Busy == In("SCHEDULED") \cup In("RUNNING") \cup In("ACTIVE")

Overlap(v, w) == Mask[v] \cap Mask[w] # {}

(* What the order of the plug-ins has to satisfy for wano_ppline_schedule to *)
(* be right: the run mask is rebuilt in list order from the ACTIVE plug-ins, *)
(* so a plug-in p that waited for q must not overlap a later r that did not. *)
MaskOrder ==
    \A q, p, r \in Plugins :
        /\ p < r
        /\ q < p \/ "RESTART" \in Says[q]
        /\ Overlap(q, p) /\ Overlap(p, r)
        => Overlap(q, r)

(* wano_ppline_schedule: "finds all plug-ins in the PENDING state that do    *)
(* not conflict with any currrently running plug-in (by checking the run-    *)
(* mask)".  Two plug-ins that use the interface never share a mask bit.      *)
Exclusive == \A v, w \in Busy : v # w => ~Overlap(v, w)

(* A plug-in that is not running has no instance that a timer could kill and *)
(* no instance whose status could be looked at: a cancelled plug-in takes    *)
(* its timeout and its pending status with it.                               *)
NoStaleCallback ==
    /\ timeout \subseteq In("RUNNING")
    /\ \A w \in Plugins : status[w] # NoStatus =>
           plugin[w] \in {"RUNNING", "ACTIVE", "DETACHED"}

(* Wherever the pipeline rests something will wake it up: a retry timer in   *)
(* IDLE and ABORT, a plug-in in PLUGIN_RUN, and an inet event where the      *)
(* condition it waits for already holds (wano_inet_state_event_refresh).     *)
NeverStuck ==
    ~entering =>
        /\ state \in {"IDLE", "ABORT"} => retry
        /\ state = "PLUGIN_RUN" => In("RUNNING") \cup In("ACTIVE") # {}
        /\ \/ state = "IF_ENABLE" /\ inet.ready
           \/ state = "IF_CARRIER" /\ inet.port
           \/ state = "IF_IPV4_RESET" /\ inet.clear
           => inetEvent

(* What the plug-ins have to satisfy for the uplink table to be right: one   *)
(* that may restart the pipeline (cmts) has no interface of its own, and the *)
(* DNS probe, which would stop it while it is ACTIVE, is not in use.         *)
RestartsPlain ==
    \A w \in Plugins :
        "RESTART" \in Says[w] => ~ProbeFails /\ "OK_OWN" \notin Says[w]

(* Connection_Manager_Uplink tells the truth: has_L3 of the interface is set *)
(* only while a plug-in is ACTIVE (or the pipeline is frozen and has given   *)
(* the interface away), has_L2 is set and carrier loss is watched while one  *)
(* uses the interface, and the row of a plug-in's own interface goes with    *)
(* the plug-in.                                                              *)
UplinkTruth ==
    /\ ~entering /\ uplink.L3 = "true" => In("ACTIVE") # {} \/ state = "FREEZE"
    /\ ~entering /\ Busy # {} => uplink.L2 = "true" /\ carrier /\ ~paused
    /\ child \subseteq In("ACTIVE")

-----------------------------------------------------------------------------
(* The loop delivers every event that is due.  The network manager keeps    *)
(* applying the configuration it is asked for and the pipeline sees it, and *)
(* a plug-in that only ever says OK says so before it times out, if it is   *)
(* tried often enough.                                                      *)
Settled == [ready |-> TRUE, clear |-> TRUE, port |-> TRUE]

SettledEvent == InetStateEvent /\ inet = Settled

Reliable == {w \in Plugins : Says[w] = {"OK"}}

Fairness ==
    /\ WF_vars(Entries)
    /\ WF_vars(InetStateEvent)
    /\ WF_vars(RetryTimeout)
    /\ WF_vars(ImmediateExpires)
    /\ SF_vars(InetUpdate(Settled))
    /\ SF_vars(SettledEvent)
    /\ \A w \in Plugins : WF_vars(StatusEvent(w)) /\ WF_vars(PluginTimeout(w))
    /\ \A w \in Reliable : SF_vars(Report(w, "OK")) /\ SF_vars(StatusOk(w))

FairSpec == Spec /\ Fairness

(* From some time on the link is up and nothing restarts, aborts or freezes *)
(* the pipeline.                                                            *)
Calm == <>[](inet.port /\ state \notin {"INIT", "ABORT", "FREEZE"})

(* A pipeline with a plug-in that works ends up with an uplink: no plug-in  *)
(* in front of it keeps it from being scheduled for ever.                   *)
Provisioned == Calm => <>[](uplink.L3 = "true")

(* A callback always returns to the event loop, also when the pipeline is   *)
(* exhausted and restarts itself immediately.                               *)
ChainEnds == entering ~> ~entering
=============================================================================
