-------------------------------- MODULE Cm2 --------------------------------
(***************************************************************************)
(* CM, the Connection Manager: how a device finds its cloud controller.    *)
(*                                                                         *)
(* CM is a single-threaded state machine.  cm2_update_state() is called    *)
(* from a one second timer and from the OVSDB callbacks; each call makes   *)
(* passes over the same code until a pass leaves the state unchanged       *)
(* ("goto start").  A pass first looks at the reason of the call and at    *)
(* freshly configured addresses (Begin), then runs the code of the state   *)
(* it is in (one action per state).  Nothing else runs between the passes  *)
(* of one call: every other action needs pass = "idle".                    *)
(*                                                                         *)
(* CM never connects to the cloud itself.  It writes the address to        *)
(* connect to into the target column of OVSDB's Manager row; ovsdb-server  *)
(* opens the session and reports it in is_connected.  CM learns about both *)
(* columns from update notifications, so what it knows is always somewhat  *)
(* out of date; the notifications of one client arrive in order.           *)
(*                                                                         *)
(* Names are resolved by c-ares.  Its answers arrive at any later time,    *)
(* whatever CM has decided meanwhile.                                      *)
(***************************************************************************)
EXTENDS Integers, Sequences, FiniteSets

CONSTANTS
    RedirHosts,      \* names the redirector address may have
    ManagerHosts,    \* names the redirector may answer with
    Stack,           \* address families an uplink can have, of {"v4", "v6"}
    MaxAddrs,        \* addresses in the longest DNS answer
    Reachable,       \* the targets ovsdb-server can open a session to
    RetryThreshold,  \* CM2_RESOLVE_RETRY_THRESHOLD
    MaxDisconnects,  \* CM2_MAX_DISCONNECTS
    Faults,          \* kinds of disturbances that happen
    MaxFaults,       \* how many of them
    LinkWifi,        \* is an uplink Wi-Fi: the cases that occur
    Answers,         \* lengths of the answers of a healthy DNS
    MaxInbox,        \* notifications ovsdb-server queues on its own account
    Prompt           \* TRUE: timeouts are longer than a healthy network needs

Families == {"v4", "v6"}

Dests == {"REDIR", "MANAGER"}

Hosts == RedirHosts \cup ManagerHosts

NoHost == ""

FaultKinds == {"redirector", "manager", "link", "priority", "renew", "ip",
               "check", "lost", "dns", "row"}

\* The value of Manager.target: the idx-th address of family fam of a host.
NoTarget == [host |-> NoHost, fam |-> "v4", idx |-> 0]

Targets == [host : Hosts, fam : Families, idx : 0 .. MaxAddrs - 1]
               \cup {NoTarget}

ASSUME ConstantsAssumption ==
    /\ NoHost \notin Hosts
    /\ RedirHosts \cap ManagerHosts = {}
    /\ Stack \subseteq Families
    /\ NoTarget \notin Reachable
    /\ MaxAddrs \in Nat \ {0}
    /\ RetryThreshold \in Nat
    /\ MaxDisconnects \in Nat \ {0}
    /\ Faults \subseteq FaultKinds
    /\ MaxFaults \in Nat
    /\ LinkWifi \subseteq BOOLEAN
    /\ Answers \subseteq 1 .. MaxAddrs
    /\ MaxInbox \in Nat \ {0}
    /\ Prompt \in BOOLEAN

LinkStates == {"INIT", "LINK_SEL", "WAN_IP", "NTP_CHECK"}

\* The states with a timeout; QUIESCE_OVS has a computed one, the backoff.
TimedStates == {"LINK_SEL", "WAN_IP", "NTP_CHECK", "TRY_RESOLVE",
                "RE_CONNECT", "TRY_CONNECT", "FAST_RECONNECT",
                "FAST_RECONNECT_WAIT", "QUIESCE_OVS"}

States == {"INIT", "OVS_INIT", "CONNECTED"} \cup TimedStates

Reasons == {"TIMER", "AWLAN", "MANAGER", "LINK_USED", "LINK_NOT_USED",
            "VTAG", "OVS_INIT", "CHANGE"}

ResolveStates == {"NOT_STARTED", "IN_PROGRESS", "FINISHED", "RESOLVED"}

VARIABLES
    state,        \* g_state.state
    changed,      \* g_state.state_changed
    due,          \* cm2_timeout(): the state's timeout has elapsed
    pass,         \* reason of the next pass; "run" inside one; "idle" outside
    old,          \* old_state of the running pass
    dest,         \* g_state.dest
    connected,    \* g_state.connected, Manager.is_connected as last notified
    target,       \* g_state.target, Manager.target as last notified
    have,         \* have_awlan, have_manager
    addr,         \* addr_redirector, addr_manager: host, updated, ipv6_pref
    lists,        \* their ipv4_addr_list and ipv6_addr_list
    link,         \* g_state.link
    echo,         \* an is_used = true notification is under way
    sel,          \* skip_reconnect, link_sel_due_to_priority, previous wifi
    once,         \* g_state.connected_at_least_once
    disconnects,  \* g_state.disconnects
    resolves,     \* g_state.cnts.ovs_resolve
    row,          \* OVSDB's Manager row
    session,      \* the target ovsdb-server holds a session with
    awlan,        \* OVSDB's AWLAN_Node row: redirector_addr, manager_addr
    inbox,        \* row updates ovsdb-server has sent and CM has not read
    faults        \* disturbances so far

core == <<state, changed, due, pass, old>>
view == <<connected, target, have>>
names == <<addr, lists>>
uplink == <<link, echo, sel>>
counts == <<once, disconnects, resolves>>
server == <<row, session, awlan, inbox>>
vars == <<core, dest, view, names, uplink, counts, server, faults>>

-----------------------------------------------------------------------------
(* The values the state starts from, at boot and after a restart.          *)

\* A list without addresses: h_addr_list is NULL.  ask is the host name of a
\* query in progress, host the name that the addresses belong to.
NoList == [st |-> "NOT_STARTED", ask |-> NoHost, host |-> NoHost,
           len |-> 0, idx |-> 0]

NoAddr == [host |-> NoHost, updated |-> FALSE, pref6 |-> FALSE]

\* cm2_connection_clear_used() and cm2_extender_init_state() zero the link.
NoLink == [used |-> FALSE, echoed |-> FALSE, wifi |-> FALSE,
           ip |-> [f \in Families |-> "none"], retry |-> {}]

NoSel == [skip |-> FALSE, byPrio |-> FALSE, prevWifi |-> FALSE]

ManagerUpdate(r) == [table |-> "Manager", row |-> r]

AwlanUpdate(d, h) == [table |-> "AWLAN", dest |-> d, host |-> h]

EmptyRow == [exists |-> TRUE, target |-> NoTarget, up |-> FALSE]

Init ==
    /\ state = "INIT" /\ changed = FALSE /\ due = FALSE
    /\ pass = "idle" /\ old = "INIT"
    /\ dest = "REDIR" /\ connected = FALSE /\ target = NoTarget /\ have = {}
    /\ addr = [d \in Dests |-> NoAddr]
    /\ lists = [d \in Dests |-> [f \in Families |-> NoList]]
    /\ link = NoLink /\ echo = FALSE /\ sel = NoSel
    /\ once = FALSE /\ disconnects = 0 /\ resolves = 0
    /\ row = EmptyRow /\ session = NoTarget
    /\ \E r \in RedirHosts :
         /\ awlan = [d \in Dests |-> IF d = "REDIR" THEN r ELSE NoHost]
         /\ inbox = <<AwlanUpdate("REDIR", r), ManagerUpdate(EmptyRow)>>
    /\ faults = 0

\* A disturbance of kind k happens.
Fault(k) == k \in Faults /\ faults < MaxFaults /\ faults' = faults + 1

-----------------------------------------------------------------------------
(* How a pass ends.                                                        *)

\* The code of the state moved on to s and broke out of the switch.
Move(s) ==
    /\ state' = s /\ changed' = TRUE /\ due' = FALSE /\ UNCHANGED old
    /\ pass' = IF s = old THEN "idle" ELSE "CHANGE"

\* It stays, with the state's timeout not elapsed.
Rest ==
    /\ changed' = FALSE /\ due' = FALSE /\ UNCHANGED <<state, old>>
    /\ pass' = IF state = old THEN "idle" ELSE "CHANGE"

\* It sets s and returns from cm2_update_state() at once.
Return(s) ==
    /\ state' = s /\ changed' = (s # state) /\ due' = (due /\ s = state)
    /\ old' = s /\ pass' = "idle"

Running(s) == pass = "run" /\ state = s

-----------------------------------------------------------------------------
(* Writing the Manager row: ovsdb-server notifies CM of the change.        *)

\* cm2_ovsdb_set_Manager_target(t) on the row and the queue of updates in q:
\* nothing happens when there is no row, and no update follows from a value
\* that does not change.
Put(q, t) ==
    IF q.row.exists /\ q.row.target # t
    THEN LET r == [q.row EXCEPT !.target = t]
         IN  [row |-> r, inbox |-> Append(q.inbox, ManagerUpdate(r))]
    ELSE q

\* The row as it is, or after the state's first pass has cleared it.
Base(clear) ==
    LET q == [row |-> row, inbox |-> inbox]
    IN  IF clear THEN Put(q, NoTarget) ELSE q

Commit(q) ==
    row' = q.row /\ inbox' = q.inbox /\ UNCHANGED <<session, awlan>>

SetTarget(t) == Commit(Put(Base(FALSE), t))

-----------------------------------------------------------------------------
(* Address lists (cm2_resolve_ares.c).                                     *)

PrefFam(a) == IF a.pref6 THEN "v6" ELSE "v4"

\* cm2_util_free_addr_list(): the addresses go, the query state stays.
Freed(l) == [l EXCEPT !.host = NoHost, !.len = 0, !.idx = 0]

\* cm2_free_addr_list()
FreedLists(ls) == [f \in Families |-> Freed(ls[f])]

\* Mutant: the end of the list counts as an address.
ValidTargetAtEnd(l, f) ==
    link.ip[f] = "ready" /\ l.host # NoHost /\ l.idx <= l.len

\* cm2_validate_target_addr()
ValidTarget(l, f) ==
    link.ip[f] = "ready" /\ l.host # NoHost /\ l.idx < l.len

\* cm2_pick_next_addr(): the families that have an address to offer, and the
\* preference it settles on.
Offers(ls) == {f \in Families : ValidTarget(ls[f], f)}

Picked(a, ls) ==
    [a EXCEPT !.pref6 = IF PrefFam(a) \in Offers(ls) THEN a.pref6
                        ELSE "v6" \in Offers(ls)]

\* cm2_write_target_addr(): the address under the list's index.
TargetOf(a, ls) ==
    LET f == PrefFam(a)
    IN  [host |-> ls[f].host, fam |-> f, idx |-> ls[f].idx]

\* cm2_move_next_target_addr(): the index of a list that is gone means
\* nothing and is left at 0.
MovedList(a, ls) ==
    [f \in Families |->
        IF f = PrefFam(a) /\ ls[f].host # NoHost
        THEN [ls[f] EXCEPT !.idx = @ + 1] ELSE ls[f]]

MovedAddr(a) == [a EXCEPT !.pref6 = ~@]

\* cm2_pick_next_addr() and cm2_write_target_addr() succeed, or fail, for
\* address a with lists ls.
CanWrite(ls) == Offers(ls) # {} /\ row.exists

WriteTarget(a, ls, clear) ==
    /\ CanWrite(ls)
    /\ addr' = [addr EXCEPT ![dest] = Picked(a, ls)]
    /\ lists' = [lists EXCEPT ![dest] = ls]
    /\ Commit(Put(Base(clear), TargetOf(Picked(a, ls), ls)))

WriteFails(a, ls, clear) ==
    /\ ~CanWrite(ls)
    /\ addr' = [addr EXCEPT ![dest] =
                   IF Offers(ls) = {} THEN a ELSE Picked(a, ls)]
    /\ lists' = [lists EXCEPT ![dest] = ls]
    /\ Commit(Base(clear))

InProgress(d) == \E f \in Families : lists[d][f].st = "IN_PROGRESS"

HasIp(f) == link.ip[f] # "none"

\* cm2_resolve(): a retry is skipped when the other family has its answer.
SkipRetry(d) ==
    \E f \in link.retry : \E g \in Families \ {f} :
        HasIp(g) /\ lists[d][g].st = "RESOLVED"

\* It fails while a query of this address runs, for an address that is not
\* valid, and while the channel is busy with a query of the other address.
CanResolve(d) ==
    addr[d].host # NoHost /\ \A e \in Dests : ~InProgress(e)

Queried(d) ==
    [f \in Families |->
        IF HasIp(f)
        THEN [Freed(lists[d][f]) EXCEPT !.st = "IN_PROGRESS",
                                        !.ask = addr[d].host]
        ELSE Freed(lists[d][f])]

\* cm2_resolve_timeout(): destroying the channel ends every query.
Stopped(ls) ==
    [d \in Dests |-> [f \in Families |->
        IF ls[d][f].st = "IN_PROGRESS"
        THEN [ls[d][f] EXCEPT !.st = "FINISHED", !.ask = NoHost]
        ELSE ls[d][f]]]

-----------------------------------------------------------------------------
(* cm2_update_state(): the part every pass starts with.                    *)

\* Mutant: a session that is up is always taken over.
OvsConnectKeeps == IF once /\ connected THEN "CONNECTED" ELSE "OVS_INIT"

\* cm2_ovs_connect()
OvsConnect ==
    CASE ~once \/ ~connected -> "OVS_INIT"
      [] once /\ connected /\ sel.skip -> "CONNECTED"
      [] OTHER -> "FAST_RECONNECT"

\* The state the reason of the call asks for.
ByReason(r) ==
    CASE r = "LINK_NOT_USED" -> "LINK_SEL"
      [] r = "VTAG" /\ state # "LINK_SEL" -> "WAN_IP"
      [] r = "OVS_INIT" /\ state \notin LinkStates -> "WAN_IP"
      [] OTHER -> state

Fresh(d) == addr[d].updated /\ addr[d].host # NoHost

\* Mutant: old_state is set before the label that the loop jumps to.
OldStateOnce(r) == IF r = "CHANGE" THEN old ELSE state

OldState(r) == state

BeginPass(r) ==
    LET s1 == ByReason(r)
        newRedir == /\ s1 \notin {"OVS_INIT", "TRY_RESOLVE"}
                    /\ state \notin LinkStates
                    /\ Fresh("REDIR")
        newManager == /\ ~newRedir
                      /\ ~(s1 = "CONNECTED" /\ dest = "MANAGER")
                      /\ Fresh("MANAGER")
        s2 == CASE newRedir -> OvsConnect
                [] newManager -> "TRY_RESOLVE"
                [] OTHER -> s1
        moved == s1 # state \/ s2 # s1
    IN  /\ have = {"awlan", "manager"}
        /\ state' = s2 /\ changed' = (changed \/ moved)
        /\ due' = (due /\ ~moved)
        /\ old' = OldState(r) /\ pass' = "run"
        /\ dest' = IF newManager THEN "MANAGER" ELSE dest
        /\ sel' = IF newRedir THEN [sel EXCEPT !.skip = FALSE] ELSE sel
        /\ addr' = CASE newRedir -> [addr EXCEPT !["REDIR"].updated = FALSE]
                     [] newManager -> [addr EXCEPT !["MANAGER"].pref6 =
                                          addr["REDIR"].pref6]
                     [] OTHER -> addr
        /\ UNCHANGED <<view, lists, link, echo, counts, server, faults>>

\* cm2_event_cb(), every second.
Tick == pass = "idle" /\ BeginPass("TIMER")

Begin ==
    /\ pass \notin {"idle", "run"}
    /\ \/ BeginPass(pass)
       \/ /\ have # {"awlan", "manager"}
          /\ pass' = "idle" /\ old' = state
          /\ UNCHANGED <<state, changed, due, dest, view, names, uplink, counts,
                         server, faults>>

-----------------------------------------------------------------------------
(* Link selection and the checks of the uplink.                            *)

NewLink(w) == [NoLink EXCEPT !.used = TRUE, !.wifi = w]

\* cm2_trigger_restart_managers() decides not to restart, possibly after
\* moving to another uplink.  The state's time starts again only while
\* disconnected; else the timeout is still there at the end of the pass,
\* which takes it for unexpected and goes to INIT.
RestartSkipped(l, s) ==
    /\ ~l.wifi
    /\ \/ link' = l /\ UNCHANGED echo
       \/ \E w \in LinkWifi : link' = NewLink(w) /\ echo' = TRUE
    /\ IF connected \/ s = "INIT" THEN Move("INIT") ELSE Rest

InitState ==
    /\ Running("INIT")
    /\ link' = [NoLink EXCEPT !.used = link.used, !.echoed = link.used,
                              !.wifi = link.used /\ link.wifi]
    /\ sel' = NoSel /\ once' = FALSE /\ resolves' = 0
    /\ Move("LINK_SEL")
    /\ UNCHANGED <<dest, view, names, echo, disconnects, server, faults>>

LinkSel ==
    LET prev == IF changed THEN link.used /\ link.wifi ELSE sel.prevWifi
        l == IF changed /\ link.used THEN NoLink ELSE link
    IN  /\ Running("LINK_SEL")
        /\ \/ /\ l.echoed
              /\ sel' = [NoSel EXCEPT !.skip = prev /\ l.wifi /\ sel.byPrio]
              /\ link' = l /\ UNCHANGED echo /\ Move("WAN_IP")
           \/ /\ ~l.echoed /\ ~due
              /\ sel' = [sel EXCEPT !.prevWifi = prev]
              /\ link' = l /\ UNCHANGED echo /\ Rest
           \/ /\ ~l.echoed /\ due
              /\ sel' = NoSel /\ RestartSkipped(l, "LINK_SEL")
        /\ UNCHANGED <<dest, view, names, counts, server, faults>>

\* The uplink has an address of some family that is not blocked.
HasAddress == \E f \in Families : link.ip[f] = "ready"

\* A check of the uplink failed: wait, or give up after the timeout.
CheckFailed ==
    \/ ~due /\ Rest /\ UNCHANGED <<link, echo>>
    \/ due /\ RestartSkipped(link, state)

WanIp ==
    /\ Running("WAN_IP")
    /\ \/ HasAddress /\ Move("NTP_CHECK") /\ UNCHANGED <<link, echo, faults>>
       \/ HasAddress /\ Fault("check") /\ CheckFailed
       \/ ~HasAddress /\ CheckFailed /\ UNCHANGED faults
    /\ UNCHANGED <<dest, view, names, sel, counts, server>>

NtpCheck ==
    /\ Running("NTP_CHECK")
    /\ \/ /\ sel' = [sel EXCEPT !.skip = FALSE]
          /\ Move(OvsConnect) /\ UNCHANGED <<link, echo, faults>>
       \/ Fault("check") /\ CheckFailed /\ UNCHANGED sel
    /\ UNCHANGED <<dest, view, names, counts, server>>

-----------------------------------------------------------------------------
(* Finding the address of the redirector or the manager.                   *)

\* Mutant: the manager address stays in AWLAN_Node.
ForgetManagerLocally == UNCHANGED <<awlan, inbox>>

\* cm2_clear_manager_addr(): with the address gone from AWLAN_Node, the answer
\* of the redirector is a change, whichever manager it names.
ForgetManager ==
    /\ awlan' = [awlan EXCEPT !["MANAGER"] = NoHost]
    /\ inbox' = IF awlan["MANAGER"] = NoHost THEN inbox
                ELSE Append(inbox, AwlanUpdate("MANAGER", NoHost))

OvsInit ==
    /\ Running("OVS_INIT")
    /\ sel' = IF changed THEN [sel EXCEPT !.skip = FALSE] ELSE sel
    /\ \/ /\ ~link.used
          /\ Move("LINK_SEL")
          /\ UNCHANGED <<dest, names, disconnects, server>>
       \/ /\ link.used /\ target # NoTarget
          /\ SetTarget(NoTarget) /\ Rest
          /\ UNCHANGED <<dest, names, disconnects>>
       \/ /\ link.used /\ target = NoTarget
          /\ connected \/ addr["REDIR"].host = NoHost
          /\ Rest
          /\ UNCHANGED <<dest, names, disconnects, server>>
       \/ /\ link.used /\ target = NoTarget /\ ~connected
          /\ addr["REDIR"].host # NoHost
          /\ ForgetManager
          /\ addr' = [addr EXCEPT !["MANAGER"].host = NoHost,
                                  !["MANAGER"].updated = FALSE,
                                  !["REDIR"].pref6 = TRUE]
          /\ lists' = [lists EXCEPT !["MANAGER"] = FreedLists(@)]
          /\ dest' = "REDIR" /\ disconnects' = 0
          /\ Move("TRY_RESOLVE")
          /\ UNCHANGED <<row, session>>
    /\ UNCHANGED <<view, link, echo, once, resolves, faults>>

\* cm2_restart_ovs_connection()
RestartOvs == Return("QUIESCE_OVS")

\* cm2_resolve(): the address it looks up is not new any more.
Asked(d) == [addr EXCEPT ![d].updated = FALSE]

\* Mutant: it is forgotten that an address is new before the query is refused.
RefusedForgets(d) == Asked(d)

\* cm2_resolve() returns false.
Refused(d) == IF InProgress(d) THEN addr ELSE Asked(d)

TryResolve ==
    LET ask == changed \/ link.retry # {}
        skip == SkipRetry(dest)
        ls == IF ask /\ ~skip THEN [lists EXCEPT ![dest] = Queried(dest)]
              ELSE lists
        asked == IF ask /\ ~skip THEN Asked(dest) ELSE addr
        n == IF link.retry # {} THEN resolves + 1 ELSE resolves
        waiting == \E f \in Families : ls[dest][f].st = "IN_PROGRESS"
        late == due \/ n > RetryThreshold
    IN  /\ Running("TRY_RESOLVE")
        /\ link' = IF ask THEN [link EXCEPT !.retry = {}] ELSE link
        /\ \/ /\ ask /\ ~skip /\ ~CanResolve(dest)
              /\ addr' = Refused(dest)
              /\ resolves' = n
              /\ RestartOvs /\ UNCHANGED lists
           \/ /\ ask /\ ~skip => CanResolve(dest)
              /\ addr' = asked
              /\ \/ /\ ~waiting
                    /\ lists' = ls /\ resolves' = 0 /\ Move("RE_CONNECT")
                 \/ /\ waiting /\ late
                    /\ lists' = Stopped(ls) /\ resolves' = 0 /\ RestartOvs
                 \/ /\ waiting /\ ~late
                    /\ lists' = ls /\ resolves' = n /\ Rest
        /\ UNCHANGED <<dest, view, echo, sel, once, disconnects, server, faults>>

-----------------------------------------------------------------------------
(* Connecting.                                                             *)

\* What CM knows says that ovsdb-server has let go of the last target.
Disconnected == target = NoTarget /\ ~connected

\* The first pass in a state that starts by disconnecting.
ClearOnEntry == Commit(Base(changed))

ReConnect ==
    /\ Running("RE_CONNECT")
    /\ ClearOnEntry
    /\ \/ Disconnected /\ Move("TRY_CONNECT")
       \/ ~Disconnected /\ due /\ RestartOvs
       \/ ~Disconnected /\ ~due /\ Rest
    /\ UNCHANGED <<dest, view, names, uplink, counts, faults>>

TryConnect ==
    LET a == addr[dest]
        ls == lists[dest]
    IN  /\ Running("TRY_CONNECT")
        /\ \/ /\ a.updated
              /\ Move("TRY_RESOLVE") /\ UNCHANGED <<names, server>>
           \/ /\ ~a.updated /\ changed
              /\ \/ WriteFails(a, ls, FALSE) /\ RestartOvs
                 \/ WriteTarget(a, ls, FALSE) /\ connected /\ Move("CONNECTED")
                 \/ WriteTarget(a, ls, FALSE) /\ ~connected /\ Rest
           \/ /\ ~a.updated /\ ~changed
              /\ \/ connected /\ Move("CONNECTED") /\ UNCHANGED <<names, server>>
                 \/ ~connected /\ ~due /\ Rest /\ UNCHANGED <<names, server>>
                 \/ /\ ~connected /\ due
                    /\ \/ WriteFails(MovedAddr(a), MovedList(a, ls), FALSE) /\ RestartOvs
                       \/ WriteTarget(MovedAddr(a), MovedList(a, ls), FALSE) /\ Rest
        /\ UNCHANGED <<dest, view, uplink, counts, faults>>

\* A stability check of the uplink may hold the reconnection up until the
\* timeout.
FastReconnect ==
    /\ Running("FAST_RECONNECT")
    /\ sel' = IF changed THEN [sel EXCEPT !.skip = FALSE] ELSE sel
    /\ \/ /\ ~Disconnected
          /\ ClearOnEntry /\ UNCHANGED names
          /\ IF due THEN Move("RE_CONNECT") ELSE Rest
       \/ /\ Disconnected /\ ~due
          /\ ClearOnEntry /\ UNCHANGED names /\ Rest
       \/ /\ Disconnected
          /\ \/ WriteFails(addr[dest], lists[dest], changed) /\ Move("OVS_INIT")
             \/ /\ WriteTarget(addr[dest], lists[dest], changed)
                /\ Move("FAST_RECONNECT_WAIT")
    /\ UNCHANGED <<dest, view, link, echo, counts, faults>>

FastReconnectWait ==
    LET a == addr[dest]
    IN  /\ Running("FAST_RECONNECT_WAIT")
        /\ \/ connected /\ Move("CONNECTED") /\ UNCHANGED names
           \/ ~connected /\ ~due /\ Rest /\ UNCHANGED names
           \/ /\ ~connected /\ due
              /\ addr' = [addr EXCEPT ![dest] = MovedAddr(a)]
              /\ lists' = [lists EXCEPT ![dest] = MovedList(a, @)]
              /\ Move("RE_CONNECT")
        /\ UNCHANGED <<dest, view, uplink, counts, server, faults>>

Connected ==
    /\ Running("CONNECTED")
    /\ once' = (once \/ changed)
    /\ sel' = IF changed THEN [sel EXCEPT !.skip = FALSE] ELSE sel
    /\ \/ /\ connected
          /\ disconnects' \in {0, disconnects}   \* 0 after CM2_STABLE_PERIOD
          /\ Rest
       \/ /\ ~connected
          /\ Move("FAST_RECONNECT") /\ UNCHANGED disconnects
    /\ UNCHANGED <<dest, view, names, link, echo, resolves, server, faults>>

\* disconnects only matters in the comparison with its limit.
Counted(n) == IF n > MaxDisconnects THEN MaxDisconnects + 1 ELSE n

QuiesceOvs ==
    LET n == Counted(IF changed THEN disconnects + 1 ELSE disconnects)
    IN  /\ Running("QUIESCE_OVS")
        /\ ClearOnEntry
        /\ \/ /\ ~due
              /\ disconnects' = n /\ Rest /\ UNCHANGED <<link, echo>>
           \/ /\ ~Disconnected /\ due
              /\ disconnects' = n /\ RestartSkipped(link, "INIT")
           \/ /\ Disconnected /\ due /\ n + 1 > MaxDisconnects
              /\ disconnects' = 0 /\ RestartOvs /\ UNCHANGED <<link, echo>>
           \/ /\ Disconnected /\ due /\ n + 1 <= MaxDisconnects
              /\ disconnects' = n + 1
              /\ Move("FAST_RECONNECT") /\ UNCHANGED <<link, echo>>
        /\ UNCHANGED <<dest, view, names, sel, once, resolves, faults>>

-----------------------------------------------------------------------------
(* Restarting the managers: CM, ovsdb-server and its data start afresh.    *)

Reset ==
    /\ state' = "INIT" /\ changed' = FALSE /\ due' = FALSE
    /\ pass' = "idle" /\ old' = "INIT"
    /\ dest' = "REDIR" /\ connected' = FALSE /\ target' = NoTarget /\ have' = {}
    /\ addr' = [d \in Dests |-> NoAddr]
    /\ lists' = [d \in Dests |-> [f \in Families |-> NoList]]
    /\ link' = NoLink /\ echo' = FALSE /\ sel' = NoSel
    /\ once' = FALSE /\ disconnects' = 0 /\ resolves' = 0
    /\ row' = EmptyRow /\ session' = NoTarget
    /\ \E r \in RedirHosts :
         /\ awlan' = [d \in Dests |-> IF d = "REDIR" THEN r ELSE NoHost]
         /\ inbox' = <<AwlanUpdate("REDIR", r), ManagerUpdate(EmptyRow)>>

\* cm2_trigger_restart_managers() restarts.
RestartManagers ==
    /\ pass = "run" /\ due
    /\ \/ state = "LINK_SEL" /\ ~link.echoed /\ UNCHANGED faults
       \/ state = "WAN_IP" /\ ~HasAddress /\ UNCHANGED faults
       \/ state \in {"WAN_IP", "NTP_CHECK"} /\ Fault("check")
       \/ state = "QUIESCE_OVS" /\ ~Disconnected /\ UNCHANGED faults
    /\ Reset

-----------------------------------------------------------------------------
(* Time, and the row updates CM reads.                                     *)

\* A healthy environment has nothing left to do.
Settled ==
    /\ ~echo /\ link.used /\ row.exists
    /\ \A f \in Stack : link.ip[f] = "ready"
    /\ \A d \in Dests : ~InProgress(d)
    /\ session = IF row.target \in Reachable THEN row.target ELSE NoTarget

Elapse ==
    /\ pass = "idle" /\ state \in TimedStates /\ ~due /\ ~changed
    /\ inbox = <<>> /\ (Prompt => Settled)
    /\ due' = TRUE
    /\ UNCHANGED <<state, changed, pass, old, dest, view, names, uplink, counts,
                   server, faults>>

\* callback_Manager() and callback_AWLAN_Node(), with cm2_set_addr().
Deliver ==
    /\ pass = "idle" /\ inbox # <<>>
    /\ inbox' = Tail(inbox)
    /\ LET m == Head(inbox)
       IN  \/ /\ m.table = "Manager" /\ m.row.exists
              /\ have' = have \cup {"manager"}
              /\ connected' = m.row.up /\ target' = m.row.target
              /\ pass' = "MANAGER" /\ UNCHANGED names
           \/ /\ m.table = "Manager" /\ ~m.row.exists
              /\ have' = have \ {"manager"} /\ connected' = FALSE
              /\ pass' = "MANAGER" /\ UNCHANGED <<target, names>>
           \/ /\ m.table = "AWLAN"
              /\ have' = have \cup {"awlan"}
              /\ addr' = [addr EXCEPT ![m.dest].host = m.host,
                                      ![m.dest].updated = (m.host # NoHost)]
              /\ lists' = [lists EXCEPT ![m.dest] = FreedLists(@)]
              /\ pass' = "AWLAN" /\ UNCHANGED <<connected, target>>
    /\ UNCHANGED <<state, changed, due, old, dest, uplink, counts, row, session,
                   awlan, faults>>

-----------------------------------------------------------------------------
(* The uplinks, as Connection_Manager_Uplink reports them.                 *)

UplinkRest ==
    UNCHANGED <<state, changed, due, old, dest, view, names, counts, server>>

\* cm2_connection_set_is_used() when there is no used link.
UplinkFound ==
    /\ pass = "idle" /\ ~link.used
    /\ \E w \in LinkWifi : link' = NewLink(w)
    /\ echo' = TRUE
    /\ UNCHANGED <<pass, sel, faults>> /\ UplinkRest

\* The notification that is_used is set comes back.  It is not compared with
\* the link in use.
UplinkEcho ==
    /\ pass = "idle" /\ echo
    /\ link' = [link EXCEPT !.echoed = TRUE] /\ echo' = FALSE
    /\ pass' = "LINK_USED"
    /\ UNCHANGED <<sel, faults>> /\ UplinkRest

\* The used link loses its L2 or L3, or its row is deleted.
UplinkLost ==
    /\ pass = "idle" /\ link.used /\ Fault("link")
    /\ link' \in {link, NoLink}
    /\ pass' = "LINK_NOT_USED"
    /\ UNCHANGED <<echo, sel>> /\ UplinkRest

\* A better uplink appears, or the priorities change.  cm2_util_switch_role()
\* restarts the managers when a connected Wi-Fi leaf becomes a gateway.
UplinkBetter ==
    /\ pass = "idle" /\ link.used /\ Fault("priority")
    /\ \E w \in LinkWifi :
         \/ /\ connected /\ link.wifi /\ ~w
            /\ Reset
         \/ /\ ~(connected /\ link.wifi /\ ~w)
            /\ link' = NewLink(w) /\ echo' = TRUE
            /\ UNCHANGED <<pass, sel>> /\ UplinkRest
         \/ /\ ~(connected /\ link.wifi /\ ~w)
            /\ sel' = [sel EXCEPT !.byPrio = TRUE]
            /\ pass' = "LINK_NOT_USED"
            /\ UNCHANGED <<link, echo>> /\ UplinkRest

\* An address family becomes usable, or ceases to be.  A change of IPv6 may
\* ask for a new connection (CM2_REASON_OVS_INIT).
IpReasons(f) == IF f = "v6" THEN {"idle", "OVS_INIT"} ELSE {"idle"}

IpUp ==
    /\ pass = "idle" /\ link.used
    /\ \E f \in Stack :
         /\ link.ip[f] # "ready"
         /\ link' = [link EXCEPT !.ip[f] = "ready"]
         /\ pass' \in IpReasons(f)
    /\ UNCHANGED <<echo, sel, faults>> /\ UplinkRest

IpDown ==
    /\ pass = "idle" /\ link.used /\ Fault("ip")
    /\ \E f \in Stack, v \in {"none", "blocked"} :
         /\ link.ip[f] = "ready"
         /\ link' = [link EXCEPT !.ip[f] = v]
         /\ pass' \in IpReasons(f)
    /\ UNCHANGED <<echo, sel>> /\ UplinkRest

\* A new or blocked VLAN tag, a new MAC address of the bridge.
Renew ==
    /\ pass = "idle" /\ Fault("renew")
    /\ pass' \in {"VTAG", "OVS_INIT"}
    /\ UNCHANGED uplink /\ UplinkRest

-----------------------------------------------------------------------------
(* DNS.                                                                    *)

\* cm2_ares_host_cb() of a query that is in progress.
Answer ==
    /\ pass = "idle"
    /\ \E d \in Dests, f \in Families :
         LET l == lists[d][f]
             Done(st, h, n) == lists' = [lists EXCEPT ![d][f] =
                 [st |-> st, ask |-> NoHost, host |-> h, len |-> n, idx |-> 0]]
         IN  /\ l.st = "IN_PROGRESS"
             /\ \/ /\ \E n \in Answers : Done("RESOLVED", l.ask, n)
                   /\ UNCHANGED <<link, faults>>
                \/ /\ Fault("dns")
                   /\ \/ Done("RESOLVED", l.ask, 0) /\ UNCHANGED link
                      \/ Done("FINISHED", l.host, l.len) /\ UNCHANGED link
                      \/ /\ Done("FINISHED", l.host, l.len)
                         /\ link' = [link EXCEPT !.retry = @ \cup {f}]
    /\ UNCHANGED <<core, dest, view, addr, echo, sel, counts, server>>

-----------------------------------------------------------------------------
(* ovsdb-server and the cloud.                                             *)

ServerRest == UNCHANGED <<core, dest, view, names, uplink, counts>>

\* The server changes its row and tells CM.
Report(r) == row' = r /\ inbox' = Append(inbox, ManagerUpdate(r))

SessionDown ==
    /\ session' = NoTarget /\ UNCHANGED awlan
    /\ Report([row EXCEPT !.up = FALSE])

\* The target has changed: the session with the old one is closed.
ServerDrops ==
    /\ Len(inbox) < MaxInbox
    /\ session # NoTarget /\ session # row.target
    /\ SessionDown /\ UNCHANGED faults /\ ServerRest

ServerConnects ==
    /\ Len(inbox) < MaxInbox
    /\ session = NoTarget /\ row.target \in Reachable
    /\ session' = row.target /\ UNCHANGED awlan
    /\ Report([row EXCEPT !.up = TRUE])
    /\ UNCHANGED faults /\ ServerRest

SessionLost ==
    /\ Len(inbox) < MaxInbox
    /\ session # NoTarget /\ Fault("lost")
    /\ SessionDown /\ ServerRest

RowDeleted ==
    /\ Len(inbox) < MaxInbox
    /\ row.exists /\ Fault("row")
    /\ session' = NoTarget /\ UNCHANGED awlan
    /\ Report([EmptyRow EXCEPT !.exists = FALSE]) /\ ServerRest

RowInserted ==
    /\ Len(inbox) < MaxInbox
    /\ ~row.exists
    /\ Report(EmptyRow) /\ UNCHANGED <<session, awlan, faults>> /\ ServerRest

WriteAwlan(d, h) ==
    /\ Len(inbox) < MaxInbox
    /\ awlan[d] # h
    /\ awlan' = [awlan EXCEPT ![d] = h]
    /\ inbox' = Append(inbox, AwlanUpdate(d, h))
    /\ UNCHANGED <<row, session>> /\ ServerRest

\* The redirector names the manager.  Writing the value that is there
\* already is no change and is not reported.
Redirected ==
    /\ session.host \in RedirHosts
    /\ \E h \in ManagerHosts : WriteAwlan("MANAGER", h)
    /\ UNCHANGED faults

\* The addresses are changed by hand or by the cloud.
AddressChanged ==
    \/ Fault("redirector") /\ \E h \in RedirHosts : WriteAwlan("REDIR", h)
    \/ Fault("manager") /\ \E h \in ManagerHosts \cup {NoHost} :
                              WriteAwlan("MANAGER", h)

-----------------------------------------------------------------------------

Run ==
    \/ Tick \/ Begin
    \/ InitState \/ LinkSel \/ WanIp \/ NtpCheck \/ OvsInit \/ TryResolve
    \/ ReConnect \/ TryConnect \/ FastReconnect \/ FastReconnectWait
    \/ Connected \/ QuiesceOvs \/ RestartManagers

Healthy ==
    \/ Deliver \/ UplinkFound \/ UplinkEcho \/ IpUp \/ Answer
    \/ ServerDrops \/ ServerConnects \/ RowInserted \/ Redirected

Disturbance ==
    \/ UplinkLost \/ UplinkBetter \/ IpDown \/ Renew
    \/ SessionLost \/ RowDeleted \/ AddressChanged

Next == Run \/ Elapse \/ Healthy \/ Disturbance

Spec == Init /\ [][Next]_vars

-----------------------------------------------------------------------------
(* Properties.                                                             *)

AnyHost == Hosts \cup {NoHost}

AddrType == [host : AnyHost, updated : BOOLEAN, pref6 : BOOLEAN]

ListType == [st : ResolveStates, ask : AnyHost, host : AnyHost, len : 0 .. MaxAddrs,
             idx : 0 .. MaxAddrs]

LinkType == [used : BOOLEAN, echoed : BOOLEAN, wifi : BOOLEAN,
             ip : [Families -> {"none", "ready", "blocked"}], retry : SUBSET Families]

SelType == [skip : BOOLEAN, byPrio : BOOLEAN, prevWifi : BOOLEAN]

RowType == [exists : BOOLEAN, target : Targets, up : BOOLEAN]

UpdateType == [table : {"Manager"}, row : RowType]
                  \cup [table : {"AWLAN"}, dest : Dests, host : AnyHost]

TypeOK ==
    /\ state \in States /\ changed \in BOOLEAN /\ due \in BOOLEAN
    /\ pass \in Reasons \cup {"idle", "run"} /\ old \in States
    /\ dest \in Dests /\ connected \in BOOLEAN /\ target \in Targets
    /\ have \subseteq {"awlan", "manager"}
    /\ addr \in [Dests -> AddrType] /\ lists \in [Dests -> [Families -> ListType]]
    /\ link \in LinkType /\ echo \in BOOLEAN /\ sel \in SelType
    /\ once \in BOOLEAN /\ disconnects \in 0 .. MaxDisconnects + 1 /\ resolves \in Nat
    /\ row \in RowType /\ session \in Targets
    /\ awlan \in [Dests -> AnyHost] /\ inbox \in Seq(UpdateType)
    /\ faults \in 0 .. MaxFaults

\* cm2_validate_target_addr() reads h_addr_list[h_cur_idx], and the list ends
\* with one NULL entry: whatever the order of answers, timeouts and address
\* changes, the index of a list never passes that entry.
IndexInList ==
    \A d \in Dests, f \in Families : lists[d][f].idx <= lists[d][f].len

\* The step writes a target for destination d.
Writes(d) ==
    dest' = d /\ row'.target # row.target /\ row'.target # NoTarget

Current(d) == addr'[d].host \in {row'.target.host, NoHost}

\* The target that CM writes for the manager is an address of the host in
\* addr_manager, never one that was resolved for an earlier manager_addr.  (An
\* address withdrawn while its name is being looked up is still tried.)
FreshManager == [][Writes("MANAGER") => Current("MANAGER")]_vars

\* The same for the redirector.  It does not hold: the branch that acts on a new
\* redirector_addr clears "updated" before cm2_resolve() refuses the name, a
\* query for the old one being in progress.
FreshRedirector == [][Writes("REDIR") => Current("REDIR")]_vars

HostsOf(d) == IF d = "REDIR" THEN RedirHosts ELSE ManagerHosts

\* When CM rests in CONNECTED, with nothing under way, the session is with the
\* destination CM believes in: g_state.dest decides whether a new manager_addr
\* is acted on (cm2_is_connected_to()).
ConnectedTruth ==
    (/\ pass = "idle" /\ state = "CONNECTED" /\ inbox = <<>>
     /\ row.exists /\ session = row.target)
       => session.host \in HostsOf(dest)

\* The event loop runs CM, time passes, OVSDB, DNS and the cloud answer.
\* Strong fairness is for what the loop dispatches between two calls: each is
\* enabled again and again, never throughout.
FairSpec ==
    /\ Spec
    /\ WF_vars(Run) /\ SF_vars(Elapse)
    /\ SF_vars(Deliver) /\ SF_vars(UplinkFound) /\ SF_vars(UplinkEcho)
    /\ SF_vars(IpUp) /\ SF_vars(Answer)
    /\ WF_vars(ServerDrops) /\ WF_vars(ServerConnects)
    /\ WF_vars(RowInserted) /\ WF_vars(Redirected)

\* Once the disturbances stop, CM ends up connected to the manager and stays
\* so, although only the last of the addresses tried can be reached: "each
\* connect attempt goes through all resolved IPs", and a lost manager is found
\* again through the redirector.
Recovers ==
    <>[](state = "CONNECTED" /\ connected /\ session.host \in ManagerHosts)

\* cm2_update_state() returns: no sequence of states makes the passes of one
\* call go round for ever ("goto start").
CallsEnd == pass # "idle" ~> pass = "idle"

=============================================================================
