------------------------------ MODULE Cm2Proofs -----------------------------
(***************************************************************************)
(* Proofs about the Connection Manager, for every set of names, addresses  *)
(* and uplinks, every limit, and disturbances of any kind and number.      *)
(***************************************************************************)
EXTENDS Cm2, TLAPS

-----------------------------------------------------------------------------
(* The inductive invariants.                                               *)

(***************************************************************************)
(* The index of a list is within it, and a list whose query runs is empty. *)
(***************************************************************************)
ListOK(l) ==
    /\ l.idx <= l.len
    /\ l.st = "IN_PROGRESS" => l.host = NoHost /\ l.len = 0

ListsOK == \A d \in Dests, f \in Families : ListOK(lists[d][f])

(***************************************************************************)
(* The list that cm2_move_next_target_addr() is about to step in: its      *)
(* answer is there, and its index is not at the end.                       *)
(***************************************************************************)
Steppable(l) ==
    /\ l.st # "IN_PROGRESS"
    /\ l.host = NoHost \/ l.idx < l.len

Trying == state = "FAST_RECONNECT_WAIT" \/ (state = "TRY_CONNECT" /\ ~changed)

TriedOK == Trying => Steppable(lists[dest][PrefFam(addr[dest])])

ListInv == TypeOK /\ ListsOK /\ TriedOK

(***************************************************************************)
(* What a manager address that CM has taken up says of its lists: they are *)
(* for that name, as are the queries that run.  One that is new while the  *)
(* redirector is looked up has no list.                                    *)
(***************************************************************************)
MyList(l) ==
    /\ l.host \in {NoHost, addr["MANAGER"].host}
    /\ l.st = "IN_PROGRESS" => l.ask = addr["MANAGER"].host

NewHasHost == addr["MANAGER"].updated => addr["MANAGER"].host # NoHost

TakenUp ==
    ~addr["MANAGER"].updated /\ addr["MANAGER"].host # NoHost
        => \A f \in Families : MyList(lists["MANAGER"][f])

NotYet ==
    addr["MANAGER"].updated /\ InProgress("REDIR")
        => \A f \in Families : lists["MANAGER"][f].host = NoHost

OneAtATime == ~InProgress("REDIR") \/ ~InProgress("MANAGER")

(***************************************************************************)
(* A pass has looked for a new manager address before it runs the code of  *)
(* a state, and does not get to that of FAST_RECONNECT or TRY_RESOLVE with *)
(* one it has not acted on.                                                *)
(***************************************************************************)
PassLooked ==
    pass = "run" =>
        /\ state = "FAST_RECONNECT" /\ dest = "MANAGER" => connected \/ ~addr["MANAGER"].updated
        /\ state = "TRY_RESOLVE" /\ dest = "REDIR" => ~addr["MANAGER"].updated

FreshInv == NewHasHost /\ TakenUp /\ NotYet /\ OneAtATime /\ PassLooked

(***************************************************************************)
(* Everything CM knows of a destination is of its hosts.                   *)
(***************************************************************************)
Own(d) == HostsOf(d) \cup {NoHost}

OwnNames ==
    /\ \A d \in Dests : addr[d].host \in Own(d)
    /\ \A d \in Dests, f \in Families : lists[d][f].host \in Own(d) /\ lists[d][f].ask \in Own(d)

OwnQueue(q) ==
    \A i \in 1 .. Len(q) : q[i].table = "AWLAN" => q[i].host \in Own(q[i].dest)

OwnHosts == OwnNames /\ OwnQueue(inbox)

(***************************************************************************)
(* An uplink that is taken over keeps the session only after a change of   *)
(* priority between two Wi-Fi uplinks.                                     *)
(***************************************************************************)
NoSkip ==
    /\ ~sel.skip
    /\ TRUE \in LinkWifi \/ ~link.wifi
    /\ "priority" \in Faults \/ ~sel.byPrio

(***************************************************************************)
(* The session is what the row says, and the last update in the inbox is   *)
(* of the row as it is; with none, CM knows the row as it is.              *)
(***************************************************************************)
RowTruth ==
    /\ row.up <=> session # NoTarget
    /\ ~row.exists => ~row.up /\ row.target = NoTarget

Told(r, q) ==
    \A i \in 1 .. Len(q) :
        q[i].table = "Manager" /\ (\A j \in i + 1 .. Len(q) : q[j].table # "Manager")
            => q[i].row = r

Silent(q) == \A i \in 1 .. Len(q) : q[i].table # "Manager"

Seen ==
    /\ connected = row.up
    /\ row.exists => target = row.target /\ "manager" \in have
    /\ ~row.exists => "manager" \notin have

ViewTruth == Told(row, inbox) /\ (Silent(inbox) => Seen)

(***************************************************************************)
(* In the states that follow the writing of a target, the row has a target *)
(* of the destination or none.                                             *)
(***************************************************************************)
TargetTruth ==
    Trying \/ state = "CONNECTED" =>
        row.target = NoTarget \/ row.target.host \in HostsOf(dest)

RestsConnected ==
    /\ pass = "run" => have = {"awlan", "manager"}
    /\ state # "INIT" => "awlan" \in have
    /\ pass = "idle" /\ state = "CONNECTED" /\ have = {"awlan", "manager"} => connected

TruthInv == OwnHosts /\ NoSkip /\ RowTruth /\ ViewTruth /\ TargetTruth /\ RestsConnected
-----------------------------------------------------------------------------
(* The kinds of steps.                                                     *)

(***************************************************************************)
(* A pass that finds a table missing, and what the uplinks and the server  *)
(* do on their own.                                                        *)
(***************************************************************************)
GivesUp ==
    /\ have # {"awlan", "manager"}
    /\ pass' = "idle" /\ old' = state
    /\ UNCHANGED <<state, changed, due, dest, view, names, uplink, counts, server, faults>>

Resets == Reset /\ (UNCHANGED faults \/ \E k : Fault(k))

Switches ==
    /\ pass = "idle" /\ Fault("priority")
    /\ \/ /\ \E w \in LinkWifi : link' = NewLink(w)
          /\ echo' = TRUE /\ UNCHANGED <<pass, sel>>
       \/ /\ sel' = [sel EXCEPT !.byPrio = TRUE]
          /\ pass' = "LINK_NOT_USED" /\ UNCHANGED <<link, echo>>
    /\ UplinkRest

UplinkStep ==
    UplinkFound \/ UplinkEcho \/ UplinkLost \/ Switches \/ IpUp \/ IpDown \/ Renew

ServerStep ==
    \/ ServerDrops \/ ServerConnects \/ SessionLost \/ RowDeleted \/ RowInserted
    \/ Redirected \/ AddressChanged

(***************************************************************************)
(* Every step is of one of these kinds.                                    *)
(***************************************************************************)
LEMMA StepKinds ==
    ASSUME [Next]_vars
    PROVE  \/ \E r : BeginPass(r)
           \/ GivesUp
           \/ InitState \/ LinkSel \/ WanIp \/ NtpCheck
           \/ OvsInit \/ TryResolve \/ ReConnect \/ TryConnect
           \/ FastReconnect \/ FastReconnectWait \/ Connected \/ QuiesceOvs
           \/ Resets
           \/ Elapse \/ Deliver \/ Answer
           \/ UplinkStep \/ ServerStep
           \/ UNCHANGED vars
<1>1. CASE Tick
  BY <1>1, Zenon DEF Tick
<1>2. CASE Begin
  BY <1>2, Zenon DEF Begin, GivesUp
<1>3. CASE RestartManagers
  BY <1>3, Zenon DEF RestartManagers, Resets
<1>4. CASE UplinkBetter
  BY <1>4, Zenon DEF UplinkBetter, Resets, Switches, UplinkStep
<1>5. CASE UplinkFound \/ UplinkEcho \/ UplinkLost \/ IpUp \/ IpDown \/ Renew
  BY <1>5, Zenon DEF UplinkStep
<1>6. CASE ServerDrops \/ ServerConnects \/ SessionLost \/ RowDeleted \/ RowInserted
           \/ Redirected \/ AddressChanged
  BY <1>6, Zenon DEF ServerStep
<1>. QED BY <1>1, <1>2, <1>3, <1>4, <1>5, <1>6, Zenon DEF Next, Run, Healthy, Disturbance
-----------------------------------------------------------------------------
(* Types.                                                                  *)

(***************************************************************************)
(* The values an uplink starts from are of its type.                       *)
(***************************************************************************)
LEMMA LinkValues ==
    /\ NoLink \in LinkType /\ NoSel \in SelType
    /\ \A w \in LinkWifi : NewLink(w) \in LinkType
    /\ \A w \in LinkWifi : NewLink(w).wifi = w
    /\ ~NoLink.wifi /\ ~NoSel.skip /\ ~NoSel.byPrio
<1>1. \A w \in LinkWifi : w \in BOOLEAN
  BY ConstantsAssumption, Zenon
<1>2. NoLink \in LinkType /\ NoSel \in SelType
  BY Zenon DEF NoLink, LinkType, NoSel, SelType
<1>3. \A w \in LinkWifi : NewLink(w) \in LinkType /\ NewLink(w).wifi = w
  BY <1>1, Zenon DEF NewLink, NoLink, LinkType
<1>. QED BY <1>2, <1>3, Zenon DEF NoLink, NoSel

(***************************************************************************)
(* What RestartSkipped does to the uplink.                                 *)
(***************************************************************************)
LEMMA SkippedLink ==
    ASSUME NEW l \in LinkType, NEW s, RestartSkipped(l, s), echo \in BOOLEAN
    PROVE  link' \in LinkType /\ echo' \in BOOLEAN
BY LinkValues, Zenon DEF RestartSkipped

(***************************************************************************)
(* A step keeps the types of the uplink.                                   *)
(***************************************************************************)
LEMMA LinkTypes ==
    ASSUME TypeOK, [Next]_vars
    PROVE  link' \in LinkType /\ echo' \in BOOLEAN /\ sel' \in SelType
<1>1. link \in LinkType /\ echo \in BOOLEAN /\ sel \in SelType
  BY Zenon DEF TypeOK
<1>2. \A b \in BOOLEAN : /\ [sel EXCEPT !.skip = b] \in SelType
                         /\ [sel EXCEPT !.byPrio = b] \in SelType
                         /\ [sel EXCEPT !.prevWifi = b] \in SelType
                         /\ [NoSel EXCEPT !.skip = b] \in SelType
  BY <1>1, Zenon DEF SelType, NoSel
<1>3. ASSUME NEW r, BeginPass(r) PROVE link' \in LinkType /\ echo' \in BOOLEAN /\ sel' \in SelType
  <2>1. link' = link /\ echo' = echo /\ sel' \in {[sel EXCEPT !.skip = FALSE], sel}
    BY <1>3, Zenon DEF BeginPass
  <2>. QED BY <1>1, <1>2, <2>1, Zenon
<1>4. CASE InitState
  <2>1. link.used \in BOOLEAN /\ link.wifi \in BOOLEAN
    BY <1>1, Zenon DEF LinkType
  <2>2. \A b, c \in BOOLEAN :
            [NoLink EXCEPT !.used = link.used, !.echoed = link.used, !.wifi = c] \in LinkType
    BY <2>1, LinkValues, Zenon DEF LinkType
  <2>3. (link.used /\ link.wifi) \in BOOLEAN
    BY Zenon
  <2>4. /\ link' = [NoLink EXCEPT !.used = link.used, !.echoed = link.used,
                                  !.wifi = link.used /\ link.wifi]
        /\ sel' = NoSel /\ echo' = echo
    BY <1>4, Zenon DEF InitState
  <2>. QED BY <1>1, <2>2, <2>3, <2>4, LinkValues, Zenon
<1>5. CASE LinkSel
  <2> DEFINE prev == IF changed THEN link.used /\ link.wifi ELSE sel.prevWifi
             l == IF changed /\ link.used THEN NoLink ELSE link
  <2>1. l \in LinkType
    BY <1>1, LinkValues, Zenon
  <2>2. /\ \/ sel' = [NoSel EXCEPT !.skip = prev /\ l.wifi /\ sel.byPrio]
           \/ sel' = [sel EXCEPT !.prevWifi = prev]
           \/ sel' = NoSel
        /\ \/ link' = l /\ UNCHANGED echo
           \/ RestartSkipped(l, "LINK_SEL")
    BY <1>5, Zenon DEF LinkSel
  <2>3. prev \in BOOLEAN
    BY <1>1, Zenon DEF SelType
  <2>4. (prev /\ l.wifi /\ sel.byPrio) \in BOOLEAN
    BY Zenon
  <2>. HIDE DEF prev, l
  <2>5. sel' \in SelType
    BY <1>2, <2>2, <2>3, <2>4, LinkValues, Zenon
  <2>. QED BY <1>1, <2>1, <2>2, <2>5, SkippedLink, Zenon
<1>6. CASE WanIp \/ NtpCheck \/ QuiesceOvs
  <2>1. /\ sel' \in {[sel EXCEPT !.skip = FALSE], sel}
        /\ UNCHANGED <<link, echo>> \/ \E s : RestartSkipped(link, s)
    BY <1>6, Zenon DEF WanIp, NtpCheck, QuiesceOvs, CheckFailed
  <2>. QED BY <1>1, <1>2, <2>1, SkippedLink, Zenon
<1>7. CASE OvsInit \/ FastReconnect \/ Connected
  <2>1. sel' \in {[sel EXCEPT !.skip = FALSE], sel} /\ UNCHANGED <<link, echo>>
    BY <1>7, Zenon DEF OvsInit, FastReconnect, Connected
  <2>. QED BY <1>1, <1>2, <2>1, Zenon
<1>8. CASE TryResolve
  <2>1. link' \in {[link EXCEPT !.retry = {}], link} /\ UNCHANGED <<sel, echo>>
    BY <1>8, Zenon DEF TryResolve
  <2>. QED BY <1>1, <2>1, Zenon DEF LinkType
<1>9. CASE Answer
  <2>1. /\ link' = link \/ \E f \in Families : link' = [link EXCEPT !.retry = @ \cup {f}]
        /\ UNCHANGED <<sel, echo>>
    BY <1>9, Zenon DEF Answer
  <2>. QED BY <1>1, <2>1 DEF LinkType
<1>10. CASE UplinkStep
  <2>1. CASE UplinkFound \/ Switches \/ Renew
    <3>1. /\ link' = link \/ \E w \in LinkWifi : link' = NewLink(w)
          /\ echo' \in {echo, TRUE} /\ sel' \in {sel, [sel EXCEPT !.byPrio = TRUE]}
      BY <2>1, Zenon DEF UplinkFound, Switches, Renew, uplink
    <3>. QED BY <1>1, <1>2, <3>1, LinkValues, Zenon
  <2>2. CASE UplinkEcho
    BY <1>1, <2>2, Zenon DEF UplinkEcho, LinkType
  <2>3. CASE UplinkLost
    BY <1>1, <2>3, LinkValues, Zenon DEF UplinkLost
  <2>4. CASE IpUp \/ IpDown
    <3>1. PICK f \in Stack, v \in {"none", "ready", "blocked"} : link' = [link EXCEPT !.ip[f] = v]
      BY <2>4, Zenon DEF IpUp, IpDown
    <3>2. echo' = echo /\ sel' = sel
      BY <2>4, Zenon DEF IpUp, IpDown
    <3>3. f \in Families
      BY ConstantsAssumption, Zenon
    <3>4. [link.ip EXCEPT ![f] = v] \in [Families -> {"none", "ready", "blocked"}]
      BY <1>1, <3>3, Zenon DEF LinkType
    <3>5. link' = [link EXCEPT !.ip = [link.ip EXCEPT ![f] = v]]
      BY <3>1, Zenon
    <3>. QED BY <1>1, <3>2, <3>4, <3>5, Zenon DEF LinkType
  <2>. QED BY <1>10, <2>1, <2>2, <2>3, <2>4, Zenon DEF UplinkStep
<1>11. CASE Resets
  BY <1>11, LinkValues, Zenon DEF Resets, Reset
<1>12. CASE \/ GivesUp \/ ReConnect \/ TryConnect \/ FastReconnectWait \/ Elapse \/ Deliver
            \/ ServerStep \/ UNCHANGED vars
  <2>1. UNCHANGED <<link, echo, sel>>
    BY <1>12, Zenon
    DEF GivesUp, ReConnect, TryConnect, FastReconnectWait, Elapse, Deliver, ServerStep,
        ServerDrops, ServerConnects, SessionLost, RowDeleted, RowInserted, Redirected,
        AddressChanged, WriteAwlan, ServerRest, uplink, vars
  <2>. QED BY <1>1, <2>1, Zenon
<1>. QED BY <1>3, <1>4, <1>5, <1>6, <1>7, <1>8, <1>9, <1>10, <1>11, <1>12, StepKinds, Zenon
(***************************************************************************)
(* The values a row starts from, and the updates that tell of it.          *)
(***************************************************************************)
LEMMA RowValues ==
    /\ NoTarget \in Targets /\ EmptyRow \in RowType
    /\ [EmptyRow EXCEPT !.exists = FALSE] \in RowType
    /\ \A r \in RowType : ManagerUpdate(r) \in UpdateType
    /\ \A d \in Dests, h \in AnyHost : AwlanUpdate(d, h) \in UpdateType
<1>1. NoTarget \in Targets
  BY Zenon DEF Targets
<1>2. EmptyRow \in RowType /\ [EmptyRow EXCEPT !.exists = FALSE] \in RowType
  BY <1>1, Zenon DEF EmptyRow, RowType
<1>. QED BY <1>1, <1>2, Zenon DEF ManagerUpdate, AwlanUpdate, UpdateType

RowAndInbox == [row : RowType, inbox : Seq(UpdateType)]

(***************************************************************************)
(* Writing a target keeps the types of the row and the inbox.              *)
(***************************************************************************)
LEMMA PutType ==
    ASSUME NEW q \in RowAndInbox, NEW t \in Targets
    PROVE  Put(q, t) \in RowAndInbox
<1> DEFINE r == [q.row EXCEPT !.target = t]
<1>1. q.row \in RowType /\ q.inbox \in Seq(UpdateType)
  BY Zenon DEF RowAndInbox
<1>2. r \in RowType
  BY <1>1, Zenon DEF RowType
<1>3. ManagerUpdate(r) \in UpdateType
  BY <1>2, RowValues, Zenon
<1>4. Append(q.inbox, ManagerUpdate(r)) \in Seq(UpdateType)
  BY <1>1, <1>3
<1>5. Put(q, t) \in {q, [row |-> r, inbox |-> Append(q.inbox, ManagerUpdate(r))]}
  BY Zenon DEF Put
<1>. HIDE DEF r
<1>. QED BY <1>2, <1>4, <1>5 DEF RowAndInbox

(***************************************************************************)
(* So does clearing it first.                                              *)
(***************************************************************************)
LEMMA BaseType ==
    ASSUME row \in RowType, inbox \in Seq(UpdateType), NEW clear
    PROVE  Base(clear) \in RowAndInbox
<1> DEFINE q == [row |-> row, inbox |-> inbox]
<1>1. q \in RowAndInbox
  BY Zenon DEF RowAndInbox
<1>2. Base(clear) \in {q, Put(q, NoTarget)}
  BY Zenon DEF Base
<1>. HIDE DEF q
<1>. QED BY <1>1, <1>2, PutType, RowValues, Zenon

ServerTypes ==
    /\ row \in RowType /\ session \in Targets
    /\ awlan \in [Dests -> AnyHost] /\ inbox \in Seq(UpdateType)

(***************************************************************************)
(* Committing what was written keeps the types of the server.              *)
(***************************************************************************)
LEMMA CommitType ==
    ASSUME ServerTypes, NEW q \in RowAndInbox, Commit(q)
    PROVE  ServerTypes'
BY Zenon DEF ServerTypes, Commit, RowAndInbox

(***************************************************************************)
(* cm2_pick_next_addr() settles on a family that has an address to offer   *)
(* and touches nothing but the preference.                                 *)
(***************************************************************************)
LEMMA PickedOffers ==
    ASSUME NEW a \in AddrType, NEW ls
    PROVE  /\ Picked(a, ls) \in AddrType
           /\ Picked(a, ls).host = a.host /\ Picked(a, ls).updated = a.updated
           /\ Offers(ls) # {} => PrefFam(Picked(a, ls)) \in Offers(ls)
<1> DEFINE b == IF PrefFam(a) \in Offers(ls) THEN a.pref6 ELSE "v6" \in Offers(ls)
<1>1. b \in BOOLEAN
  <2>1. a.pref6 \in BOOLEAN
    BY Zenon DEF AddrType
  <2>2. ("v6" \in Offers(ls)) \in BOOLEAN
    OBVIOUS
  <2>. QED BY <2>1, <2>2, Zenon
<1>2. Picked(a, ls) = [a EXCEPT !.pref6 = b]
  BY Zenon DEF Picked
<1>3. Offers(ls) # {} => (IF b THEN "v6" ELSE "v4") \in Offers(ls)
  BY Zenon DEF Offers, Families, PrefFam
<1>. HIDE DEF b
<1>4. /\ Picked(a, ls) \in AddrType /\ Picked(a, ls).pref6 = b
      /\ Picked(a, ls).host = a.host /\ Picked(a, ls).updated = a.updated
  BY <1>1, <1>2, Zenon DEF AddrType
<1>. QED BY <1>3, <1>4, Zenon DEF PrefFam

(***************************************************************************)
(* The target that is written is one, and of the host of the list it is    *)
(* taken from.                                                             *)
(***************************************************************************)
LEMMA WrittenTarget ==
    ASSUME NEW a \in AddrType, NEW ls \in [Families -> ListType], Offers(ls) # {}
    PROVE  LET f == PrefFam(Picked(a, ls))
               t == TargetOf(Picked(a, ls), ls)
           IN  /\ t \in Targets /\ t # NoTarget /\ t.host = ls[f].host
               /\ f \in Families /\ ls[f].host # NoHost /\ ls[f].idx < ls[f].len
<1> DEFINE f == PrefFam(Picked(a, ls))
           t == TargetOf(Picked(a, ls), ls)
<1>1. f \in Offers(ls)
  BY PickedOffers, Zenon
<1>2. f \in Families /\ ls[f].host # NoHost /\ ls[f].idx < ls[f].len
  BY <1>1, Zenon DEF Offers, ValidTarget
<1>3. t = [host |-> ls[f].host, fam |-> f, idx |-> ls[f].idx]
  BY Zenon DEF TargetOf
<1>. HIDE DEF f
<1>4. ls[f] \in ListType
  BY <1>2, Zenon
<1>5. ls[f].host \in Hosts
  BY <1>2, <1>4, Zenon DEF ListType, AnyHost
<1>6. ls[f].idx \in 0 .. MaxAddrs - 1
  BY <1>2, <1>4, ConstantsAssumption DEF ListType
<1>7. t \in Targets /\ t.host = ls[f].host
  BY <1>2, <1>3, <1>5, <1>6 DEF Targets
<1>8. t # NoTarget
  BY <1>2, <1>7 DEF NoTarget
<1>. QED BY <1>2, <1>7, <1>8, Zenon DEF f
-----------------------------------------------------------------------------
(* What is done with the lists of one address.                             *)

Good(ls) == ls \in [Families -> ListType] /\ \A f \in Families : ListOK(ls[f])

(***************************************************************************)
(* The fields of a list that is freed.                                     *)
(***************************************************************************)
LEMMA FreedIs ==
    ASSUME NEW l \in ListType
    PROVE  Freed(l) = [st |-> l.st, ask |-> l.ask, host |-> NoHost, len |-> 0, idx |-> 0]
<1> DEFINE a == [l EXCEPT !.host = NoHost]
           b == [a EXCEPT !.len = 0]
<1>1. Freed(l) = [b EXCEPT !.idx = 0]
  BY Zenon DEF Freed
<1>2. a = [st |-> l.st, ask |-> l.ask, host |-> NoHost, len |-> l.len, idx |-> l.idx]
  BY DEF ListType
<1>. HIDE DEF a
<1>3. b = [st |-> l.st, ask |-> l.ask, host |-> NoHost, len |-> 0, idx |-> l.idx]
  BY <1>2
<1>. HIDE DEF b
<1>. QED BY <1>1, <1>3, Zenon

(***************************************************************************)
(* Lists that are freed are good, empty, and keep their queries.           *)
(***************************************************************************)
LEMMA FreedGood ==
    ASSUME NEW ls, Good(ls)
    PROVE  /\ Good(FreedLists(ls))
           /\ \A f \in Families : /\ FreedLists(ls)[f].host = NoHost
                                  /\ FreedLists(ls)[f].st = ls[f].st
                                  /\ FreedLists(ls)[f].ask = ls[f].ask
<1>1. ASSUME NEW f \in Families
      PROVE  /\ Freed(ls[f]) \in ListType /\ ListOK(Freed(ls[f])) /\ Freed(ls[f]).host = NoHost
             /\ Freed(ls[f]).st = ls[f].st /\ Freed(ls[f]).ask = ls[f].ask
  <2>1. ls[f] \in ListType
    BY Zenon DEF Good
  <2>2. Freed(ls[f]) = [st |-> ls[f].st, ask |-> ls[f].ask, host |-> NoHost, len |-> 0, idx |-> 0]
    BY <2>1, FreedIs, Zenon
  <2>3. Freed(ls[f]) \in ListType
    BY <2>1, <2>2, ConstantsAssumption DEF ListType, AnyHost
  <2>. QED BY <2>2, <2>3 DEF ListOK
<1>2. FreedLists(ls) = [f \in Families |-> Freed(ls[f])]
  BY Zenon DEF FreedLists
<1>. QED BY <1>1, <1>2, Zenon DEF Good

(***************************************************************************)
(* cm2_move_next_target_addr() keeps the index within the list, when it is *)
(* not at its end.                                                         *)
(***************************************************************************)
LEMMA MovedGood ==
    ASSUME NEW a \in AddrType, NEW ls, Good(ls), Steppable(ls[PrefFam(a)])
    PROVE  /\ Good(MovedList(a, ls)) /\ MovedAddr(a) \in AddrType
           /\ MovedAddr(a).host = a.host /\ MovedAddr(a).updated = a.updated
           /\ \A f \in Families : /\ MovedList(a, ls)[f].host = ls[f].host
                                  /\ MovedList(a, ls)[f].st = ls[f].st
                                  /\ MovedList(a, ls)[f].ask = ls[f].ask
<1> DEFINE m(f) == IF f = PrefFam(a) /\ ls[f].host # NoHost
                   THEN [ls[f] EXCEPT !.idx = @ + 1] ELSE ls[f]
<1>1. ASSUME NEW f \in Families
      PROVE  /\ m(f) \in ListType /\ ListOK(m(f)) /\ m(f).host = ls[f].host
             /\ m(f).st = ls[f].st /\ m(f).ask = ls[f].ask
  <2>1. ls[f] \in ListType /\ ListOK(ls[f])
    BY Zenon DEF Good
  <2>2. CASE ~(f = PrefFam(a) /\ ls[f].host # NoHost)
    BY <2>1, <2>2, Zenon
  <2>3. CASE f = PrefFam(a) /\ ls[f].host # NoHost
    <3>1. /\ ls[f].idx \in 0 .. MaxAddrs /\ ls[f].len \in 0 .. MaxAddrs
          /\ ls[f].idx < ls[f].len /\ ls[f].st # "IN_PROGRESS"
      BY <2>1, <2>3, Zenon DEF ListType, Steppable
    <3> DEFINE n == ls[f].idx + 1
    <3>2. n \in 0 .. MaxAddrs /\ n <= ls[f].len
      BY <3>1, ConstantsAssumption
    <3>3. m(f) = [ls[f] EXCEPT !.idx = n]
      BY <2>3, Zenon
    <3>. HIDE DEF n
    <3>4. m(f) = [st |-> ls[f].st, ask |-> ls[f].ask, host |-> ls[f].host, len |-> ls[f].len,
                  idx |-> n]
      BY <2>1, <3>3, Zenon DEF ListType
    <3>. HIDE DEF m
    <3>5. m(f) \in ListType
      BY <2>1, <3>2, <3>4 DEF ListType
    <3>. QED BY <3>1, <3>2, <3>4, <3>5 DEF ListOK
  <2>. QED BY <2>2, <2>3, Zenon
<1>2. MovedList(a, ls) = [f \in Families |-> m(f)]
  BY Zenon DEF MovedList
<1>3. /\ MovedAddr(a) \in AddrType
      /\ MovedAddr(a).host = a.host /\ MovedAddr(a).updated = a.updated
  <2>1. (~a.pref6) \in BOOLEAN
    BY Zenon
  <2> DEFINE b == ~a.pref6
  <2>2. MovedAddr(a) = [a EXCEPT !.pref6 = b]
    BY Zenon DEF MovedAddr
  <2>. HIDE DEF b
  <2>. QED BY <2>1, <2>2, Zenon DEF AddrType, b
<1>. HIDE DEF m
<1>. QED BY <1>1, <1>2, <1>3, Zenon DEF Good

(***************************************************************************)
(* The queries that cm2_resolve() starts have good lists.                  *)
(***************************************************************************)
LEMMA QueriedGood ==
    ASSUME NEW d \in Dests, Good(lists[d]), addr[d].host \in AnyHost
    PROVE  /\ Good(Queried(d))
           /\ \A f \in Families :
                 /\ Queried(d)[f].host = NoHost
                 /\ \/ Queried(d)[f].st = "IN_PROGRESS" /\ Queried(d)[f].ask = addr[d].host
                    \/ /\ Queried(d)[f].st = lists[d][f].st
                       /\ Queried(d)[f].ask = lists[d][f].ask
<1> DEFINE h == addr[d].host
           q(f) == IF HasIp(f)
                   THEN [Freed(lists[d][f]) EXCEPT !.st = "IN_PROGRESS", !.ask = h]
                   ELSE Freed(lists[d][f])
<1>1. ASSUME NEW f \in Families
      PROVE  /\ q(f) \in ListType /\ ListOK(q(f)) /\ q(f).host = NoHost
             /\ \/ q(f).st = "IN_PROGRESS" /\ q(f).ask = h
                \/ q(f).st = lists[d][f].st /\ q(f).ask = lists[d][f].ask
  <2>1. /\ Freed(lists[d][f]) \in ListType /\ ListOK(Freed(lists[d][f]))
        /\ Freed(lists[d][f]).host = NoHost /\ Freed(lists[d][f]).st = lists[d][f].st
        /\ Freed(lists[d][f]).ask = lists[d][f].ask
    BY FreedGood, Zenon DEF FreedLists, Good
  <2>2. Freed(lists[d][f]).len = 0 /\ Freed(lists[d][f]).idx = 0
    BY Zenon DEF Freed, Good, ListType
  <2> DEFINE l == Freed(lists[d][f])
  <2>. HIDE DEF l, h
  <2>3. CASE ~HasIp(f)
    BY <2>1, <2>3, Zenon
  <2>4. CASE HasIp(f)
    <3>1. q(f) = [st |-> "IN_PROGRESS", ask |-> h, host |-> NoHost, len |-> 0, idx |-> 0]
      BY <2>1, <2>2, <2>4, Zenon DEF ListType
    <3>. HIDE DEF q
    <3>2. h \in AnyHost
      BY Zenon DEF h
    <3>3. q(f) \in ListType
      BY <3>1, <3>2, ConstantsAssumption DEF ListType, AnyHost, ResolveStates
    <3>. QED BY <3>1, <3>3 DEF ListOK
  <2>. QED BY <2>3, <2>4, Zenon
<1>2. Queried(d) = [f \in Families |-> q(f)]
  BY Zenon DEF Queried
<1>. HIDE DEF q
<1>. QED BY <1>1, <1>2, Zenon DEF Good

(***************************************************************************)
(* Stopping every query leaves good lists, of the same hosts and without a *)
(* query.                                                                  *)
(***************************************************************************)
LEMMA StoppedGood ==
    ASSUME NEW ls, \A d \in Dests : Good(ls[d])
    PROVE  /\ Stopped(ls) \in [Dests -> [Families -> ListType]]
           /\ \A d \in Dests : Good(Stopped(ls)[d])
           /\ \A d \in Dests, f \in Families :
                 /\ Stopped(ls)[d][f].host = ls[d][f].host
                 /\ Stopped(ls)[d][f].st # "IN_PROGRESS"
                 /\ Stopped(ls)[d][f].ask \in {NoHost, ls[d][f].ask}
<1> DEFINE s(d, f) == IF ls[d][f].st = "IN_PROGRESS"
                      THEN [ls[d][f] EXCEPT !.st = "FINISHED", !.ask = NoHost] ELSE ls[d][f]
<1>1. ASSUME NEW d \in Dests, NEW f \in Families
      PROVE  /\ s(d, f) \in ListType /\ ListOK(s(d, f)) /\ s(d, f).host = ls[d][f].host
             /\ s(d, f).st # "IN_PROGRESS" /\ s(d, f).ask \in {NoHost, ls[d][f].ask}
  <2>1. ls[d][f] \in ListType /\ ListOK(ls[d][f])
    BY Zenon DEF Good
  <2>2. CASE ls[d][f].st # "IN_PROGRESS"
    BY <2>1, <2>2, Zenon
  <2>3. CASE ls[d][f].st = "IN_PROGRESS"
    <3>1. s(d, f) = [st |-> "FINISHED", ask |-> NoHost, host |-> ls[d][f].host,
                     len |-> ls[d][f].len, idx |-> ls[d][f].idx]
      BY <2>1, <2>3, Zenon DEF ListType
    <3>. HIDE DEF s
    <3>2. s(d, f) \in ListType
      BY <2>1, <3>1 DEF ListType, AnyHost, ResolveStates
    <3>. QED BY <2>1, <3>1, <3>2 DEF ListOK
  <2>. QED BY <2>2, <2>3, Zenon
<1>2. Stopped(ls) = [d \in Dests |-> [f \in Families |-> s(d, f)]]
  BY Zenon DEF Stopped
<1>. HIDE DEF s
<1>. QED BY <1>1, <1>2 DEF Good
-----------------------------------------------------------------------------
(* Types of the state machine itself.                                      *)

CoreTypes ==
    /\ state \in States /\ changed \in BOOLEAN /\ due \in BOOLEAN
    /\ pass \in Reasons \cup {"idle", "run"} /\ old \in States

(***************************************************************************)
(* The ways a pass ends keep the types.                                    *)
(***************************************************************************)
LEMMA EndTypes ==
    ASSUME CoreTypes, \/ \E s \in States : Move(s) \/ Return(s)
                      \/ Rest
    PROVE  CoreTypes'
<1>1. ASSUME NEW s \in States, Move(s) PROVE CoreTypes'
  BY <1>1, Zenon DEF CoreTypes, Move, Reasons
<1>2. ASSUME NEW s \in States, Return(s) PROVE CoreTypes'
  <2>1. (s # state) \in BOOLEAN /\ (due /\ s = state) \in BOOLEAN
    BY Zenon
  <2>2. /\ state' = s /\ changed' = (s # state) /\ due' = (due /\ s = state)
        /\ old' = s /\ pass' = "idle"
    BY <1>2, Zenon DEF Return
  <2>. QED BY <2>1, <2>2, Zenon DEF CoreTypes
<1>3. ASSUME Rest PROVE CoreTypes'
  BY <1>3, Zenon DEF CoreTypes, Rest, Reasons
<1>. QED BY <1>1, <1>2, <1>3, Zenon

(***************************************************************************)
(* The state that the start of a pass chooses.                             *)
(***************************************************************************)
LEMMA ChosenStates ==
    ASSUME state \in States
    PROVE  /\ OvsConnect \in {"OVS_INIT", "CONNECTED", "FAST_RECONNECT"}
           /\ \A r : ByReason(r) \in {"LINK_SEL", "WAN_IP", state}
           /\ {"OVS_INIT", "CONNECTED", "FAST_RECONNECT", "TRY_RESOLVE", "LINK_SEL", "WAN_IP",
               "INIT", "RE_CONNECT", "TRY_CONNECT", "FAST_RECONNECT_WAIT", "QUIESCE_OVS",
               "NTP_CHECK"} \subseteq States
BY Zenon DEF OvsConnect, ByReason, States, TimedStates

(***************************************************************************)
(* The code of every state ends in one of the three ways.                  *)
(***************************************************************************)
LEMMA StateEnds ==
    ASSUME state \in States,
           \/ InitState \/ LinkSel \/ WanIp \/ NtpCheck
           \/ OvsInit \/ TryResolve \/ ReConnect \/ TryConnect
           \/ FastReconnect \/ FastReconnectWait \/ Connected \/ QuiesceOvs
    PROVE  \/ \E s \in States : Move(s) \/ Return(s)
           \/ Rest
<1>1. CASE InitState \/ LinkSel \/ WanIp \/ NtpCheck \/ QuiesceOvs
  <2>1. \/ \E s \in {"LINK_SEL", "WAN_IP", "INIT", "NTP_CHECK", "QUIESCE_OVS", "FAST_RECONNECT",
                     OvsConnect} : Move(s) \/ Return(s)
        \/ Rest
    BY <1>1, Zenon DEF InitState, LinkSel, WanIp, NtpCheck, QuiesceOvs, CheckFailed,
                       RestartSkipped, RestartOvs
  <2>. QED BY <2>1, ChosenStates, Zenon
<1>2. CASE OvsInit \/ TryResolve \/ ReConnect \/ TryConnect \/ FastReconnect \/ FastReconnectWait
           \/ Connected
  <2>1. \/ \E s \in {"LINK_SEL", "TRY_RESOLVE", "RE_CONNECT", "QUIESCE_OVS", "FAST_RECONNECT",
                     "TRY_CONNECT", "CONNECTED", "OVS_INIT", "FAST_RECONNECT_WAIT"} :
             Move(s) \/ Return(s)
        \/ Rest
    BY <1>2, Zenon DEF OvsInit, TryResolve, ReConnect, TryConnect, FastReconnect,
                       FastReconnectWait, Connected, RestartOvs
  <2>. QED BY <2>1, ChosenStates, Zenon
<1>. QED BY <1>1, <1>2, Zenon

(***************************************************************************)
(* What the start of a pass does, with the code's local variables named.   *)
(***************************************************************************)
NewRedir(r) ==
    ByReason(r) \notin {"OVS_INIT", "TRY_RESOLVE"} /\ state \notin LinkStates /\ Fresh("REDIR")

NewManager(r) ==
    ~NewRedir(r) /\ ~(ByReason(r) = "CONNECTED" /\ dest = "MANAGER") /\ Fresh("MANAGER")

Choice(r) == CASE NewRedir(r) -> OvsConnect
               [] NewManager(r) -> "TRY_RESOLVE"
               [] OTHER -> ByReason(r)

Moved(r) == ByReason(r) # state \/ Choice(r) # ByReason(r)

BeginEffect(r) ==
    /\ have = {"awlan", "manager"}
    /\ state' = Choice(r) /\ changed' = (changed \/ Moved(r))
    /\ due' = (due /\ ~Moved(r))
    /\ old' = state /\ pass' = "run"
    /\ dest' = IF NewManager(r) THEN "MANAGER" ELSE dest
    /\ sel' = IF NewRedir(r) THEN [sel EXCEPT !.skip = FALSE] ELSE sel
    /\ addr' = CASE NewRedir(r) -> [addr EXCEPT !["REDIR"].updated = FALSE]
                 [] NewManager(r) -> [addr EXCEPT !["MANAGER"].pref6 = addr["REDIR"].pref6]
                 [] OTHER -> addr
    /\ UNCHANGED <<view, lists, link, echo, counts, server, faults>>

(***************************************************************************)
(* What a pass does before the code of the state runs, with the choices of *)
(* cm2_update_state() named.                                               *)
(***************************************************************************)
LEMMA BeginIs ==
    ASSUME NEW r, BeginPass(r)
    PROVE  BeginEffect(r)
BY Zenon DEF BeginPass, BeginEffect, NewRedir, NewManager, Choice, Moved, OldState

(***************************************************************************)
(* A step keeps the types of the state machine and of the destination.     *)
(***************************************************************************)
LEMMA CoreStep ==
    ASSUME TypeOK, [Next]_vars
    PROVE  CoreTypes' /\ dest' \in Dests
<1>1. CoreTypes /\ dest \in Dests
  BY Zenon DEF TypeOK, CoreTypes
<1>2. ASSUME NEW r, BeginPass(r) PROVE CoreTypes' /\ dest' \in Dests
  <2>1. BeginEffect(r)
    BY <1>2, BeginIs, Zenon
  <2>2. Choice(r) \in States
    BY <1>1, ChosenStates, Zenon DEF Choice, CoreTypes
  <2>3. (changed \/ Moved(r)) \in BOOLEAN /\ (due /\ ~Moved(r)) \in BOOLEAN
    BY Zenon
  <2>4. /\ state' = Choice(r) /\ changed' = (changed \/ Moved(r)) /\ due' = (due /\ ~Moved(r))
        /\ old' = state /\ pass' = "run" /\ dest' \in {dest, "MANAGER"}
    BY <2>1, Zenon DEF BeginEffect
  <2>5. dest' \in Dests
    BY <1>1, <2>4, Zenon DEF Dests
  <2>6. state \in States
    BY <1>1, Zenon DEF CoreTypes
  <2>. QED BY <2>2, <2>3, <2>4, <2>5, <2>6, Zenon DEF CoreTypes
<1>3. CASE \/ InitState \/ LinkSel \/ WanIp \/ NtpCheck
           \/ OvsInit \/ TryResolve \/ ReConnect \/ TryConnect
           \/ FastReconnect \/ FastReconnectWait \/ Connected \/ QuiesceOvs
  <2>1. CoreTypes'
    BY <1>1, <1>3, StateEnds, EndTypes, Zenon DEF CoreTypes
  <2>2. dest' \in {dest, "REDIR"}
    BY <1>3, Zenon DEF InitState, LinkSel, WanIp, NtpCheck, OvsInit, TryResolve, ReConnect,
                       TryConnect, FastReconnect, FastReconnectWait, Connected, QuiesceOvs
  <2>. QED BY <1>1, <2>1, <2>2, Zenon DEF Dests
<1>4. CASE GivesUp \/ Elapse \/ Deliver \/ UplinkStep \/ ServerStep \/ Answer \/ UNCHANGED vars
  <2>1. /\ state' = state /\ changed' = changed /\ dest' = dest
        /\ due' \in {due, TRUE} /\ old' \in {old, state}
        /\ pass' \in {pass, "idle", "MANAGER", "AWLAN", "LINK_USED", "LINK_NOT_USED", "VTAG",
                      "OVS_INIT"}
    <3>1. CASE GivesUp \/ Elapse \/ Deliver \/ Answer \/ UNCHANGED vars
      BY <3>1, Zenon DEF GivesUp, Elapse, Deliver, Answer, core, vars
    <3>2. CASE UplinkStep
      <4>1. CASE UplinkFound \/ UplinkEcho \/ UplinkLost \/ Switches \/ Renew
        BY <4>1, Zenon
        DEF UplinkFound, UplinkEcho, UplinkLost, Switches, Renew, UplinkRest
      <4>2. CASE IpUp \/ IpDown
        <5>1. UplinkRest /\ \E f \in Stack : pass' \in IpReasons(f)
          BY <4>2, Zenon DEF IpUp, IpDown
        <5>2. pass' \in {"idle", "OVS_INIT"}
          BY <5>1, Zenon DEF IpReasons
        <5>. QED BY <5>1, <5>2, Zenon DEF UplinkRest
      <4>. QED BY <3>2, <4>1, <4>2, Zenon DEF UplinkStep
    <3>3. CASE ServerStep
      BY <3>3, Zenon DEF ServerStep, ServerDrops, ServerConnects, SessionLost, RowDeleted,
                         RowInserted, Redirected, AddressChanged, WriteAwlan, ServerRest, core
    <3>. QED BY <1>4, <3>1, <3>2, <3>3, Zenon
  <2>. QED BY <1>1, <2>1, Zenon DEF CoreTypes, Reasons
<1>5. CASE Resets
  BY <1>5, Zenon DEF Resets, Reset, CoreTypes, Dests, States
<1>. QED BY <1>2, <1>3, <1>4, <1>5, StepKinds, Zenon
CountTypes ==
    /\ once \in BOOLEAN /\ disconnects \in 0 .. MaxDisconnects + 1 /\ resolves \in Nat
    /\ faults \in 0 .. MaxFaults

(***************************************************************************)
(* A step keeps the types of the counters.                                 *)
(***************************************************************************)
LEMMA CountStep ==
    ASSUME TypeOK, [Next]_vars
    PROVE  CountTypes'
<1>1. CountTypes
  BY Zenon DEF TypeOK, CountTypes
<1>2. faults' \in 0 .. MaxFaults
  <2>1. faults' = faults \/ faults' = 0 \/ \E k : Fault(k)
    <3>1. ASSUME NEW r, BeginPass(r) PROVE faults' = faults
      BY <3>1, Zenon DEF BeginPass
    <3>2. CASE \/ GivesUp \/ InitState \/ LinkSel \/ WanIp \/ NtpCheck
               \/ OvsInit \/ TryResolve \/ ReConnect \/ TryConnect
               \/ FastReconnect \/ FastReconnectWait \/ Connected \/ QuiesceOvs
      BY <3>2, Zenon DEF GivesUp, InitState, LinkSel, WanIp, NtpCheck, OvsInit, TryResolve,
                         ReConnect, TryConnect, FastReconnect, FastReconnectWait, Connected,
                         QuiesceOvs
    <3>3. CASE Resets \/ Elapse \/ Deliver \/ Answer \/ UplinkStep \/ UNCHANGED vars
      BY <3>3, Zenon DEF Resets, Elapse, Deliver, Answer, UplinkStep, UplinkFound, UplinkEcho,
                         UplinkLost, Switches, IpUp, IpDown, Renew, vars
    <3>4. CASE ServerStep
      BY <3>4, Zenon DEF ServerStep, ServerDrops, ServerConnects, SessionLost, RowDeleted,
                         RowInserted, Redirected, AddressChanged
    <3>. QED BY <3>1, <3>2, <3>3, <3>4, StepKinds, Zenon
  <2>. QED BY <1>1, <2>1, ConstantsAssumption DEF Fault, CountTypes
<1>. SUFFICES once' \in BOOLEAN /\ disconnects' \in 0 .. MaxDisconnects + 1 /\ resolves' \in Nat
  BY <1>2, Zenon DEF CountTypes
<1>3. CASE Connected
  <2>1. /\ once' = (once \/ changed) /\ disconnects' \in {0, disconnects} /\ resolves' = resolves
    BY <1>3, Zenon DEF Connected
  <2>2. (once \/ changed) \in BOOLEAN
    BY Zenon
  <2>3. once' \in BOOLEAN
    BY <2>1, <2>2, Zenon
  <2>. QED BY <1>1, <2>1, <2>3, ConstantsAssumption DEF CountTypes
<1>4. CASE TryResolve
  <2>1. /\ once' = once /\ disconnects' = disconnects
        /\ resolves' \in {0, resolves, resolves + 1}
    BY <1>4, Zenon DEF TryResolve
  <2>. QED BY <1>1, <2>1 DEF CountTypes
<1>5. CASE QuiesceOvs
  <2> DEFINE n == Counted(IF changed THEN disconnects + 1 ELSE disconnects)
  <2>1. n \in 0 .. MaxDisconnects + 1
    BY <1>1, ConstantsAssumption DEF Counted, CountTypes
  <2>2. /\ once' = once /\ resolves' = resolves
        /\ disconnects' \in {0, n} \/ (n + 1 <= MaxDisconnects /\ disconnects' = n + 1)
    BY <1>5, Zenon DEF QuiesceOvs
  <2>. HIDE DEF n
  <2>. QED BY <1>1, <2>1, <2>2, ConstantsAssumption DEF CountTypes
<1>6. CASE InitState \/ OvsInit \/ Resets
  <2>1. once' \in {once, FALSE} /\ disconnects' \in {0, disconnects} /\ resolves' \in {0, resolves}
    BY <1>6, Zenon DEF InitState, OvsInit, Resets, Reset
  <2>2. once' \in BOOLEAN
    BY <1>1, <2>1, Zenon DEF CountTypes
  <2>. QED BY <1>1, <2>1, <2>2, ConstantsAssumption DEF CountTypes
<1>7. CASE \/ \E r : BeginPass(r)
           \/ GivesUp \/ LinkSel \/ WanIp \/ NtpCheck \/ ReConnect \/ TryConnect
           \/ FastReconnect \/ FastReconnectWait
           \/ Elapse \/ Deliver \/ Answer \/ UplinkStep \/ ServerStep \/ UNCHANGED vars
  <2>1. UNCHANGED <<once, disconnects, resolves>>
    <3>1. CASE \/ \E r : BeginPass(r)
               \/ GivesUp \/ LinkSel \/ WanIp \/ NtpCheck \/ ReConnect \/ TryConnect
               \/ FastReconnect \/ FastReconnectWait
               \/ Elapse \/ Deliver \/ Answer \/ UNCHANGED vars
      BY <3>1, Zenon DEF BeginPass, GivesUp, LinkSel, WanIp, NtpCheck, ReConnect, TryConnect,
                         FastReconnect, FastReconnectWait, Elapse, Deliver, Answer, counts, vars
    <3>2. CASE UplinkStep \/ ServerStep
      BY <3>2, Zenon DEF UplinkStep, UplinkFound, UplinkEcho, UplinkLost, Switches, IpUp,
                         IpDown, Renew, UplinkRest, ServerStep, ServerDrops, ServerConnects,
                         SessionLost, RowDeleted, RowInserted, Redirected, AddressChanged,
                         WriteAwlan, ServerRest, counts
    <3>. QED BY <1>7, <3>1, <3>2, Zenon
  <2>. QED BY <1>1, <2>1, Zenon DEF CountTypes
<1>. QED BY <1>3, <1>4, <1>5, <1>6, <1>7, StepKinds, Zenon

(***************************************************************************)
(* The first update in the inbox, and the ones behind it.                  *)
(***************************************************************************)
LEMMA InboxParts ==
    ASSUME inbox \in Seq(UpdateType), inbox # <<>>
    PROVE  /\ Head(inbox) \in UpdateType /\ Tail(inbox) \in Seq(UpdateType)
           /\ Head(inbox).table = "Manager" => Head(inbox).row \in RowType
           /\ Head(inbox).table = "AWLAN" =>
                  Head(inbox).dest \in Dests /\ Head(inbox).host \in AnyHost
<1> DEFINE m == Head(inbox)
<1>1. m \in UpdateType /\ Tail(inbox) \in Seq(UpdateType)
  OBVIOUS
<1>. HIDE DEF m
<1>2. /\ m.table = "Manager" => m.row \in RowType
      /\ m.table = "AWLAN" => m.dest \in Dests /\ m.host \in AnyHost
  BY <1>1, Zenon DEF UpdateType
<1>. QED BY <1>1, <1>2, Zenon DEF m

(***************************************************************************)
(* What CM knows of the row changes only when it reads an update, and at a *)
(* restart.                                                                *)
(***************************************************************************)
LEMMA ViewChanges ==
    ASSUME [Next]_vars
    PROVE  Deliver \/ Resets \/ UNCHANGED view
<1>1. CASE \/ \E r : BeginPass(r)
           \/ GivesUp \/ InitState \/ LinkSel \/ WanIp \/ NtpCheck
           \/ OvsInit \/ TryResolve \/ ReConnect \/ TryConnect
           \/ FastReconnect \/ FastReconnectWait \/ Connected \/ QuiesceOvs
  BY <1>1, Zenon DEF BeginPass, GivesUp, InitState, LinkSel, WanIp, NtpCheck, OvsInit, TryResolve,
                     ReConnect, TryConnect, FastReconnect, FastReconnectWait, Connected,
                     QuiesceOvs
<1>2. CASE Elapse \/ Answer \/ UplinkStep \/ ServerStep \/ UNCHANGED vars
  BY <1>2, Zenon DEF Elapse, Answer, UplinkStep, UplinkFound, UplinkEcho, UplinkLost, Switches,
                     IpUp, IpDown, Renew, UplinkRest, ServerStep, ServerDrops, ServerConnects,
                     SessionLost, RowDeleted, RowInserted, Redirected, AddressChanged,
                     WriteAwlan, ServerRest, vars
<1>. QED BY <1>1, <1>2, StepKinds, Zenon

ViewTypes ==
    connected \in BOOLEAN /\ target \in Targets /\ have \subseteq {"awlan", "manager"}

(***************************************************************************)
(* A step keeps the types of what CM knows.                                *)
(***************************************************************************)
LEMMA ViewStep ==
    ASSUME TypeOK, [Next]_vars
    PROVE  ViewTypes'
<1>1. ViewTypes /\ inbox \in Seq(UpdateType)
  BY Zenon DEF TypeOK, ViewTypes
<1>2. CASE Deliver
  <2> DEFINE m == Head(inbox)
  <2>1. /\ m.table = "Manager" => m.row \in RowType
        /\ \/ /\ m.table = "Manager" /\ have' = have \cup {"manager"}
              /\ connected' = m.row.up /\ target' = m.row.target
           \/ have' = have \ {"manager"} /\ connected' = FALSE /\ target' = target
           \/ have' = have \cup {"awlan"} /\ connected' = connected /\ target' = target
    <3>1. inbox # <<>>
      BY <1>2, Zenon DEF Deliver
    <3>2. \/ /\ m.table = "Manager" /\ have' = have \cup {"manager"}
             /\ connected' = m.row.up /\ target' = m.row.target
          \/ have' = have \ {"manager"} /\ connected' = FALSE /\ target' = target
          \/ have' = have \cup {"awlan"} /\ connected' = connected /\ target' = target
      BY <1>2, Zenon DEF Deliver
    <3>. QED BY <1>1, <3>1, <3>2, InboxParts, Zenon
  <2>. HIDE DEF m
  <2>. QED BY <1>1, <2>1, Zenon DEF ViewTypes, RowType
<1>3. CASE Resets
  BY <1>3, RowValues, Zenon DEF Resets, Reset, ViewTypes
<1>4. CASE UNCHANGED view
  BY <1>1, <1>4, Zenon DEF view, ViewTypes
<1>. QED BY <1>2, <1>3, <1>4, ViewChanges, Zenon
-----------------------------------------------------------------------------
(* Types of the server.                                                    *)

(***************************************************************************)
(* The lists of every address are good, and so are those that              *)
(* cm2_move_next_target_addr() is about to step in.                        *)
(***************************************************************************)
LEMMA ListsGood ==
    ASSUME ListInv
    PROVE  /\ \A d \in Dests : Good(lists[d])
           /\ dest \in Dests /\ addr[dest] \in AddrType /\ Good(lists[dest])
           /\ Trying => /\ Good(MovedList(addr[dest], lists[dest]))
                        /\ MovedAddr(addr[dest]) \in AddrType
<1>1. /\ \A d \in Dests : Good(lists[d])
      /\ dest \in Dests /\ addr[dest] \in AddrType /\ Good(lists[dest])
  BY Zenon DEF ListInv, ListsOK, TypeOK, Good
<1>2. ASSUME Trying
      PROVE  /\ Good(MovedList(addr[dest], lists[dest]))
             /\ MovedAddr(addr[dest]) \in AddrType
  <2>1. Steppable(lists[dest][PrefFam(addr[dest])])
    BY <1>2, Zenon DEF ListInv, TriedOK
  <2>. QED BY <1>1, <2>1, MovedGood, Zenon
<1>. QED BY <1>1, <1>2, Zenon

(***************************************************************************)
(* A target is written from good lists, in TRY_CONNECT or FAST_RECONNECT.  *)
(***************************************************************************)
Pair(a, ls) ==
    \/ a = addr[dest] /\ ls = lists[dest]
    \/ Trying /\ a = MovedAddr(addr[dest]) /\ ls = MovedList(addr[dest], lists[dest])

Attempts ==
    \E a, ls, c : Pair(a, ls) /\ (WriteTarget(a, ls, c) \/ WriteFails(a, ls, c))

(***************************************************************************)
(* The address and the lists an attempt starts from are well formed.       *)
(***************************************************************************)
LEMMA PairGood ==
    ASSUME ListInv, NEW a, NEW ls, Pair(a, ls)
    PROVE  a \in AddrType /\ Good(ls)
BY ListsGood, Zenon DEF Pair

(***************************************************************************)
(* What the code of the states does to the row and the inbox.              *)
(***************************************************************************)
LEMMA ServerWrites ==
    ASSUME \/ InitState \/ LinkSel \/ WanIp \/ NtpCheck
           \/ OvsInit \/ TryResolve \/ ReConnect \/ TryConnect
           \/ FastReconnect \/ FastReconnectWait \/ Connected \/ QuiesceOvs
    PROVE  \/ UNCHANGED server
           \/ \E c : Commit(Base(c))
           \/ SetTarget(NoTarget)
           \/ ForgetManager /\ UNCHANGED <<row, session>>
           \/ Attempts
<1>1. CASE InitState \/ LinkSel \/ WanIp \/ NtpCheck \/ TryResolve \/ FastReconnectWait \/ Connected
  BY <1>1, Zenon DEF InitState, LinkSel, WanIp, NtpCheck, TryResolve, FastReconnectWait, Connected
<1>2. CASE OvsInit
  BY <1>2, Zenon DEF OvsInit
<1>3. CASE ReConnect \/ QuiesceOvs
  BY <1>3, Zenon DEF ReConnect, QuiesceOvs, ClearOnEntry
<1>4. CASE TryConnect
  <2>1. \/ UNCHANGED server
        \/ WriteFails(addr[dest], lists[dest], FALSE) \/ WriteTarget(addr[dest], lists[dest], FALSE)
        \/ /\ Trying
           /\ \/ WriteFails(MovedAddr(addr[dest]), MovedList(addr[dest], lists[dest]), FALSE)
              \/ WriteTarget(MovedAddr(addr[dest]), MovedList(addr[dest], lists[dest]), FALSE)
    BY <1>4, Zenon DEF TryConnect, Running, Trying
  <2>. QED BY <2>1, Zenon DEF Attempts, Pair
<1>5. CASE FastReconnect
  BY <1>5, Zenon DEF FastReconnect, Attempts, Pair, ClearOnEntry
<1>. QED BY <1>1, <1>2, <1>3, <1>4, <1>5, Zenon

(***************************************************************************)
(* Each of these keeps the types of the server.                            *)
(***************************************************************************)
LEMMA WriteTypes ==
    ASSUME ListInv,
           \/ UNCHANGED server
           \/ \E c : Commit(Base(c))
           \/ SetTarget(NoTarget)
           \/ ForgetManager /\ UNCHANGED <<row, session>>
           \/ Attempts
    PROVE  ServerTypes'
<1>1. ServerTypes
  BY Zenon DEF ListInv, TypeOK, ServerTypes
<1>2. \A c : Base(c) \in RowAndInbox
  BY <1>1, BaseType, Zenon DEF ServerTypes
<1>3. CASE UNCHANGED server
  BY <1>1, <1>3, Zenon DEF ServerTypes, server
<1>4. CASE \E c : Commit(Base(c))
  BY <1>1, <1>2, <1>4, CommitType, Zenon
<1>5. CASE SetTarget(NoTarget)
  <2>1. Put(Base(FALSE), NoTarget) \in RowAndInbox
    BY <1>2, PutType, RowValues, Zenon
  <2>. QED BY <1>1, <1>5, <2>1, CommitType, Zenon DEF SetTarget
<1>6. CASE ForgetManager /\ UNCHANGED <<row, session>>
  <2>1. AwlanUpdate("MANAGER", NoHost) \in UpdateType
    BY RowValues, Zenon DEF Dests, AnyHost
  <2>2. Append(inbox, AwlanUpdate("MANAGER", NoHost)) \in Seq(UpdateType)
    BY <1>1, <2>1 DEF ServerTypes
  <2>3. inbox' \in Seq(UpdateType)
    BY <1>1, <1>6, <2>2, Zenon DEF ForgetManager, ServerTypes
  <2>4. awlan' \in [Dests -> AnyHost]
    BY <1>1, <1>6, Zenon DEF ForgetManager, ServerTypes, AnyHost
  <2>. QED BY <1>1, <1>6, <2>3, <2>4, Zenon DEF ServerTypes
<1>7. CASE Attempts
  <2>1. PICK a, ls, c : Pair(a, ls) /\ (WriteTarget(a, ls, c) \/ WriteFails(a, ls, c))
    BY <1>7, Zenon DEF Attempts
  <2>2. a \in AddrType /\ ls \in [Families -> ListType]
    BY <2>1, PairGood, Zenon DEF Good
  <2>3. CASE WriteFails(a, ls, c)
    BY <1>1, <1>2, <2>3, CommitType, Zenon DEF WriteFails
  <2>4. CASE WriteTarget(a, ls, c)
    <3> DEFINE t == TargetOf(Picked(a, ls), ls)
    <3>1. Offers(ls) # {} /\ Commit(Put(Base(c), t))
      BY <2>4, Zenon DEF WriteTarget, CanWrite
    <3>2. t \in Targets
      BY <2>2, <3>1, WrittenTarget, Zenon
    <3>. HIDE DEF t
    <3>3. Put(Base(c), t) \in RowAndInbox
      BY <1>2, <3>2, PutType, Zenon
    <3>. QED BY <1>1, <3>1, <3>3, CommitType, Zenon
  <2>. QED BY <2>1, <2>3, <2>4, Zenon
<1>. QED BY <1>3, <1>4, <1>5, <1>6, <1>7, Zenon
(***************************************************************************)
(* A row with one field changed is a row, and reporting it keeps the types *)
(* of the inbox.                                                           *)
(***************************************************************************)
LEMMA ReportTypes ==
    ASSUME ServerTypes, NEW r \in RowType, Report(r)
    PROVE  row' \in RowType /\ inbox' \in Seq(UpdateType)
BY RowValues DEF ServerTypes, Report

(***************************************************************************)
(* What the server does on its own keeps its types.                        *)
(***************************************************************************)
LEMMA ServerStepTypes ==
    ASSUME ServerTypes, ServerStep
    PROVE  ServerTypes'
<1>1. \A b \in BOOLEAN : [row EXCEPT !.up = b] \in RowType
  BY Zenon DEF ServerTypes, RowType
<1>2. CASE ServerDrops \/ SessionLost \/ ServerConnects \/ RowDeleted \/ RowInserted
  <2>1. /\ session' \in {NoTarget, row.target, session} /\ awlan' = awlan
        /\ \E r \in {[row EXCEPT !.up = FALSE], [row EXCEPT !.up = TRUE],
                     [EmptyRow EXCEPT !.exists = FALSE], EmptyRow} : Report(r)
    BY <1>2, Zenon DEF ServerDrops, SessionLost, ServerConnects, RowDeleted, RowInserted,
                       SessionDown
  <2>2. \E r \in RowType : Report(r)
    BY <1>1, <2>1, RowValues, Zenon
  <2>3. row' \in RowType /\ inbox' \in Seq(UpdateType)
    BY <2>2, ReportTypes, Zenon
  <2>. QED BY <2>1, <2>3, RowValues, Zenon DEF ServerTypes, RowType
<1>3. CASE Redirected \/ AddressChanged
  <2>1. \E d \in Dests, h \in AnyHost : WriteAwlan(d, h)
    BY <1>3, Zenon DEF Redirected, AddressChanged, Dests, AnyHost, Hosts
  <2>2. PICK d \in Dests, h \in AnyHost : WriteAwlan(d, h)
    BY <2>1, Zenon
  <2>3. AwlanUpdate(d, h) \in UpdateType
    BY RowValues, Zenon
  <2>. QED BY <2>2, <2>3 DEF ServerTypes, WriteAwlan
<1>. QED BY <1>2, <1>3, Zenon DEF ServerStep

(***************************************************************************)
(* A step keeps the types of the server.                                   *)
(***************************************************************************)
LEMMA ServerTypesStep ==
    ASSUME ListInv, [Next]_vars
    PROVE  ServerTypes'
<1>1. ServerTypes
  BY Zenon DEF ListInv, TypeOK, ServerTypes
<1>2. CASE \/ InitState \/ LinkSel \/ WanIp \/ NtpCheck
           \/ OvsInit \/ TryResolve \/ ReConnect \/ TryConnect
           \/ FastReconnect \/ FastReconnectWait \/ Connected \/ QuiesceOvs
  BY <1>2, ServerWrites, WriteTypes, Zenon
<1>3. CASE \/ \E r : BeginPass(r)
           \/ GivesUp \/ Elapse \/ Answer \/ UplinkStep \/ UNCHANGED vars
  <2>1. UNCHANGED server
    BY <1>3, Zenon DEF BeginPass, GivesUp, Elapse, Answer, UplinkStep, UplinkFound, UplinkEcho,
                       UplinkLost, Switches, IpUp, IpDown, Renew, UplinkRest, vars
  <2>. QED BY <1>1, <2>1, Zenon DEF ServerTypes, server
<1>4. CASE Deliver
  <2>1. inbox # <<>> /\ inbox' = Tail(inbox) /\ UNCHANGED <<row, session, awlan>>
    BY <1>4, Zenon DEF Deliver
  <2>. QED BY <1>1, <2>1, InboxParts, Zenon DEF ServerTypes
<1>5. CASE Resets
  <2>1. PICK r \in RedirHosts :
            /\ awlan' = [d \in Dests |-> IF d = "REDIR" THEN r ELSE NoHost]
            /\ inbox' = <<AwlanUpdate("REDIR", r), ManagerUpdate(EmptyRow)>>
    BY <1>5, Zenon DEF Resets, Reset
  <2>2. AwlanUpdate("REDIR", r) \in UpdateType /\ ManagerUpdate(EmptyRow) \in UpdateType
    BY RowValues, Zenon DEF Dests, AnyHost, Hosts
  <2>3. inbox' \in Seq(UpdateType)
    BY <2>1, <2>2
  <2>4. awlan' \in [Dests -> AnyHost]
    BY <2>1, Zenon DEF AnyHost, Hosts
  <2>5. row' = EmptyRow /\ session' = NoTarget
    BY <1>5, Zenon DEF Resets, Reset
  <2>. QED BY <2>3, <2>4, <2>5, RowValues, Zenon DEF ServerTypes
<1>6. CASE ServerStep
  BY <1>1, <1>6, ServerStepTypes, Zenon
<1>. QED BY <1>2, <1>3, <1>4, <1>5, <1>6, StepKinds, Zenon

-----------------------------------------------------------------------------
(* The addresses and their lists.                                          *)

NamesOK ==
    /\ addr \in [Dests -> AddrType] /\ lists \in [Dests -> [Families -> ListType]]
    /\ ListsOK

(***************************************************************************)
(* New good lists for one destination.                                     *)
(***************************************************************************)
LEMMA NewLists ==
    ASSUME NamesOK, NEW d \in Dests, NEW ls, Good(ls),
           addr' \in [Dests -> AddrType], lists' = [lists EXCEPT ![d] = ls]
    PROVE  NamesOK'
<1>1. lists' \in [Dests -> [Families -> ListType]]
  BY Zenon DEF NamesOK, Good
<1>2. \A e \in Dests, f \in Families : ListOK(lists'[e][f])
  BY Zenon DEF NamesOK, Good, ListsOK
<1>. QED BY <1>1, <1>2, Zenon DEF NamesOK, ListsOK

(***************************************************************************)
(* An attempt to write a target leaves the names good; when it succeeds,   *)
(* the address written is one that can be stepped over.                    *)
(***************************************************************************)
LEMMA AttemptNames ==
    ASSUME ListInv, NEW a, NEW ls, NEW c, Pair(a, ls),
           WriteTarget(a, ls, c) \/ WriteFails(a, ls, c)
    PROVE  /\ NamesOK'
           /\ WriteTarget(a, ls, c) => Steppable(lists'[dest][PrefFam(addr'[dest])])
<1>1. NamesOK /\ dest \in Dests
  BY Zenon DEF ListInv, TypeOK, NamesOK
<1>2. a \in AddrType /\ Good(ls)
  BY PairGood, Zenon
<1>3. /\ lists' = [lists EXCEPT ![dest] = ls]
      /\ \E b \in {a, Picked(a, ls)} : addr' = [addr EXCEPT ![dest] = b]
  BY Zenon DEF WriteTarget, WriteFails
<1>4. Picked(a, ls) \in AddrType
  BY <1>2, PickedOffers, Zenon
<1>5. addr' \in [Dests -> AddrType]
  BY <1>1, <1>2, <1>3, <1>4, Zenon DEF NamesOK
<1>6. NamesOK'
  BY <1>1, <1>2, <1>3, <1>5, NewLists, Zenon
<1>7. ASSUME WriteTarget(a, ls, c)
      PROVE  Steppable(lists'[dest][PrefFam(addr'[dest])])
  <2> DEFINE f == PrefFam(Picked(a, ls))
  <2>1. Offers(ls) # {} /\ addr' = [addr EXCEPT ![dest] = Picked(a, ls)]
    BY <1>7, Zenon DEF WriteTarget, CanWrite
  <2>2. f \in Families /\ ls[f].host # NoHost /\ ls[f].idx < ls[f].len
    BY <1>2, <2>1, WrittenTarget, Zenon DEF Good
  <2>3. addr'[dest] = Picked(a, ls) /\ lists'[dest] = ls
    BY <1>1, <1>3, <2>1, Zenon DEF NamesOK
  <2>. HIDE DEF f
  <2>4. Steppable(ls[f])
    BY <1>2, <2>2, Zenon DEF Good, ListOK, Steppable
  <2>. QED BY <2>3, <2>4, Zenon DEF f
<1>. QED BY <1>6, <1>7, Zenon
(***************************************************************************)
(* The steps that leave the names alone.                                   *)
(***************************************************************************)
LEMMA NamesKept ==
    ASSUME \/ GivesUp \/ InitState \/ LinkSel \/ WanIp \/ NtpCheck \/ ReConnect \/ Connected
           \/ QuiesceOvs \/ Elapse \/ UplinkStep \/ ServerStep \/ UNCHANGED vars
    PROVE  addr' = addr /\ lists' = lists
<1>1. CASE \/ GivesUp \/ InitState \/ LinkSel \/ WanIp \/ NtpCheck \/ ReConnect \/ Connected
           \/ QuiesceOvs \/ Elapse \/ UNCHANGED vars
  BY <1>1, Zenon DEF GivesUp, InitState, LinkSel, WanIp, NtpCheck, ReConnect, Connected,
                     QuiesceOvs, Elapse, names, vars
<1>2. CASE UplinkStep \/ ServerStep
  BY <1>2, Zenon DEF UplinkStep, UplinkFound, UplinkEcho, UplinkLost, Switches, IpUp, IpDown,
                     Renew, UplinkRest, ServerStep, ServerDrops, ServerConnects, SessionLost,
                     RowDeleted, RowInserted, Redirected, AddressChanged, WriteAwlan,
                     ServerRest, names
<1>. QED BY <1>1, <1>2, Zenon

(***************************************************************************)
(* Connecting changes the names only when it writes, or fails to write, a  *)
(* target.                                                                 *)
(***************************************************************************)
LEMMA ConnectNames ==
    ASSUME TryConnect \/ FastReconnect
    PROVE  (addr' = addr /\ lists' = lists) \/ Attempts
<1>1. CASE TryConnect
  <2>1. \/ addr' = addr /\ lists' = lists
        \/ WriteFails(addr[dest], lists[dest], FALSE)
        \/ WriteTarget(addr[dest], lists[dest], FALSE)
        \/ /\ Trying
           /\ \/ WriteFails(MovedAddr(addr[dest]), MovedList(addr[dest], lists[dest]), FALSE)
              \/ WriteTarget(MovedAddr(addr[dest]), MovedList(addr[dest], lists[dest]), FALSE)
    BY <1>1, Zenon DEF TryConnect, Running, Trying, names
  <2>. QED BY <2>1, Zenon DEF Attempts, Pair
<1>2. CASE FastReconnect
  BY <1>2, Zenon DEF FastReconnect, Attempts, Pair, names
<1>. QED BY <1>1, <1>2, Zenon

(***************************************************************************)
(* What TryResolve does to the lists.                                      *)
(***************************************************************************)
LEMMA ResolveNames ==
    ASSUME ListInv, TryResolve
    PROVE  NamesOK'
<1>1. NamesOK /\ dest \in Dests
  BY Zenon DEF ListInv, TypeOK, NamesOK
<1>2. \A d \in Dests : Good(lists[d])
  BY ListsGood, Zenon
<1> DEFINE ls == [lists EXCEPT ![dest] = Queried(dest)]
<1>3. addr' \in {addr, Asked(dest)} /\ lists' \in {lists, Stopped(lists), ls, Stopped(ls)}
  <2>1. Refused(dest) \in {addr, Asked(dest)}
    BY Zenon DEF Refused
  <2>. QED BY <2>1, Zenon DEF TryResolve
<1>4. addr' \in [Dests -> AddrType]
  <2>1. Asked(dest) = [addr EXCEPT ![dest] = [addr[dest] EXCEPT !.updated = FALSE]]
    BY <1>1, Zenon DEF Asked, NamesOK
  <2>2. [addr[dest] EXCEPT !.updated = FALSE] \in AddrType
    BY <1>1, Zenon DEF NamesOK, AddrType
  <2>. QED BY <1>1, <1>3, <2>1, <2>2, Zenon DEF NamesOK
<1>5. Good(Queried(dest))
  BY <1>1, <1>2, QueriedGood, Zenon DEF NamesOK, AddrType
<1>6. ls \in [Dests -> [Families -> ListType]] /\ \A d \in Dests : Good(ls[d])
  BY <1>1, <1>2, <1>5, Zenon DEF NamesOK, Good
<1>. HIDE DEF ls
<1>7. /\ lists' \in [Dests -> [Families -> ListType]]
      /\ \A d \in Dests : Good(lists'[d])
  BY <1>1, <1>2, <1>3, <1>6, StoppedGood DEF NamesOK
<1>. QED BY <1>4, <1>7, Zenon DEF NamesOK, ListsOK, Good

(***************************************************************************)
(* What an answer leaves in the list: the addresses of the name asked for, *)
(* or what was there.                                                      *)
(***************************************************************************)
Answered(d, f, st, h, n) ==
    lists' = [lists EXCEPT ![d][f] =
                 [st |-> st, ask |-> NoHost, host |-> h, len |-> n, idx |-> 0]]

AnswerKind(d, f, st, h, n) ==
    \/ st = "RESOLVED" /\ h = lists[d][f].ask /\ (n = 0 \/ n \in Answers)
    \/ st = "FINISHED" /\ h = lists[d][f].host /\ n = lists[d][f].len

(***************************************************************************)
(* An answer ends one query: with addresses, with none, or with a failure  *)
(* that leaves the list as it was.                                         *)
(***************************************************************************)
LEMMA AnswerIs ==
    ASSUME Answer
    PROVE  \E d \in Dests, f \in Families :
               /\ lists[d][f].st = "IN_PROGRESS"
               /\ \E n, st, h : AnswerKind(d, f, st, h, n) /\ Answered(d, f, st, h, n)
<1>1. PICK d \in Dests, f \in Families :
          /\ lists[d][f].st = "IN_PROGRESS"
          /\ \/ \E n \in Answers : Answered(d, f, "RESOLVED", lists[d][f].ask, n)
             \/ Answered(d, f, "RESOLVED", lists[d][f].ask, 0)
             \/ Answered(d, f, "FINISHED", lists[d][f].host, lists[d][f].len)
  BY Zenon DEF Answer, Answered
<1>2. \E n, st, h : AnswerKind(d, f, st, h, n) /\ Answered(d, f, st, h, n)
  BY <1>1, Zenon DEF AnswerKind
<1>. QED BY <1>1, <1>2, Zenon

(***************************************************************************)
(* A step keeps the names good.                                            *)
(***************************************************************************)
LEMMA NamesStep ==
    ASSUME ListInv, [Next]_vars
    PROVE  NamesOK'
<1>1. NamesOK /\ dest \in Dests
  BY Zenon DEF ListInv, TypeOK, NamesOK
<1>2. \A d \in Dests : Good(lists[d])
  BY ListsGood, Zenon
<1>3. ASSUME addr' = addr, lists' = lists PROVE NamesOK'
  BY <1>1, <1>3, Zenon DEF NamesOK, ListsOK
<1>4. ASSUME NEW r, BeginPass(r) PROVE NamesOK'
  <2>1. /\ lists' = lists
        /\ \/ addr' = addr
           \/ addr' = [addr EXCEPT !["REDIR"].updated = FALSE]
           \/ addr' = [addr EXCEPT !["MANAGER"].pref6 = addr["REDIR"].pref6]
    BY <1>4, BeginIs, Zenon DEF BeginEffect
  <2>2. addr["REDIR"] \in AddrType /\ addr["MANAGER"] \in AddrType
    BY <1>1, Zenon DEF NamesOK, Dests
  <2>3. /\ [addr["REDIR"] EXCEPT !.updated = FALSE] \in AddrType
        /\ [addr["MANAGER"] EXCEPT !.pref6 = addr["REDIR"].pref6] \in AddrType
    BY <2>2, Zenon DEF AddrType
  <2>4. \/ addr' = addr
        \/ addr' = [addr EXCEPT !["REDIR"] = [addr["REDIR"] EXCEPT !.updated = FALSE]]
        \/ addr' = [addr EXCEPT !["MANAGER"] = [addr["MANAGER"] EXCEPT !.pref6 = addr["REDIR"].pref6]]
    BY <2>1, Zenon
  <2>5. addr' \in [Dests -> AddrType]
    BY <1>1, <2>3, <2>4, Zenon DEF NamesOK, Dests
  <2>. QED BY <1>1, <2>1, <2>5, Zenon DEF NamesOK, ListsOK
<1>5. CASE OvsInit
  <2>1. CASE addr' = addr /\ lists' = lists
    BY <1>3, <2>1, Zenon
  <2>2. CASE ~(addr' = addr /\ lists' = lists)
    <3>1. /\ addr' = [addr EXCEPT !["MANAGER"].host = NoHost, !["MANAGER"].updated = FALSE,
                                  !["REDIR"].pref6 = TRUE]
          /\ lists' = [lists EXCEPT !["MANAGER"] = FreedLists(@)]
      BY <1>5, <2>2, Zenon DEF OvsInit, names
    <3> DEFINE x == [addr["MANAGER"] EXCEPT !.host = NoHost]
               y == [x EXCEPT !.updated = FALSE]
               z == [addr["REDIR"] EXCEPT !.pref6 = TRUE]
               a1 == [addr EXCEPT !["MANAGER"] = x]
               a2 == [a1 EXCEPT !["MANAGER"] = y]
    <3>2. "MANAGER" \in Dests /\ "REDIR" \in Dests
      BY Zenon DEF Dests
    <3>3. x \in AddrType
      BY <1>1, <3>2, Zenon DEF NamesOK, AddrType, AnyHost
    <3>4. z \in AddrType
      BY <1>1, <3>2, Zenon DEF NamesOK, AddrType
    <3>5. addr' = [a2 EXCEPT !["REDIR"] = z]
      <4>1. a1["MANAGER"] = x
        BY <1>1, <3>2, Zenon DEF NamesOK
      <4>2. a2["REDIR"] = addr["REDIR"]
        BY <1>1, <3>2, Zenon DEF NamesOK
      <4>3. addr' = [[[addr EXCEPT !["MANAGER"].host = NoHost] EXCEPT !["MANAGER"].updated = FALSE]
                        EXCEPT !["REDIR"].pref6 = TRUE]
        BY <3>1, Zenon
      <4>. HIDE DEF x
      <4>4. [addr EXCEPT !["MANAGER"].host = NoHost] = a1
        BY Zenon DEF x
      <4>5. [a1 EXCEPT !["MANAGER"].updated = FALSE] = [a1 EXCEPT !["MANAGER"] = [a1["MANAGER"] EXCEPT !.updated = FALSE]]
        BY Zenon
      <4>. HIDE DEF a1
      <4>6. [a1 EXCEPT !["MANAGER"].updated = FALSE] = a2
        BY <4>1, <4>5, Zenon
      <4>. HIDE DEF a2
      <4>. QED BY <4>2, <4>3, <4>4, <4>6, Zenon
    <3>6. y \in AddrType
      BY <3>3, Zenon DEF AddrType
    <3>. HIDE DEF x, y, z
    <3>7. a1 \in [Dests -> AddrType]
      BY <1>1, <3>3, Zenon DEF NamesOK
    <3>. HIDE DEF a1
    <3>8. a2 \in [Dests -> AddrType]
      BY <3>6, <3>7, Zenon
    <3>. HIDE DEF a2
    <3>9. addr' \in [Dests -> AddrType]
      BY <3>4, <3>5, <3>8, Zenon
    <3>10. Good(FreedLists(lists["MANAGER"]))
      BY <1>2, <3>2, FreedGood, Zenon
    <3>11. lists' = [lists EXCEPT !["MANAGER"] = FreedLists(lists["MANAGER"])]
      BY <3>1, Zenon
    <3>. QED BY <1>1, <3>2, <3>9, <3>10, <3>11, NewLists, Zenon
  <2>. QED BY <2>1, <2>2, Zenon
<1>6. CASE TryResolve
  BY <1>6, ResolveNames, Zenon
<1>7. CASE TryConnect \/ FastReconnect
  <2>1. (addr' = addr /\ lists' = lists) \/ Attempts
    BY <1>7, ConnectNames, Zenon
  <2>2. CASE Attempts
    BY <2>2, AttemptNames, Zenon DEF Attempts
  <2>. QED BY <1>3, <2>1, <2>2, Zenon
<1>8. CASE FastReconnectWait
  <2>1. \/ addr' = addr /\ lists' = lists
        \/ /\ Trying
           /\ addr' = [addr EXCEPT ![dest] = MovedAddr(addr[dest])]
           /\ lists' = [lists EXCEPT ![dest] = MovedList(addr[dest], lists[dest])]
    BY <1>8, Zenon DEF FastReconnectWait, Running, Trying, names
  <2>2. CASE /\ Trying
             /\ addr' = [addr EXCEPT ![dest] = MovedAddr(addr[dest])]
             /\ lists' = [lists EXCEPT ![dest] = MovedList(addr[dest], lists[dest])]
    <3>1. Good(MovedList(addr[dest], lists[dest])) /\ MovedAddr(addr[dest]) \in AddrType
      BY <2>2, ListsGood, Zenon
    <3>2. addr' \in [Dests -> AddrType]
      BY <1>1, <2>2, <3>1, Zenon DEF NamesOK
    <3>. QED BY <1>1, <2>2, <3>1, <3>2, NewLists, Zenon
  <2>. QED BY <1>3, <2>1, <2>2, Zenon
<1>9. CASE Resets
  <2>1. /\ addr' = [d \in Dests |-> NoAddr]
        /\ lists' = [d \in Dests |-> [f \in Families |-> NoList]]
    BY <1>9, Zenon DEF Resets, Reset
  <2>2. NoAddr \in AddrType /\ NoList \in ListType /\ ListOK(NoList)
    BY ConstantsAssumption DEF NoAddr, NoList, AddrType, ListType, AnyHost, ResolveStates, ListOK
  <2>. HIDE DEF NoAddr, NoList
  <2>. QED BY <2>1, <2>2, Zenon DEF NamesOK, ListsOK
<1>10. CASE Deliver
  <2> DEFINE m == Head(inbox)
  <2>1. CASE addr' = addr /\ lists' = lists
    BY <1>3, <2>1, Zenon
  <2>2. CASE ~(addr' = addr /\ lists' = lists)
    <3>1. /\ inbox # <<>> /\ m.table = "AWLAN"
          /\ addr' = [addr EXCEPT ![m.dest].host = m.host,
                                  ![m.dest].updated = (m.host # NoHost)]
          /\ lists' = [lists EXCEPT ![m.dest] = FreedLists(@)]
      BY <1>10, <2>2, Zenon DEF Deliver, names
    <3>2. m.dest \in Dests /\ m.host \in AnyHost
      BY <3>1, InboxParts, Zenon DEF ListInv, TypeOK
    <3> DEFINE e == m.dest
               h == m.host
               u == (m.host # NoHost)
               x == [addr[e] EXCEPT !.host = h]
               y == [x EXCEPT !.updated = u]
               a1 == [addr EXCEPT ![e] = x]
    <3>3. u \in BOOLEAN
      BY Zenon
    <3>4. /\ addr' = [addr EXCEPT ![e].host = h, ![e].updated = u]
          /\ lists' = [lists EXCEPT ![e] = FreedLists(lists[e])]
          /\ e \in Dests /\ h \in AnyHost
      BY <3>1, <3>2, Zenon
    <3>. HIDE DEF e, h, u, m
    <3>5. x \in AddrType
      BY <1>1, <3>4, Zenon DEF NamesOK, AddrType
    <3>6. addr' = [addr EXCEPT ![e] = y]
      BY <1>1, <3>4, Zenon DEF NamesOK
    <3>. HIDE DEF x
    <3>7. y \in AddrType
      BY <3>3, <3>5, Zenon DEF AddrType
    <3>. HIDE DEF y
    <3>8. addr' \in [Dests -> AddrType]
      BY <1>1, <3>6, <3>7, Zenon DEF NamesOK
    <3>9. Good(FreedLists(lists[e]))
      BY <1>2, <3>4, FreedGood, Zenon
    <3>. QED BY <1>1, <3>4, <3>8, <3>9, NewLists, Zenon
  <2>. QED BY <2>1, <2>2, Zenon
<1>11. CASE Answer
  <2>1. PICK d \in Dests, f \in Families :
            /\ lists[d][f].st = "IN_PROGRESS"
            /\ \E n, st, h : AnswerKind(d, f, st, h, n) /\ Answered(d, f, st, h, n)
    BY <1>11, AnswerIs, Zenon
  <2>9. PICK n, st, h : AnswerKind(d, f, st, h, n) /\ Answered(d, f, st, h, n)
    BY <2>1, Zenon
  <2>2. addr' = addr
    BY <1>11, Zenon DEF Answer
  <2> DEFINE l == [st |-> st, ask |-> NoHost, host |-> h, len |-> n, idx |-> 0]
             ls == [lists[d] EXCEPT ![f] = l]
  <2>3. lists[d][f] \in ListType
    BY <1>1, Zenon DEF NamesOK
  <2>4. n \in 0 .. MaxAddrs /\ h \in AnyHost
    <3>1. lists[d][f].len \in 0 .. MaxAddrs /\ {lists[d][f].ask, lists[d][f].host} \subseteq AnyHost
      BY <2>3, Zenon DEF ListType
    <3>2. 0 \in 0 .. MaxAddrs /\ \A k \in Answers : k \in 0 .. MaxAddrs
      BY ConstantsAssumption
    <3>3. /\ n = 0 \/ n \in Answers \/ n = lists[d][f].len
          /\ h \in {lists[d][f].ask, lists[d][f].host}
      BY <2>9, Zenon DEF AnswerKind
    <3>. QED BY <3>1, <3>2, <3>3, Zenon
  <2>5. l \in ListType /\ ListOK(l)
    BY SMTT(30), <2>4, <2>9, ConstantsAssumption
    DEF ListType, ListOK, AnyHost, ResolveStates, AnswerKind
  <2>6. lists' = [lists EXCEPT ![d][f] = l]
    BY <2>9, Zenon DEF Answered
  <2>. HIDE DEF l
  <2>7. Good(ls)
    BY <1>2, <2>5, Zenon DEF Good
  <2>8. lists' = [lists EXCEPT ![d] = ls]
    BY <1>1, <2>6, Zenon DEF NamesOK
  <2>. QED BY <1>1, <2>2, <2>7, <2>8, NewLists, Zenon DEF NamesOK
<1>. QED BY <1>3, <1>4, <1>5, <1>6, <1>7, <1>8, <1>9, <1>10, <1>11, StepKinds, NamesKept, Zenon
(***************************************************************************)
(* Only the code of TRY_CONNECT and FAST_RECONNECT gets to waiting for an  *)
(* address it has written.                                                 *)
(***************************************************************************)
LEMMA NotTrying ==
    ASSUME \/ InitState \/ LinkSel \/ WanIp \/ NtpCheck \/ OvsInit \/ TryResolve \/ ReConnect
           \/ Connected \/ QuiesceOvs
    PROVE  ~Trying'
<1>1. CASE InitState \/ LinkSel \/ WanIp \/ NtpCheck \/ QuiesceOvs
  <2>1. /\ state \in {"INIT", "LINK_SEL", "WAN_IP", "NTP_CHECK", "QUIESCE_OVS"}
        /\ \/ \E s \in {"LINK_SEL", "WAN_IP", "INIT", "NTP_CHECK", "QUIESCE_OVS",
                        "FAST_RECONNECT", OvsConnect} : state' = s
           \/ state' = state
    BY <1>1, Zenon DEF InitState, LinkSel, WanIp, NtpCheck, QuiesceOvs, CheckFailed,
                       RestartSkipped, RestartOvs, Running, Move, Rest, Return
  <2>2. OvsConnect \in {"OVS_INIT", "CONNECTED", "FAST_RECONNECT"}
    BY Zenon DEF OvsConnect
  <2>. QED BY <2>1, <2>2, Zenon DEF Trying
<1>2. CASE OvsInit \/ TryResolve \/ ReConnect \/ Connected
  <2>1. /\ state \in {"OVS_INIT", "TRY_RESOLVE", "RE_CONNECT", "CONNECTED"}
        /\ \/ state' \in {"LINK_SEL", "TRY_RESOLVE", "RE_CONNECT", "QUIESCE_OVS",
                          "FAST_RECONNECT"}
           \/ state' = "TRY_CONNECT" /\ changed' = TRUE
           \/ state' = state
    BY <1>2, Zenon DEF OvsInit, TryResolve, ReConnect, Connected, RestartOvs, Running, Move, Rest,
                       Return
  <2>. QED BY <2>1, Zenon DEF Trying
<1>. QED BY <1>1, <1>2, Zenon

(***************************************************************************)
(* A step keeps the list that is being tried one that can be stepped in.   *)
(***************************************************************************)
LEMMA TriedStep ==
    ASSUME ListInv, [Next]_vars
    PROVE  TriedOK'
<1>1. NamesOK /\ dest \in Dests /\ TriedOK
  BY Zenon DEF ListInv, TypeOK, NamesOK
<1>. SUFFICES ASSUME Trying' PROVE Steppable(lists'[dest'][PrefFam(addr'[dest'])])
  BY Zenon DEF TriedOK, Steppable, PrefFam
<1>2. ASSUME addr' = addr, lists' = lists, dest' = dest, Trying
      PROVE  Steppable(lists'[dest'][PrefFam(addr'[dest'])])
  BY <1>1, <1>2, Zenon DEF TriedOK
<1>3. ASSUME NEW r, BeginPass(r) PROVE Steppable(lists'[dest'][PrefFam(addr'[dest'])])
  <2>1. BeginEffect(r)
    BY <1>3, BeginIs, Zenon
  <2>2. state' = Choice(r) /\ changed' = (changed \/ Moved(r))
    BY <2>1, Zenon DEF BeginEffect
  <2>3. state' \notin {"OVS_INIT", "CONNECTED", "FAST_RECONNECT", "TRY_RESOLVE", "LINK_SEL", "WAN_IP"}
    BY Zenon DEF Trying
  <2>4. OvsConnect \in {"OVS_INIT", "CONNECTED", "FAST_RECONNECT"}
    BY Zenon DEF OvsConnect
  <2>5. ByReason(r) \in {"LINK_SEL", "WAN_IP", state}
    BY Zenon DEF ByReason
  <2>6. ~NewRedir(r) /\ ~NewManager(r) /\ Choice(r) = ByReason(r)
    BY <2>2, <2>3, <2>4, Zenon DEF Choice
  <2>7. state' = state /\ ~Moved(r)
    BY <2>2, <2>3, <2>5, <2>6, Zenon DEF Moved
  <2>8. addr' = addr /\ lists' = lists /\ dest' = dest
    BY <2>1, <2>6, Zenon DEF BeginEffect
  <2>9. Trying
    BY <2>2, <2>7, Zenon DEF Trying
  <2>. QED BY <1>2, <2>8, <2>9, Zenon
<1>4. CASE GivesUp \/ Elapse \/ UplinkStep \/ ServerStep \/ UNCHANGED vars
  <2>1. addr' = addr /\ lists' = lists
    BY <1>4, NamesKept, Zenon
  <2>2. state' = state /\ changed' = changed /\ dest' = dest
    <3>1. CASE GivesUp \/ Elapse \/ UNCHANGED vars
      BY <3>1, Zenon DEF GivesUp, Elapse, core, vars
    <3>2. CASE UplinkStep \/ ServerStep
      BY <3>2, Zenon DEF UplinkStep, UplinkFound, UplinkEcho, UplinkLost, Switches, IpUp, IpDown,
                         Renew, UplinkRest, ServerStep, ServerDrops, ServerConnects, SessionLost,
                         RowDeleted, RowInserted, Redirected, AddressChanged, WriteAwlan,
                         ServerRest, core
    <3>. QED BY <1>4, <3>1, <3>2, Zenon
  <2>3. Trying
    BY <2>2, Zenon DEF Trying
  <2>. QED BY <1>2, <2>1, <2>2, <2>3, Zenon
<1>5. CASE Resets
  <2>1. state' = "INIT"
    BY <1>5, Zenon DEF Resets, Reset
  <2>. QED BY <2>1, Zenon DEF Trying
<1>6. CASE TryConnect
  <2>1. /\ dest' = dest /\ state = "TRY_CONNECT"
        /\ \/ state' \in {"TRY_RESOLVE", "CONNECTED", "QUIESCE_OVS"}
           \/ \E a, ls : Pair(a, ls) /\ WriteTarget(a, ls, FALSE)
           \/ ~changed /\ addr' = addr /\ lists' = lists
    BY <1>6, Zenon DEF TryConnect, Running, Move, Return, RestartOvs, names, Pair, Trying
  <2>2. CASE \E a, ls : Pair(a, ls) /\ WriteTarget(a, ls, FALSE)
    BY <2>1, <2>2, AttemptNames, Zenon
  <2>3. CASE ~changed /\ addr' = addr /\ lists' = lists
    BY <1>2, <2>1, <2>3, Zenon DEF Trying
  <2>. QED BY <2>1, <2>2, <2>3, Zenon DEF Trying
<1>7. CASE FastReconnect
  <2>1. /\ dest' = dest /\ state = "FAST_RECONNECT"
        /\ \/ state' \in {"RE_CONNECT", "OVS_INIT", state}
           \/ \E a, ls, c : Pair(a, ls) /\ WriteTarget(a, ls, c)
    BY <1>7, Zenon DEF FastReconnect, Running, Move, Rest, Pair
  <2>2. CASE \E a, ls, c : Pair(a, ls) /\ WriteTarget(a, ls, c)
    BY <2>1, <2>2, AttemptNames, Zenon
  <2>. QED BY <2>1, <2>2, Zenon DEF Trying
<1>8. CASE FastReconnectWait
  <2>1. /\ dest' = dest /\ state = "FAST_RECONNECT_WAIT"
        /\ \/ state' \in {"CONNECTED", "RE_CONNECT"}
           \/ addr' = addr /\ lists' = lists
    BY <1>8, Zenon DEF FastReconnectWait, Running, Move, names
  <2>. QED BY <1>2, <2>1, Zenon DEF Trying
<1>9. CASE Deliver
  <2>1. state' = state /\ changed' = changed /\ dest' = dest
    BY <1>9, Zenon DEF Deliver
  <2>2. Trying
    BY <2>1, Zenon DEF Trying
  <2> DEFINE m == Head(inbox)
             g == PrefFam(addr[dest])
  <2>3. CASE ~(addr' = addr /\ lists' = lists)
    <3>1. /\ inbox # <<>> /\ m.table = "AWLAN"
          /\ addr' = [addr EXCEPT ![m.dest].host = m.host,
                                  ![m.dest].updated = (m.host # NoHost)]
          /\ lists' = [lists EXCEPT ![m.dest] = FreedLists(lists[m.dest])]
      BY <1>9, <2>3, Zenon DEF Deliver, names
    <3>2. m.dest \in Dests
      BY <3>1, InboxParts, Zenon DEF ListInv, TypeOK
    <3>3. addr'[dest].pref6 = addr[dest].pref6
      BY <1>1, <3>1, <3>2, Zenon DEF NamesOK, AddrType
    <3>4. PrefFam(addr'[dest]) = g /\ g \in Families
      BY <3>3, Zenon DEF PrefFam, Families
    <3>5. Steppable(lists[dest][g])
      BY <1>1, <2>2, Zenon DEF TriedOK
    <3>. HIDE DEF g
    <3>6. CASE dest # m.dest
      BY <1>1, <2>1, <3>1, <3>2, <3>4, <3>5, <3>6, Zenon DEF NamesOK
    <3>7. CASE dest = m.dest
      <4>1. lists'[dest] = FreedLists(lists[dest])
        BY <1>1, <3>1, <3>7, Zenon DEF NamesOK
      <4>2. /\ FreedLists(lists[dest])[g].host = NoHost
            /\ FreedLists(lists[dest])[g].st = lists[dest][g].st
        BY <3>4, FreedGood, ListsGood, Zenon
      <4>. QED BY <2>1, <3>4, <3>5, <4>1, <4>2, Zenon DEF Steppable
    <3>. QED BY <3>6, <3>7, Zenon
  <2>. QED BY <1>2, <2>1, <2>2, <2>3, Zenon
<1>10. CASE Answer
  <2>1. state' = state /\ changed' = changed /\ dest' = dest /\ addr' = addr
    BY <1>10, Zenon DEF Answer, core
  <2>2. Trying
    BY <2>1, Zenon DEF Trying
  <2> DEFINE g == PrefFam(addr[dest])
  <2>3. Steppable(lists[dest][g]) /\ g \in Families
    BY <1>1, <2>2, Zenon DEF TriedOK, PrefFam, Families
  <2>4. PICK d \in Dests, f \in Families :
            lists[d][f].st = "IN_PROGRESS" /\ \E n, st, h : Answered(d, f, st, h, n)
    BY <1>10, AnswerIs, Zenon
  <2>. HIDE DEF g
  <2>5. ~(d = dest /\ f = g)
    BY <2>3, <2>4, Zenon DEF Steppable
  <2>6. lists'[dest][g] = lists[dest][g]
    BY <1>1, <2>3, <2>4, <2>5 DEF Answered, NamesOK
  <2>. QED BY <2>1, <2>3, <2>6, Zenon DEF g
<1>. QED BY <1>3, <1>4, <1>5, <1>6, <1>7, <1>8, <1>9, <1>10, StepKinds, NotTrying, Zenon
(***************************************************************************)
(* The first inductive invariant holds at the start and is kept.           *)
(***************************************************************************)
LEMMA ListInit ==
    ASSUME Init
    PROVE  ListInv
<1>1. PICK r \in RedirHosts :
          /\ awlan = [d \in Dests |-> IF d = "REDIR" THEN r ELSE NoHost]
          /\ inbox = <<AwlanUpdate("REDIR", r), ManagerUpdate(EmptyRow)>>
  BY Zenon DEF Init
<1>2. AwlanUpdate("REDIR", r) \in UpdateType /\ ManagerUpdate(EmptyRow) \in UpdateType
  BY RowValues, Zenon DEF Dests, AnyHost, Hosts
<1>3. inbox \in Seq(UpdateType)
  BY <1>1, <1>2
<1>4. awlan \in [Dests -> AnyHost]
  BY <1>1, Zenon DEF AnyHost, Hosts
<1>5. NoAddr \in AddrType /\ NoList \in ListType /\ ListOK(NoList)
  BY SMTT(30), ConstantsAssumption
  DEF NoAddr, NoList, AddrType, ListType, AnyHost, ResolveStates, ListOK
<1>6. /\ addr = [d \in Dests |-> NoAddr]
      /\ lists = [d \in Dests |-> [f \in Families |-> NoList]]
  BY Zenon DEF Init
<1>7. addr \in [Dests -> AddrType] /\ lists \in [Dests -> [Families -> ListType]]
  BY <1>5, <1>6, Zenon
<1>8. ListsOK
  BY <1>5, <1>6, Zenon DEF ListsOK
<1>9. TriedOK
  BY Zenon DEF Init, TriedOK, Trying
<1>10. CoreTypes /\ dest \in Dests /\ ViewTypes
  BY RowValues, Zenon DEF Init, CoreTypes, ViewTypes, Dests, States
<1>11. CountTypes
  <2>1. once \in BOOLEAN
    BY Zenon DEF Init
  <2>2. disconnects = 0 /\ resolves = 0 /\ faults = 0
    BY Zenon DEF Init
  <2>3. disconnects \in 0 .. MaxDisconnects + 1 /\ resolves \in Nat /\ faults \in 0 .. MaxFaults
    BY <2>2, ConstantsAssumption
  <2>. QED BY <2>1, <2>3, Zenon DEF CountTypes
<1>12. link \in LinkType /\ echo \in BOOLEAN /\ sel \in SelType /\ row \in RowType
       /\ session \in Targets
  BY LinkValues, RowValues, Zenon DEF Init
<1>13. TypeOK
  BY <1>3, <1>4, <1>7, <1>10, <1>11, <1>12, Zenon
  DEF TypeOK, CoreTypes, ViewTypes, CountTypes
<1>. QED BY <1>8, <1>9, <1>13, Zenon DEF ListInv

(***************************************************************************)
(* Every step keeps the types, the lists well formed and the entry that    *)
(* was tried an address.                                                   *)
(***************************************************************************)
LEMMA ListStep ==
    ASSUME ListInv, [Next]_vars
    PROVE  ListInv'
<1>1. TypeOK
  BY Zenon DEF ListInv
<1>2. CoreTypes' /\ dest' \in Dests
  BY <1>1, CoreStep, Zenon
<1>3. CountTypes'
  BY <1>1, CountStep, Zenon
<1>4. ViewTypes'
  BY <1>1, ViewStep, Zenon
<1>5. link' \in LinkType /\ echo' \in BOOLEAN /\ sel' \in SelType
  BY <1>1, LinkTypes, Zenon
<1>6. ServerTypes'
  BY ServerTypesStep, Zenon
<1>7. NamesOK'
  BY NamesStep, Zenon
<1>8. TriedOK'
  BY TriedStep, Zenon
<1>9. TypeOK'
  BY <1>2, <1>3, <1>4, <1>5, <1>6, <1>7, Zenon
  DEF TypeOK, CoreTypes, ViewTypes, CountTypes, ServerTypes, NamesOK
<1>. QED BY <1>7, <1>8, <1>9, Zenon DEF ListInv, NamesOK

(***************************************************************************)
(* The lists are well formed throughout.                                   *)
(***************************************************************************)
LEMMA ListHolds == Spec => []ListInv
BY ListInit, ListStep, PTL DEF Spec

(***************************************************************************)
(* The variables keep their types: CM never leaves the set of its states,  *)
(* no counter passes its bound, and every target in the row is an address  *)
(* of a list.                                                              *)
(***************************************************************************)
THEOREM TypeCorrect == Spec => []TypeOK
<1>1. ListInv => TypeOK
  BY Zenon DEF ListInv
<1>. QED BY <1>1, ListHolds, PTL

(***************************************************************************)
(* cm2_validate_target_addr() never reads past the NULL entry that ends a  *)
(* list, whatever the order of answers, timeouts and changes of address:   *)
(* the index moves on only in a list whose entry under it was an address   *)
(* when it was written, and such a list is replaced with its index reset.  *)
(***************************************************************************)
THEOREM IndexCorrect == Spec => []IndexInList
<1>1. ListInv => IndexInList
  BY Zenon DEF ListInv, ListsOK, ListOK, IndexInList
<1>. QED BY <1>1, ListHolds, PTL
-----------------------------------------------------------------------------
(* The manager's address and its lists.                                    *)

NameInv == NewHasHost /\ TakenUp /\ NotYet /\ OneAtATime

(***************************************************************************)
(* Less is known and asked than before, and no address is new.             *)
(***************************************************************************)
LEMMA LessKnown ==
    ASSUME NameInv,
           addr'["MANAGER"].host = addr["MANAGER"].host,
           addr'["MANAGER"].updated = addr["MANAGER"].updated,
           \A d \in Dests, f \in Families :
               lists'[d][f].st = "IN_PROGRESS" => lists[d][f].st = "IN_PROGRESS",
           \A f \in Families :
               /\ lists'["MANAGER"][f].host \in {lists["MANAGER"][f].host, NoHost}
               /\ lists'["MANAGER"][f].st = "IN_PROGRESS"
                      => lists'["MANAGER"][f].ask = lists["MANAGER"][f].ask
    PROVE  NameInv'
<1>1. "MANAGER" \in Dests /\ "REDIR" \in Dests
  BY Zenon DEF Dests
<1>2. NewHasHost'
  BY Zenon DEF NameInv, NewHasHost
<1>3. TakenUp'
  BY <1>1, Zenon DEF NameInv, TakenUp, MyList
<1>4. NotYet'
  BY <1>1, Zenon DEF NameInv, NotYet, InProgress
<1>5. OneAtATime'
  BY <1>1, Zenon DEF NameInv, OneAtATime, InProgress
<1>. QED BY <1>2, <1>3, <1>4, <1>5, Zenon DEF NameInv

(***************************************************************************)
(* Attempts to write a target, and the steps over an address, change no    *)
(* host and no query.                                                      *)
(***************************************************************************)
LEMMA PairSame ==
    ASSUME ListInv, NEW a, NEW ls, Pair(a, ls)
    PROVE  /\ a.host = addr[dest].host /\ a.updated = addr[dest].updated
           /\ \A f \in Families : /\ ls[f].host = lists[dest][f].host
                                  /\ ls[f].st = lists[dest][f].st
                                  /\ ls[f].ask = lists[dest][f].ask
<1>1. CASE a = addr[dest] /\ ls = lists[dest]
  BY <1>1, Zenon
<1>2. CASE Trying /\ a = MovedAddr(addr[dest]) /\ ls = MovedList(addr[dest], lists[dest])
  <2>1. Steppable(lists[dest][PrefFam(addr[dest])])
    BY <1>2, Zenon DEF ListInv, TriedOK
  <2>2. addr[dest] \in AddrType /\ Good(lists[dest])
    BY ListsGood, Zenon
  <2>. QED BY SMTT(30), <1>2, <2>1, <2>2, MovedGood
<1>. QED BY <1>1, <1>2, Zenon DEF Pair

(***************************************************************************)
(* Replacing the address and the lists of dest by ones with the same names *)
(* and queries changes no name and no query.                               *)
(***************************************************************************)
LEMMA ReplacedSame ==
    ASSUME ListInv, NEW a \in AddrType, NEW ls,
           a.host = addr[dest].host, a.updated = addr[dest].updated,
           \A f \in Families : /\ ls[f].host = lists[dest][f].host
                               /\ ls[f].st = lists[dest][f].st
                               /\ ls[f].ask = lists[dest][f].ask,
           addr' = [addr EXCEPT ![dest] = a],
           lists' = [lists EXCEPT ![dest] = ls]
    PROVE  /\ \A d \in Dests : addr'[d].host = addr[d].host /\ addr'[d].updated = addr[d].updated
           /\ \A d \in Dests, f \in Families : /\ lists'[d][f].host = lists[d][f].host
                                               /\ lists'[d][f].st = lists[d][f].st
                                               /\ lists'[d][f].ask = lists[d][f].ask
BY Zenon DEF ListInv, TypeOK

SameNames ==
    /\ \A d \in Dests : addr'[d].host = addr[d].host /\ addr'[d].updated = addr[d].updated
    /\ \A d \in Dests, f \in Families : /\ lists'[d][f].host = lists[d][f].host
                                        /\ lists'[d][f].st = lists[d][f].st
                                        /\ lists'[d][f].ask = lists[d][f].ask

(***************************************************************************)
(* Writing a target, or failing to, changes no name and no query.          *)
(***************************************************************************)
LEMMA AttemptSame ==
    ASSUME ListInv, Attempts
    PROVE  SameNames
<1>1. PICK a, ls, c : Pair(a, ls) /\ (WriteTarget(a, ls, c) \/ WriteFails(a, ls, c))
  BY Zenon DEF Attempts
<1>2. a \in AddrType
  BY <1>1, PairGood, Zenon
<1>3. PICK b \in {a, Picked(a, ls)} : addr' = [addr EXCEPT ![dest] = b]
  BY <1>1, Zenon DEF WriteTarget, WriteFails
<1>4. lists' = [lists EXCEPT ![dest] = ls]
  BY <1>1, Zenon DEF WriteTarget, WriteFails
<1>5. b \in AddrType /\ b.host = a.host /\ b.updated = a.updated
  BY <1>2, <1>3, PickedOffers, Zenon
<1>6. /\ b.host = addr[dest].host /\ b.updated = addr[dest].updated
      /\ \A f \in Families : /\ ls[f].host = lists[dest][f].host
                             /\ ls[f].st = lists[dest][f].st
                             /\ ls[f].ask = lists[dest][f].ask
  BY <1>1, <1>5, PairSame, Zenon
<1>. QED BY SMTT(30), <1>3, <1>4, <1>5, <1>6, ReplacedSame DEF SameNames

(***************************************************************************)
(* Moving on to the next address after a wait changes no name and no       *)
(* query.                                                                  *)
(***************************************************************************)
LEMMA WaitSame ==
    ASSUME ListInv, FastReconnectWait
    PROVE  SameNames
<1>1. \/ addr' = addr /\ lists' = lists
      \/ /\ Trying
         /\ addr' = [addr EXCEPT ![dest] = MovedAddr(addr[dest])]
         /\ lists' = [lists EXCEPT ![dest] = MovedList(addr[dest], lists[dest])]
  BY Zenon DEF FastReconnectWait, Running, Trying, names
<1>2. CASE addr' = addr /\ lists' = lists
  BY <1>2, Zenon DEF SameNames
<1>3. CASE /\ Trying
           /\ addr' = [addr EXCEPT ![dest] = MovedAddr(addr[dest])]
           /\ lists' = [lists EXCEPT ![dest] = MovedList(addr[dest], lists[dest])]
  <2> DEFINE a == MovedAddr(addr[dest])
             ls == MovedList(addr[dest], lists[dest])
  <2>1. Pair(a, ls)
    BY <1>3, Zenon DEF Pair
  <2>2. addr' = [addr EXCEPT ![dest] = a] /\ lists' = [lists EXCEPT ![dest] = ls]
    BY <1>3, Zenon
  <2>. HIDE DEF a, ls
  <2>. QED BY SMTT(30), <2>1, <2>2, PairSame, PairGood, ReplacedSame DEF SameNames
<1>. QED BY <1>1, <1>2, <1>3, Zenon

(***************************************************************************)
(* What relates the new names, the lists and the queries holds as long as  *)
(* none of them changes.                                                   *)
(***************************************************************************)
LEMMA SameKeeps ==
    ASSUME NameInv, SameNames
    PROVE  NameInv'
BY LessKnown, Zenon DEF SameNames, Dests
(***************************************************************************)
(* TryResolve: a manager address that is new is taken up when its query is *)
(* refused only while the redirector is looked up, and then it has no      *)
(* list; a query of the redirector starts when no manager address is new.  *)
(***************************************************************************)
LEMMA ResolveFresh ==
    ASSUME ListInv, FreshInv, TryResolve
    PROVE  NameInv'
<1>1. NamesOK /\ dest \in Dests /\ NameInv /\ PassLooked
  BY Zenon DEF ListInv, TypeOK, NamesOK, FreshInv, NameInv
<1>2. \A d \in Dests : Good(lists[d])
  BY ListsGood, Zenon
<1>3. "MANAGER" \in Dests /\ "REDIR" \in Dests /\ dest \in {"REDIR", "MANAGER"}
  BY <1>1, Zenon DEF Dests
<1>4. ASSUME NEW d \in Dests
      PROVE  /\ Asked(d)[d].updated = FALSE /\ Asked(d)[d].host = addr[d].host
             /\ \A e \in Dests \ {d} : Asked(d)[e] = addr[e]
  <2>1. Asked(d) = [addr EXCEPT ![d] = [addr[d] EXCEPT !.updated = FALSE]]
    BY <1>1, Zenon DEF Asked, NamesOK
  <2>. QED BY <1>1, <2>1, Zenon DEF NamesOK, AddrType
<1>5. pass = "run" /\ state = "TRY_RESOLVE"
  BY Zenon DEF TryResolve, Running
<1> DEFINE ls == [lists EXCEPT ![dest] = Queried(dest)]
<1>6. \/ ~CanResolve(dest) /\ addr' = Refused(dest) /\ lists' = lists
      \/ CanResolve(dest) /\ addr' = Asked(dest) /\ lists' \in {ls, Stopped(ls)}
      \/ addr' = addr /\ lists' \in {lists, Stopped(lists)}
  BY Zenon DEF TryResolve
<1>7. ASSUME addr'["MANAGER"] = addr["MANAGER"], lists' = lists PROVE NameInv'
  BY <1>1, <1>7, LessKnown, Zenon
<1>8. CASE ~CanResolve(dest) /\ addr' = Refused(dest) /\ lists' = lists
  <2>1. CASE InProgress(dest)
    BY <1>7, <1>8, <2>1, Zenon DEF Refused
  <2>2. CASE ~InProgress(dest) /\ dest = "REDIR"
    BY <1>3, <1>4, <1>7, <1>8, <2>2, Zenon DEF Refused
  <2>3. CASE ~InProgress(dest) /\ dest = "MANAGER"
    <3>1. addr'["MANAGER"].updated = FALSE /\ addr'["MANAGER"].host = addr["MANAGER"].host
      BY <1>3, <1>4, <1>8, <2>3, Zenon DEF Refused
    <3>2. addr["MANAGER"].host = NoHost \/ InProgress("REDIR")
      BY <1>8, <2>3, Zenon DEF CanResolve, Dests
    <3>3. \A f \in Families : lists["MANAGER"][f].st # "IN_PROGRESS"
      BY <2>3, Zenon DEF InProgress
    <3>4. addr["MANAGER"].updated \in BOOLEAN
      BY <1>1, <1>3, Zenon DEF NamesOK, AddrType
    <3>5. \A f \in Families :
              addr["MANAGER"].host # NoHost
                  => lists["MANAGER"][f].host \in {NoHost, addr["MANAGER"].host}
      BY <1>1, <3>2, <3>4, Zenon DEF NameInv, TakenUp, NotYet, MyList
    <3>6. TakenUp'
      BY <1>8, <3>1, <3>3, <3>5, Zenon DEF TakenUp, MyList
    <3>7. NewHasHost' /\ NotYet'
      BY <3>1, Zenon DEF NewHasHost, NotYet
    <3>8. OneAtATime'
      BY <1>1, <1>8, Zenon DEF NameInv, OneAtATime, InProgress
    <3>. QED BY <3>6, <3>7, <3>8, Zenon DEF NameInv
  <2>. QED BY <1>3, <2>1, <2>2, <2>3, Zenon
<1>9. CASE CanResolve(dest) /\ addr' = Asked(dest) /\ lists' \in {ls, Stopped(ls)}
  <2>1. \A d \in Dests, f \in Families : lists[d][f].st # "IN_PROGRESS"
    BY <1>9, Zenon DEF CanResolve, InProgress
  <2>2. /\ Good(Queried(dest))
        /\ \A f \in Families :
               /\ Queried(dest)[f].host = NoHost
               /\ \/ Queried(dest)[f].st = "IN_PROGRESS" /\ Queried(dest)[f].ask = addr[dest].host
                  \/ Queried(dest)[f].st = lists[dest][f].st
    BY <1>1, <1>2, QueriedGood, Zenon DEF NamesOK, AddrType
  <2>3. \A d \in Dests : Good(ls[d])
    BY <1>1, <1>2, <2>2, Zenon DEF NamesOK
  <2>4. /\ ls[dest] = Queried(dest)
        /\ \A d \in Dests \ {dest} : ls[d] = lists[d]
    BY <1>1, Zenon DEF NamesOK
  <2>. HIDE DEF ls
  <2>5. \A d \in Dests, f \in Families :
            /\ Stopped(ls)[d][f].host = ls[d][f].host
            /\ Stopped(ls)[d][f].st # "IN_PROGRESS"
    BY <2>3, StoppedGood, Zenon
  <2>6. \A d \in Dests, f \in Families :
            /\ lists'[d][f].host = ls[d][f].host
            /\ lists'[d][f].st = "IN_PROGRESS" => lists'[d] = ls[d]
    BY <1>9, <2>5, Zenon
  <2>7. \A f \in Families :
            /\ lists'[dest][f].host = NoHost
            /\ lists'[dest][f].st = "IN_PROGRESS" => lists'[dest][f].ask = addr[dest].host
    BY SMTT(30), <1>1, <2>1, <2>2, <2>4, <2>6
  <2>8. \A d \in Dests \ {dest}, f \in Families :
            /\ lists'[d][f].host = lists[d][f].host
            /\ lists'[d][f].st # "IN_PROGRESS"
    BY SMTT(30), <2>1, <2>4, <2>6
  <2>9. OneAtATime'
    BY <1>3, <2>8, Zenon DEF OneAtATime, InProgress
  <2>10. CASE dest = "MANAGER"
    <3>1. addr'["MANAGER"].updated = FALSE /\ addr'["MANAGER"].host = addr["MANAGER"].host
      BY <1>3, <1>4, <1>9, <2>10, Zenon
    <3>2. TakenUp'
      BY <2>7, <2>10, <3>1, Zenon DEF TakenUp, MyList
    <3>3. NewHasHost' /\ NotYet'
      BY <3>1, Zenon DEF NewHasHost, NotYet
    <3>. QED BY <2>9, <3>2, <3>3, Zenon DEF NameInv
  <2>11. CASE dest = "REDIR"
    <3>1. addr'["MANAGER"] = addr["MANAGER"]
      BY <1>3, <1>4, <1>9, <2>11, Zenon
    <3>2. ~addr["MANAGER"].updated
      BY <1>1, <1>5, <2>11, Zenon DEF PassLooked
    <3>3. \A f \in Families : /\ lists'["MANAGER"][f].host = lists["MANAGER"][f].host
                              /\ lists'["MANAGER"][f].st # "IN_PROGRESS"
      BY <1>3, <2>8, <2>11, Zenon
    <3>4. TakenUp'
      BY <1>1, <3>1, <3>3, Zenon DEF NameInv, TakenUp, MyList
    <3>5. NewHasHost' /\ NotYet'
      BY <3>1, <3>2, Zenon DEF NewHasHost, NotYet
    <3>. QED BY <2>9, <3>4, <3>5, Zenon DEF NameInv
  <2>. QED BY <1>3, <2>10, <2>11, Zenon
<1>10. CASE addr' = addr /\ lists' \in {lists, Stopped(lists)}
  <2>1. \A d \in Dests, f \in Families :
            /\ Stopped(lists)[d][f].host = lists[d][f].host
            /\ Stopped(lists)[d][f].st # "IN_PROGRESS"
    BY <1>2, StoppedGood, Zenon
  <2>2. CASE lists' = Stopped(lists)
    BY <1>1, <1>3, <1>10, <2>1, <2>2, LessKnown, Zenon
  <2>. QED BY <1>7, <1>10, <2>2, Zenon
<1>. QED BY <1>6, <1>8, <1>9, <1>10, Zenon
(***************************************************************************)
(* What OvsInit does to the manager's address when it forgets it, and what *)
(* reading an update of AWLAN_Node does to an address.                     *)
(***************************************************************************)
LEMMA ForgetsNames ==
    ASSUME NamesOK, OvsInit, ~(addr' = addr /\ lists' = lists)
    PROVE  /\ addr'["MANAGER"].host = NoHost /\ addr'["MANAGER"].updated = FALSE
           /\ addr'["REDIR"].host = addr["REDIR"].host
           /\ lists' = [lists EXCEPT !["MANAGER"] = FreedLists(lists["MANAGER"])]
           /\ state' = "TRY_RESOLVE" /\ dest' = "REDIR"
<1>1. /\ addr' = [addr EXCEPT !["MANAGER"].host = NoHost, !["MANAGER"].updated = FALSE,
                              !["REDIR"].pref6 = TRUE]
      /\ lists' = [lists EXCEPT !["MANAGER"] = FreedLists(@)]
      /\ state' = "TRY_RESOLVE" /\ dest' = "REDIR"
  BY Zenon DEF OvsInit, names, Move
<1>2. addr["MANAGER"] \in AddrType /\ addr["REDIR"] \in AddrType
  BY Zenon DEF NamesOK, Dests
<1> DEFINE a1 == [addr EXCEPT !["MANAGER"].host = NoHost]
           a2 == [a1 EXCEPT !["MANAGER"].updated = FALSE]
<1>3. addr' = [a2 EXCEPT !["REDIR"].pref6 = TRUE]
  BY <1>1, Zenon
<1>4. /\ a1 \in [Dests -> AddrType] /\ a1["MANAGER"].host = NoHost /\ a1["REDIR"] = addr["REDIR"]
  BY <1>2, Zenon DEF NamesOK, AddrType, Dests, AnyHost
<1>. HIDE DEF a1
<1>5. /\ a2 \in [Dests -> AddrType] /\ a2["MANAGER"].host = NoHost
      /\ a2["MANAGER"].updated = FALSE /\ a2["REDIR"] = addr["REDIR"]
  BY <1>4, Zenon DEF AddrType, Dests
<1>. HIDE DEF a2
<1>6. /\ addr'["MANAGER"].host = NoHost /\ addr'["MANAGER"].updated = FALSE
      /\ addr'["REDIR"].host = addr["REDIR"].host
  BY <1>3, <1>5, Zenon DEF AddrType, Dests
<1>. QED BY <1>1, <1>6, Zenon

(***************************************************************************)
(* An update that changes the addresses sets the name of one destination   *)
(* and frees its lists (cm2_set_addr).                                     *)
(***************************************************************************)
LEMMA DeliverNames ==
    ASSUME NamesOK, inbox \in Seq(UpdateType), Deliver, ~(addr' = addr /\ lists' = lists)
    PROVE  LET m == Head(inbox)
           IN  /\ m.table = "AWLAN" /\ m.dest \in Dests
               /\ addr'[m.dest].host = m.host /\ addr'[m.dest].updated = (m.host # NoHost)
               /\ \A d \in Dests \ {m.dest} : addr'[d] = addr[d]
               /\ lists' = [lists EXCEPT ![m.dest] = FreedLists(lists[m.dest])]
<1> DEFINE m == Head(inbox)
           e == m.dest
           h == m.host
           u == (m.host # NoHost)
           a1 == [addr EXCEPT ![e].host = h]
<1>1. /\ inbox # <<>> /\ m.table = "AWLAN"
      /\ addr' = [addr EXCEPT ![m.dest].host = m.host,
                              ![m.dest].updated = (m.host # NoHost)]
      /\ lists' = [lists EXCEPT ![m.dest] = FreedLists(lists[m.dest])]
  BY Zenon DEF Deliver, names
<1>2. e \in Dests
  BY <1>1, InboxParts, Zenon
<1>3. addr' = [a1 EXCEPT ![e].updated = u]
  BY <1>1, Zenon
<1>. HIDE DEF e, h, u, m
<1>4. addr \in [Dests -> AddrType]
  BY Zenon DEF NamesOK
<1>5. /\ DOMAIN a1 = Dests /\ DOMAIN a1[e] = {"host", "updated", "pref6"}
      /\ a1[e].host = h /\ \A d \in Dests \ {e} : a1[d] = addr[d]
  BY <1>2, <1>4, Zenon DEF AddrType
<1>6. a1 = [d \in DOMAIN a1 |-> a1[d]] /\ a1[e] = [x \in DOMAIN a1[e] |-> a1[e][x]]
  BY <1>2, <1>4, Zenon DEF AddrType
<1>. HIDE DEF a1
<1>7. addr'[e].host = h /\ addr'[e].updated = u /\ \A d \in Dests \ {e} : addr'[d] = addr[d]
  BY <1>2, <1>3, <1>5, <1>6, Zenon
<1>. QED BY <1>1, <1>2, <1>7, Zenon DEF e, h, u, m

(***************************************************************************)
(* A step keeps what is known of the manager's address.                    *)
(***************************************************************************)
LEMMA NameInvStep ==
    ASSUME ListInv, FreshInv, [Next]_vars
    PROVE  NameInv'
<1>1. NamesOK /\ dest \in Dests /\ NameInv /\ PassLooked /\ inbox \in Seq(UpdateType)
  BY Zenon DEF ListInv, TypeOK, NamesOK, FreshInv, NameInv
<1>2. \A d \in Dests : Good(lists[d])
  BY ListsGood, Zenon
<1>3. "MANAGER" \in Dests /\ "REDIR" \in Dests
  BY Zenon DEF Dests
<1>4. ASSUME addr' = addr, lists' = lists PROVE NameInv'
  BY <1>1, <1>4, LessKnown, Zenon
<1>5. ASSUME NEW r, BeginPass(r) PROVE NameInv'
  <2>1. /\ lists' = lists
        /\ \/ addr' = addr
           \/ addr' = [addr EXCEPT !["REDIR"].updated = FALSE]
           \/ addr' = [addr EXCEPT !["MANAGER"].pref6 = addr["REDIR"].pref6]
    BY <1>5, BeginIs, Zenon DEF BeginEffect
  <2>2. /\ addr'["MANAGER"].host = addr["MANAGER"].host
        /\ addr'["MANAGER"].updated = addr["MANAGER"].updated
    BY <1>1, <1>3, <2>1, Zenon DEF NamesOK, AddrType
  <2>. QED BY <1>1, <2>1, <2>2, LessKnown, Zenon
<1>6. CASE OvsInit
  <2>1. CASE ~(addr' = addr /\ lists' = lists)
    <3>1. /\ addr'["MANAGER"].host = NoHost /\ addr'["MANAGER"].updated = FALSE
          /\ lists' = [lists EXCEPT !["MANAGER"] = FreedLists(lists["MANAGER"])]
      BY <1>1, <1>6, <2>1, ForgetsNames, Zenon
    <3>2. \A d \in Dests, f \in Families : lists'[d][f].st = lists[d][f].st
      BY SMTT(30), <1>1, <1>2, <1>3, <3>1, FreedGood DEF NamesOK
    <3>3. OneAtATime'
      BY <1>1, <1>3, <3>2, Zenon DEF NameInv, OneAtATime, InProgress
    <3>. QED BY <3>1, <3>3, Zenon DEF NameInv, NewHasHost, TakenUp, NotYet
  <2>. QED BY <1>4, <2>1, Zenon
<1>7. CASE TryResolve
  BY <1>7, ResolveFresh, Zenon
<1>8. CASE TryConnect \/ FastReconnect
  <2>1. (addr' = addr /\ lists' = lists) \/ Attempts
    BY <1>8, ConnectNames, Zenon
  <2>. QED BY <1>1, <1>4, <2>1, AttemptSame, SameKeeps, Zenon
<1>9. CASE FastReconnectWait
  BY <1>1, <1>9, WaitSame, SameKeeps, Zenon
<1>10. CASE Resets
  <2>1. /\ addr' = [d \in Dests |-> NoAddr]
        /\ lists' = [d \in Dests |-> [f \in Families |-> NoList]]
    BY <1>10, Zenon DEF Resets, Reset
  <2>2. addr'["MANAGER"].host = NoHost /\ addr'["MANAGER"].updated = FALSE
    BY <1>3, <2>1, Zenon DEF NoAddr
  <2>3. \A d \in Dests, f \in Families : lists'[d][f].st # "IN_PROGRESS"
    BY <2>1, Zenon DEF NoList
  <2>4. OneAtATime'
    BY <1>3, <2>3, Zenon DEF OneAtATime, InProgress
  <2>. QED BY <2>2, <2>4, Zenon DEF NameInv, NewHasHost, TakenUp, NotYet
<1>11. CASE Deliver
  <2> DEFINE e == Head(inbox).dest
             h == Head(inbox).host
  <2>1. CASE ~(addr' = addr /\ lists' = lists)
    <3>1. /\ e \in Dests /\ addr'[e].host = h /\ addr'[e].updated = (h # NoHost)
          /\ \A d \in Dests \ {e} : addr'[d] = addr[d]
          /\ lists' = [lists EXCEPT ![e] = FreedLists(lists[e])]
      BY <1>1, <1>11, <2>1, DeliverNames, Zenon
    <3>. HIDE DEF e, h
    <3>2. \A d \in Dests, f \in Families : /\ lists'[d][f].st = lists[d][f].st
                                           /\ lists'[d][f].ask = lists[d][f].ask
                                           /\ lists'[d][f].host \in {lists[d][f].host, NoHost}
                                           /\ d = e => lists'[d][f].host = NoHost
      BY SMTT(30), <1>1, <1>2, <3>1, FreedGood DEF NamesOK
    <3>3. CASE e = "MANAGER"
      <4>1. OneAtATime'
        BY <1>1, <1>3, <3>2, Zenon DEF NameInv, OneAtATime, InProgress
      <4>2. NewHasHost' /\ TakenUp' /\ NotYet'
        BY <1>3, <3>1, <3>2, <3>3, Zenon DEF NewHasHost, TakenUp, NotYet
      <4>. QED BY <4>1, <4>2, Zenon DEF NameInv
    <3>4. CASE e # "MANAGER"
      BY <1>1, <1>3, <3>1, <3>2, <3>4, LessKnown, Zenon
    <3>. QED BY <3>3, <3>4, Zenon
  <2>. QED BY <1>4, <2>1, Zenon
<1>12. CASE Answer
  <2>1. PICK d \in Dests, f \in Families :
            /\ lists[d][f].st = "IN_PROGRESS"
            /\ \E n, st, h : AnswerKind(d, f, st, h, n) /\ Answered(d, f, st, h, n)
    BY <1>12, AnswerIs, Zenon
  <2>2. PICK n, st, h : AnswerKind(d, f, st, h, n) /\ Answered(d, f, st, h, n)
    BY <2>1, Zenon
  <2>3. addr' = addr
    BY <1>12, Zenon DEF Answer
  <2>4. /\ lists'[d][f].st # "IN_PROGRESS" /\ lists'[d][f].host = h
        /\ \A e \in Dests, g \in Families :
               ~(e = d /\ g = f) => lists'[e][g] = lists[e][g]
    BY <1>1, <2>2, Zenon DEF Answered, AnswerKind, NamesOK
  <2>5. h \in {lists[d][f].ask, lists[d][f].host}
    BY <2>2, Zenon DEF AnswerKind
  <2>6. CASE d = "REDIR"
    <3>1. \A g \in Families : lists'["MANAGER"][g] = lists["MANAGER"][g]
      BY <1>3, <2>4, <2>6, Zenon
    <3>. QED BY <1>1, <2>3, <2>4, <3>1, LessKnown, Zenon
  <2>7. CASE d = "MANAGER"
    <3>1. ~InProgress("REDIR")
      BY <1>1, <2>1, <2>7, Zenon DEF NameInv, OneAtATime, InProgress
    <3>2. \A g \in Families : lists'["REDIR"][g].st # "IN_PROGRESS"
      BY <1>3, <2>4, <2>7, <3>1, Zenon DEF InProgress
    <3>3. NotYet' /\ OneAtATime'
      BY <3>2, Zenon DEF NotYet, OneAtATime, InProgress
    <3>4. NewHasHost'
      BY <1>1, <2>3, Zenon DEF NameInv, NewHasHost
    <3>5. TakenUp'
      <4>1. SUFFICES ASSUME ~addr["MANAGER"].updated, addr["MANAGER"].host # NoHost,
                            NEW g \in Families
                     PROVE  MyList(lists["MANAGER"][g])'
        BY <2>3, Zenon DEF TakenUp
      <4>2. MyList(lists["MANAGER"][g]) /\ MyList(lists["MANAGER"][f])
        BY <1>1, <4>1, Zenon DEF NameInv, TakenUp
      <4>. QED BY <1>3, <2>1, <2>3, <2>4, <2>5, <2>7, <4>2, Zenon DEF MyList
    <3>. QED BY <3>3, <3>4, <3>5, Zenon DEF NameInv
  <2>. QED BY <2>6, <2>7, Zenon DEF Dests
<1>. QED BY <1>4, <1>5, <1>6, <1>7, <1>8, <1>9, <1>10, <1>11, <1>12, StepKinds, NamesKept, Zenon
(***************************************************************************)
(* The code of a state runs only after the start of the pass.              *)
(***************************************************************************)
LEMMA OnlyBeginRuns ==
    ASSUME [Next]_vars, pass' = "run"
    PROVE  \/ \E r : BeginPass(r)
           \/ pass = "run" /\ UNCHANGED <<state, dest, connected, addr>>
<1>1. ASSUME \/ \E s : Move(s) \/ Return(s)
             \/ Rest
      PROVE  pass' # "run"
  BY <1>1, Zenon DEF Move, Return, Rest
<1>2. CASE InitState \/ LinkSel \/ WanIp \/ NtpCheck \/ QuiesceOvs
  BY <1>1, <1>2, Zenon DEF InitState, LinkSel, WanIp, NtpCheck, QuiesceOvs, CheckFailed,
                           RestartSkipped, RestartOvs
<1>3. CASE OvsInit \/ TryResolve \/ ReConnect \/ TryConnect \/ FastReconnect \/ FastReconnectWait
           \/ Connected
  BY <1>1, <1>3, Zenon DEF OvsInit, TryResolve, ReConnect, TryConnect, FastReconnect,
                           FastReconnectWait, Connected, RestartOvs
<1>4. CASE GivesUp \/ Resets \/ Elapse \/ Deliver \/ Answer \/ UplinkStep
  <2>1. pass' \in {"idle", "MANAGER", "AWLAN", "LINK_USED", "LINK_NOT_USED", "VTAG", "OVS_INIT"}
    <3>1. CASE GivesUp \/ Resets \/ Elapse \/ Deliver \/ Answer
      BY <3>1, Zenon DEF GivesUp, Resets, Reset, Elapse, Deliver, Answer, core
    <3>2. CASE UplinkFound \/ UplinkEcho \/ UplinkLost \/ Switches \/ Renew
      BY <3>2, Zenon DEF UplinkFound, UplinkEcho, UplinkLost, Switches, Renew
    <3>3. CASE IpUp \/ IpDown
      <4>1. \E f \in Stack : pass' \in IpReasons(f)
        BY <3>3, Zenon DEF IpUp, IpDown
      <4>. QED BY <4>1, Zenon DEF IpReasons
    <3>. QED BY <1>4, <3>1, <3>2, <3>3, Zenon DEF UplinkStep
  <2>. QED BY <2>1, Zenon
<1>5. CASE ServerStep \/ UNCHANGED vars
  BY <1>5, Zenon DEF ServerStep, ServerDrops, ServerConnects, SessionLost, RowDeleted,
                     RowInserted, Redirected, AddressChanged, WriteAwlan, ServerRest, core,
                     view, names, vars
<1>. QED BY <1>2, <1>3, <1>4, <1>5, StepKinds, Zenon

(***************************************************************************)
(* A pass gets to FAST_RECONNECT or TRY_RESOLVE with a new manager address *)
(* only to act on it, or while it is connected.                            *)
(***************************************************************************)
LEMMA PassStep ==
    ASSUME ListInv, FreshInv, [Next]_vars
    PROVE  PassLooked'
<1>1. SUFFICES ASSUME pass' = "run"
               PROVE  /\ state' = "FAST_RECONNECT" /\ dest' = "MANAGER"
                             => connected' \/ ~addr'["MANAGER"].updated
                      /\ state' = "TRY_RESOLVE" /\ dest' = "REDIR" => ~addr'["MANAGER"].updated
  BY Zenon DEF PassLooked
<1>2. CASE pass = "run" /\ UNCHANGED <<state, dest, connected, addr>>
  BY <1>2, Zenon DEF FreshInv, PassLooked
<1>3. ASSUME NEW r, BeginPass(r)
      PROVE  /\ state' = "FAST_RECONNECT" /\ dest' = "MANAGER"
                    => connected' \/ ~addr'["MANAGER"].updated
             /\ state' = "TRY_RESOLVE" /\ dest' = "REDIR" => ~addr'["MANAGER"].updated
  <2>1. BeginEffect(r)
    BY <1>3, BeginIs, Zenon
  <2>2. state' = Choice(r) /\ connected' = connected
    BY <2>1, Zenon DEF BeginEffect, view
  <2>3. CASE NewRedir(r)
    <3>1. state' = OvsConnect
      BY <2>2, <2>3, Zenon DEF Choice, NewManager
    <3>. QED BY <2>2, <3>1, Zenon DEF OvsConnect
  <2>4. CASE ~NewRedir(r) /\ NewManager(r)
    <3>1. state' = "TRY_RESOLVE" /\ dest' = "MANAGER"
      BY <2>1, <2>2, <2>4, Zenon DEF Choice, BeginEffect
    <3>. QED BY <3>1, Zenon
  <2>5. CASE ~NewRedir(r) /\ ~NewManager(r)
    <3>1. state' = ByReason(r) /\ addr' = addr
      BY <2>1, <2>2, <2>5, Zenon DEF Choice, BeginEffect
    <3>2. state' # "CONNECTED" => ~Fresh("MANAGER")
      BY <2>5, <3>1, Zenon DEF NewManager
    <3>3. Fresh("MANAGER") \/ ~addr["MANAGER"].updated
      BY Zenon DEF Fresh, FreshInv, NewHasHost
    <3>. QED BY <3>1, <3>2, <3>3, Zenon
  <2>. QED BY <2>3, <2>4, <2>5, Zenon
<1>. QED BY <1>1, <1>2, <1>3, OnlyBeginRuns, Zenon

(***************************************************************************)
(* CM starts with no name and no query.                                    *)
(***************************************************************************)
LEMMA FreshInit ==
    ASSUME Init
    PROVE  FreshInv
<1>1. /\ addr = [d \in Dests |-> NoAddr]
      /\ lists = [d \in Dests |-> [f \in Families |-> NoList]]
      /\ pass = "idle"
  BY Zenon DEF Init
<1>2. "MANAGER" \in Dests /\ "REDIR" \in Dests
  BY Zenon DEF Dests
<1>3. addr["MANAGER"].host = NoHost /\ addr["MANAGER"].updated = FALSE
  BY <1>1, <1>2, Zenon DEF NoAddr
<1>4. \A d \in Dests, f \in Families : lists[d][f].st # "IN_PROGRESS"
  BY <1>1, Zenon DEF NoList
<1>5. OneAtATime
  BY <1>2, <1>4, Zenon DEF OneAtATime, InProgress
<1>6. PassLooked
  BY <1>1, Zenon DEF PassLooked
<1>. QED BY <1>3, <1>5, <1>6, Zenon DEF FreshInv, NewHasHost, TakenUp, NotYet

(***************************************************************************)
(* Every step keeps the names, the lists and the queries in agreement, and *)
(* what the pass has looked at.                                            *)
(***************************************************************************)
LEMMA FreshStep ==
    ASSUME ListInv, FreshInv, [Next]_vars
    PROVE  FreshInv'
<1>1. NameInv' /\ PassLooked'
  BY NameInvStep, PassStep, Zenon
<1>. QED BY <1>1, Zenon DEF NameInv, FreshInv

(***************************************************************************)
(* Names, lists and queries agree throughout.                              *)
(***************************************************************************)
LEMMA FreshHolds == Spec => [](ListInv /\ FreshInv)
<1>1. Init => ListInv /\ FreshInv
  BY ListInit, FreshInit, Zenon
<1>2. ListInv /\ FreshInv /\ [Next]_vars => (ListInv /\ FreshInv)'
  BY ListStep, FreshStep, Zenon
<1>. QED BY <1>1, <1>2, PTL DEF Spec
(***************************************************************************)
(* The targets of what is written: a put that leaves another target than   *)
(* the one it found leaves its own.                                        *)
(***************************************************************************)
LEMMA PutTarget ==
    ASSUME NEW q \in RowAndInbox, NEW t
    PROVE  Put(q, t).row.target \in {q.row.target, t}
<1> DEFINE r == [q.row EXCEPT !.target = t]
<1>1. r.target = t
  BY Zenon DEF RowAndInbox, RowType
<1>2. Put(q, t) \in {q, [row |-> r, inbox |-> Append(q.inbox, ManagerUpdate(r))]}
  BY Zenon DEF Put
<1>. HIDE DEF r
<1>. QED BY <1>1, <1>2

(***************************************************************************)
(* Clearing the target first leaves the old target or none.                *)
(***************************************************************************)
LEMMA BaseTarget ==
    ASSUME ServerTypes, NEW c
    PROVE  Base(c).row.target \in {row.target, NoTarget}
<1> DEFINE q == [row |-> row, inbox |-> inbox]
<1>1. q \in RowAndInbox
  BY Zenon DEF RowAndInbox, ServerTypes
<1>2. Base(c) \in {q, Put(q, NoTarget)}
  BY Zenon DEF Base
<1>3. q.row = row
  BY Zenon
<1>. HIDE DEF q
<1>. QED BY <1>1, <1>2, <1>3, PutTarget, Zenon

(***************************************************************************)
(* The server sets no target of its own.                                   *)
(***************************************************************************)
LEMMA ServerTargets ==
    ASSUME row \in RowType, ServerStep
    PROVE  row'.target \in {row.target, NoTarget}
<1>1. row' = row \/ row' \in {[row EXCEPT !.up = FALSE], [row EXCEPT !.up = TRUE],
                              [EmptyRow EXCEPT !.exists = FALSE], EmptyRow}
  BY Zenon DEF ServerStep, ServerDrops, ServerConnects, SessionLost, SessionDown, RowDeleted,
               RowInserted, Redirected, AddressChanged, WriteAwlan, Report
<1>. QED BY <1>1 DEF RowType, EmptyRow

(***************************************************************************)
(* Who writes a target: the code that connects, with an address that is    *)
(* not new, or in FAST_RECONNECT while disconnected.                       *)
(***************************************************************************)
Writer(a, ls, c) ==
    /\ Pair(a, ls) /\ WriteTarget(a, ls, c) /\ dest' = dest
    /\ \/ ~addr[dest].updated
       \/ pass = "run" /\ state = "FAST_RECONNECT" /\ ~connected

(***************************************************************************)
(* Only an attempt of CM puts another target into the row.                 *)
(***************************************************************************)
LEMMA WhoWrites ==
    ASSUME ListInv, [Next]_vars, row'.target # row.target, row'.target # NoTarget
    PROVE  \E a, ls, c : /\ Writer(a, ls, c)
                         /\ row'.target = TargetOf(Picked(a, ls), ls)
<1>1. ServerTypes /\ row \in RowType
  BY Zenon DEF ListInv, TypeOK, ServerTypes
<1>2. \A c : /\ Base(c) \in RowAndInbox
             /\ Base(c).row.target \in {row.target, NoTarget}
  BY <1>1, BaseType, BaseTarget, Zenon DEF ServerTypes
<1>3. ASSUME NEW c PROVE ~Commit(Base(c))
  BY <1>2, Zenon DEF Commit
<1>4. ~SetTarget(NoTarget)
  <2>1. Put(Base(FALSE), NoTarget).row.target \in {row.target, NoTarget}
    BY <1>2, PutTarget, Zenon
  <2>. QED BY <2>1, Zenon DEF SetTarget, Commit
<1>5. ASSUME NEW a, NEW ls, NEW c, Writer(a, ls, c)
      PROVE  row'.target = TargetOf(Picked(a, ls), ls)
  <2> DEFINE t == TargetOf(Picked(a, ls), ls)
  <2>1. row' = Put(Base(c), t).row
    BY <1>5, Zenon DEF Writer, WriteTarget, Commit
  <2>. HIDE DEF t
  <2>2. row'.target \in {Base(c).row.target, t}
    BY <1>2, <2>1, PutTarget, Zenon
  <2>. QED BY <1>2, <2>2, Zenon DEF t
<1>. SUFFICES \E a, ls, c : Writer(a, ls, c)
  BY <1>5, Zenon
<1>6. row' # row
  BY Zenon
<1>7. CASE \/ \E r : BeginPass(r)
           \/ GivesUp \/ InitState \/ LinkSel \/ WanIp \/ NtpCheck \/ TryResolve
           \/ FastReconnectWait \/ Connected
           \/ Elapse \/ Answer \/ Deliver \/ UplinkStep \/ UNCHANGED vars
  <2>1. row' = row
    <3>1. CASE \/ \E r : BeginPass(r)
               \/ GivesUp \/ InitState \/ LinkSel \/ WanIp \/ NtpCheck \/ TryResolve
               \/ FastReconnectWait \/ Connected
      BY <3>1, Zenon DEF BeginPass, GivesUp, InitState, LinkSel, WanIp, NtpCheck, TryResolve,
                         FastReconnectWait, Connected, server
    <3>2. CASE Elapse \/ Answer \/ Deliver \/ UplinkStep \/ UNCHANGED vars
      BY <3>2, Zenon DEF Elapse, Answer, Deliver, UplinkStep, UplinkFound, UplinkEcho, UplinkLost,
                         Switches, IpUp, IpDown, Renew, UplinkRest, server, vars
    <3>. QED BY <1>7, <3>1, <3>2, Zenon
  <2>. QED BY <1>6, <2>1, Zenon
<1>8. CASE OvsInit \/ ReConnect \/ QuiesceOvs
  <2>1. row' = row \/ SetTarget(NoTarget) \/ \E c : Commit(Base(c))
    BY <1>8, Zenon DEF OvsInit, ReConnect, QuiesceOvs, ClearOnEntry, server
  <2>. QED BY <1>3, <1>4, <1>6, <2>1, Zenon
<1>9. CASE TryConnect
  <2>1. \/ row' = row
        \/ \E a, ls, c : WriteFails(a, ls, c)
        \/ \E a, ls, c : Writer(a, ls, c)
    <3>1. \/ row' = row
          \/ \E a, ls, c : WriteFails(a, ls, c)
          \/ dest' = dest /\ ~addr[dest].updated /\ WriteTarget(addr[dest], lists[dest], FALSE)
          \/ /\ dest' = dest /\ ~addr[dest].updated /\ Trying
             /\ WriteTarget(MovedAddr(addr[dest]), MovedList(addr[dest], lists[dest]), FALSE)
      BY <1>9, Zenon DEF TryConnect, Running, Trying, server
    <3>. QED BY <3>1, Zenon DEF Writer, Pair
  <2>. QED BY <1>3, <1>6, <2>1, Zenon DEF WriteFails
<1>10. CASE FastReconnect
  <2>1. \/ \E a, ls, c : WriteFails(a, ls, c)
        \/ \E c : Commit(Base(c))
        \/ \E a, ls, c : Writer(a, ls, c)
    BY <1>10, Zenon DEF FastReconnect, Running, Disconnected, Writer, Pair, ClearOnEntry
  <2>. QED BY <1>3, <2>1, Zenon DEF WriteFails
<1>11. CASE Resets
  BY <1>11, Zenon DEF Resets, Reset, EmptyRow
<1>12. CASE ServerStep
  BY <1>1, <1>12, ServerTargets, Zenon
<1>. QED BY <1>7, <1>8, <1>9, <1>10, <1>11, <1>12, StepKinds, Zenon

(***************************************************************************)
(* The target that is written for the manager is of the host in            *)
(* addr_manager.                                                           *)
(***************************************************************************)
LEMMA WritesCurrent ==
    ASSUME ListInv, FreshInv, [Next]_vars
    PROVE  Writes("MANAGER") => Current("MANAGER")
<1>1. SUFFICES ASSUME Writes("MANAGER") PROVE Current("MANAGER")
  BY Zenon
<1>2. dest' = "MANAGER" /\ row'.target # row.target /\ row'.target # NoTarget
  BY <1>1, Zenon DEF Writes
<1>3. PICK a, ls, c : Writer(a, ls, c) /\ row'.target = TargetOf(Picked(a, ls), ls)
  BY <1>2, WhoWrites, Zenon
<1>4. Pair(a, ls) /\ WriteTarget(a, ls, c) /\ dest = "MANAGER"
  BY <1>2, <1>3, Zenon DEF Writer
<1>5. ~addr["MANAGER"].updated
  BY <1>3, <1>4, Zenon DEF Writer, FreshInv, PassLooked
<1> DEFINE f == PrefFam(Picked(a, ls))
<1>6. a \in AddrType /\ ls \in [Families -> ListType] /\ Offers(ls) # {}
  BY <1>4, PairGood, Zenon DEF Good, WriteTarget, CanWrite
<1>7. row'.target.host = ls[f].host /\ f \in Families /\ ls[f].host # NoHost
  BY <1>3, <1>6, WrittenTarget, Zenon
<1>. HIDE DEF f
<1>8. ls[f].host = lists["MANAGER"][f].host /\ a.host = addr["MANAGER"].host
  BY <1>4, <1>7, PairSame
<1>9. addr'["MANAGER"].host = addr["MANAGER"].host
  <2>1. SameNames
    BY <1>4, AttemptSame, Zenon DEF Attempts
  <2>. QED BY <2>1, Zenon DEF SameNames, Dests
<1>10. addr["MANAGER"].host # NoHost => ls[f].host = addr["MANAGER"].host
  BY <1>5, <1>7, <1>8, Zenon DEF FreshInv, TakenUp, MyList
<1>. QED BY <1>7, <1>9, <1>10, Zenon DEF Current

(***************************************************************************)
(* The target that CM writes for the manager is an address of the host in  *)
(* addr_manager, never one that was resolved for an earlier manager_addr,  *)
(* whatever answers were late and whatever queries were refused.           *)
(***************************************************************************)
THEOREM FreshCorrect == Spec => FreshManager
<1>1. ListInv /\ FreshInv /\ [Next]_vars => [Writes("MANAGER") => Current("MANAGER")]_vars
  BY WritesCurrent, Zenon
<1>. QED BY <1>1, FreshHolds, PTL DEF Spec, FreshManager
-----------------------------------------------------------------------------
(* Whom CM is connected to.                                                *)

(***************************************************************************)
(* The names of a destination stay its own.                                *)
(***************************************************************************)
LEMMA OwnStep ==
    ASSUME ListInv, OwnHosts, [Next]_vars
    PROVE  OwnNames'
<1>1. NamesOK /\ dest \in Dests /\ inbox \in Seq(UpdateType) /\ OwnNames
  BY Zenon DEF ListInv, TypeOK, NamesOK, OwnHosts
<1>2. \A d \in Dests : Good(lists[d])
  BY ListsGood, Zenon
<1>3. \A d : NoHost \in Own(d)
  BY Zenon DEF Own
<1>4. ASSUME \A d \in Dests : addr'[d].host \in {addr[d].host, NoHost},
             \A d \in Dests, f \in Families :
                 /\ lists'[d][f].host \in {NoHost, lists[d][f].host, lists[d][f].ask}
                 /\ lists'[d][f].ask \in {NoHost, lists[d][f].ask, addr[d].host}
      PROVE  OwnNames'
  <2>1. \A d \in Dests : addr'[d].host \in Own(d)
    BY <1>1, <1>3, <1>4, Zenon DEF OwnNames
  <2>2. \A d \in Dests, f \in Families : lists'[d][f].host \in Own(d) /\ lists'[d][f].ask \in Own(d)
    BY <1>1, <1>3, <1>4, Zenon DEF OwnNames
  <2>. QED BY <2>1, <2>2, Zenon DEF OwnNames, Own, HostsOf
<1>5. ASSUME SameNames PROVE OwnNames'
  BY <1>4, <1>5, Zenon DEF SameNames
<1>6. ASSUME addr' = addr, lists' = lists PROVE OwnNames'
  BY <1>4, <1>6, Zenon
<1>7. ASSUME NEW r, BeginPass(r) PROVE OwnNames'
  <2>1. /\ lists' = lists
        /\ \/ addr' = addr
           \/ addr' = [addr EXCEPT !["REDIR"].updated = FALSE]
           \/ addr' = [addr EXCEPT !["MANAGER"].pref6 = addr["REDIR"].pref6]
    BY <1>7, BeginIs, Zenon DEF BeginEffect
  <2>2. \A d \in Dests : addr'[d].host = addr[d].host
    BY <1>1, <2>1 DEF NamesOK, AddrType
  <2>. QED BY <1>4, <2>1, <2>2, Zenon
<1>8. CASE OvsInit
  <2>1. CASE ~(addr' = addr /\ lists' = lists)
    <3>1. /\ addr'["MANAGER"].host = NoHost /\ addr'["REDIR"].host = addr["REDIR"].host
          /\ lists' = [lists EXCEPT !["MANAGER"] = FreedLists(lists["MANAGER"])]
      BY <1>1, <1>8, <2>1, ForgetsNames, Zenon
    <3>2. \A d \in Dests, f \in Families : /\ lists'[d][f].host \in {NoHost, lists[d][f].host}
                                           /\ lists'[d][f].ask = lists[d][f].ask
      BY SMTT(30), <1>1, <1>2, <3>1, FreedGood DEF NamesOK, Dests
    <3>. QED BY <1>4, <3>1, <3>2, Zenon DEF Dests
  <2>. QED BY <1>6, <2>1, Zenon
<1>9. CASE TryResolve
  <2> DEFINE ls == [lists EXCEPT ![dest] = Queried(dest)]
  <2>1. addr' \in {addr, Asked(dest)} /\ lists' \in {lists, Stopped(lists), ls, Stopped(ls)}
    <3>1. Refused(dest) \in {addr, Asked(dest)}
      BY Zenon DEF Refused
    <3>. QED BY <1>9, <3>1, Zenon DEF TryResolve
  <2>2. \A d \in Dests : addr'[d].host = addr[d].host
    BY <1>1, <2>1 DEF Asked, NamesOK, AddrType
  <2>3. /\ Good(Queried(dest))
        /\ \A f \in Families : /\ Queried(dest)[f].host = NoHost
                               /\ Queried(dest)[f].ask \in {addr[dest].host, lists[dest][f].ask}
    BY <1>1, <1>2, QueriedGood, Zenon DEF NamesOK, AddrType
  <2>4. /\ \A d \in Dests : Good(ls[d])
        /\ \A d \in Dests, f \in Families : /\ ls[d][f].host \in {NoHost, lists[d][f].host}
                                            /\ ls[d][f].ask \in {addr[d].host, lists[d][f].ask}
    BY <1>1, <1>2, <2>3, Zenon DEF NamesOK
  <2>. HIDE DEF ls
  <2>5. /\ \A d \in Dests, f \in Families : /\ Stopped(ls)[d][f].host = ls[d][f].host
                                            /\ Stopped(ls)[d][f].ask \in {NoHost, ls[d][f].ask}
        /\ \A d \in Dests, f \in Families : /\ Stopped(lists)[d][f].host = lists[d][f].host
                                            /\ Stopped(lists)[d][f].ask \in {NoHost, lists[d][f].ask}
    BY SMTT(30), <1>2, <2>4, StoppedGood
  <2>6. \A d \in Dests, f \in Families :
            /\ lists'[d][f].host \in {NoHost, lists[d][f].host}
            /\ lists'[d][f].ask \in {NoHost, lists[d][f].ask, addr[d].host}
    BY SMTT(30), <2>1, <2>4, <2>5
  <2>. QED BY <1>4, <2>2, <2>6, Zenon
<1>10. CASE TryConnect \/ FastReconnect
  BY <1>5, <1>6, <1>10, ConnectNames, AttemptSame, Zenon
<1>11. CASE FastReconnectWait
  BY <1>5, <1>11, WaitSame, Zenon
<1>12. CASE Resets
  <2>1. /\ addr' = [d \in Dests |-> NoAddr]
        /\ lists' = [d \in Dests |-> [f \in Families |-> NoList]]
    BY <1>12, Zenon DEF Resets, Reset
  <2>. QED BY <1>4, <2>1, Zenon DEF NoAddr, NoList
<1>13. CASE Deliver
  <2> DEFINE e == Head(inbox).dest
             h == Head(inbox).host
  <2>1. CASE ~(addr' = addr /\ lists' = lists)
    <3>1. /\ e \in Dests /\ addr'[e].host = h /\ Head(inbox).table = "AWLAN"
          /\ \A d \in Dests \ {e} : addr'[d] = addr[d]
          /\ lists' = [lists EXCEPT ![e] = FreedLists(lists[e])]
      BY <1>1, <1>13, <2>1, DeliverNames, Zenon
    <3>2. h \in Own(e)
      <4>1. inbox # <<>> /\ OwnQueue(inbox)
        BY <1>13, Zenon DEF Deliver, OwnHosts
      <4>2. Head(inbox) = inbox[1] /\ 1 \in 1 .. Len(inbox)
        BY <1>1, <4>1
      <4>. QED BY <3>1, <4>1, <4>2, Zenon DEF OwnQueue
    <3>. HIDE DEF e, h
    <3>3. \A d \in Dests, f \in Families : /\ lists'[d][f].host \in {NoHost, lists[d][f].host}
                                           /\ lists'[d][f].ask = lists[d][f].ask
      BY <1>1, <1>2, <3>1, FreedGood DEF NamesOK
    <3>4. \A d \in Dests : addr'[d].host \in Own(d)
      BY <1>1, <3>1, <3>2, Zenon DEF OwnNames
    <3>5. \A d \in Dests, f \in Families : lists'[d][f].host \in Own(d) /\ lists'[d][f].ask \in Own(d)
      BY <1>1, <1>3, <3>3, Zenon DEF OwnNames
    <3>. QED BY <3>4, <3>5, Zenon DEF OwnNames, Own, HostsOf
  <2>. QED BY <1>6, <2>1, Zenon
<1>14. CASE Answer
  <2>1. PICK d \in Dests, f \in Families :
            /\ lists[d][f].st = "IN_PROGRESS"
            /\ \E n, st, h : AnswerKind(d, f, st, h, n) /\ Answered(d, f, st, h, n)
    BY <1>14, AnswerIs, Zenon
  <2>2. PICK n, st, h : AnswerKind(d, f, st, h, n) /\ Answered(d, f, st, h, n)
    BY <2>1, Zenon
  <2>3. addr' = addr
    BY <1>14, Zenon DEF Answer
  <2>4. /\ lists'[d][f].ask = NoHost /\ lists'[d][f].host = h
        /\ \A e \in Dests, g \in Families :
               ~(e = d /\ g = f) => lists'[e][g] = lists[e][g]
    BY <1>1, <2>2, Zenon DEF Answered, NamesOK
  <2>5. h \in {lists[d][f].ask, lists[d][f].host}
    BY <2>2, Zenon DEF AnswerKind
  <2>. QED BY <1>4, <2>3, <2>4, <2>5, Zenon
<1>. QED BY <1>6, <1>7, <1>8, <1>9, <1>10, <1>11, <1>12, <1>13, <1>14, StepKinds, NamesKept, Zenon
(***************************************************************************)
(* What an update at the end of the inbox, and the reading of the first    *)
(* one, do to what the inbox tells.                                        *)
(***************************************************************************)
LEMMA AppendManager ==
    ASSUME NEW q \in Seq(UpdateType), NEW r \in RowType
    PROVE  LET p == Append(q, ManagerUpdate(r))
           IN  Told(r, p) /\ ~Silent(p) /\ (OwnQueue(q) => OwnQueue(p))
<1> DEFINE u == ManagerUpdate(r)
           p == Append(q, u)
           n == Len(q)
<1>1. u \in UpdateType /\ u.table = "Manager" /\ u.row = r
  BY RowValues, Zenon DEF ManagerUpdate
<1>. HIDE DEF u
<1>2. n \in Nat /\ Len(p) = n + 1 /\ p[n + 1] = u /\ \A i \in 1 .. n : p[i] = q[i]
  BY <1>1
<1>. HIDE DEF p
<1>3. ~Silent(p)
  BY <1>1, <1>2 DEF Silent
<1>4. Told(r, p)
  <2>. SUFFICES ASSUME NEW i \in 1 .. Len(p),
                       \A j \in i + 1 .. Len(p) : p[j].table # "Manager"
                PROVE  p[i].row = r
    BY Zenon DEF Told
  <2>1. i = n + 1
    <3>. SUFFICES ASSUME i # n + 1 PROVE FALSE
      BY Zenon
    <3>1. n + 1 \in i + 1 .. Len(p)
      BY <1>2
    <3>. QED BY <1>1, <1>2, <3>1, Zenon
  <2>. QED BY <1>1, <1>2, <2>1, Zenon
<1>5. ASSUME OwnQueue(q) PROVE OwnQueue(p)
  <2>. SUFFICES ASSUME NEW i \in 1 .. Len(p), p[i].table = "AWLAN"
                PROVE  p[i].host \in Own(p[i].dest)
    BY Zenon DEF OwnQueue
  <2>1. i # n + 1
    BY <1>1, <1>2, Zenon
  <2>2. i \in 1 .. n
    BY <1>2, <2>1
  <2>. QED BY <1>2, <1>5, <2>2, Zenon DEF OwnQueue
<1>. QED BY <1>3, <1>4, <1>5, Zenon DEF p, u

(***************************************************************************)
(* An update of AWLAN_Node that is queued hides no update of the row.      *)
(***************************************************************************)
LEMMA AppendAwlan ==
    ASSUME NEW q \in Seq(UpdateType), NEW d \in Dests, NEW h \in AnyHost, NEW r
    PROVE  LET p == Append(q, AwlanUpdate(d, h))
           IN  /\ Told(r, q) => Told(r, p)
               /\ Silent(p) => Silent(q)
               /\ OwnQueue(q) /\ h \in Own(d) => OwnQueue(p)
<1> DEFINE u == AwlanUpdate(d, h)
           p == Append(q, u)
           n == Len(q)
<1>1. u \in UpdateType /\ u.table = "AWLAN" /\ u.dest = d /\ u.host = h
  BY RowValues, Zenon DEF AwlanUpdate
<1>. HIDE DEF u
<1>2. n \in Nat /\ Len(p) = n + 1 /\ p[n + 1] = u /\ \A i \in 1 .. n : p[i] = q[i]
  BY <1>1
<1>. HIDE DEF p
<1>3. \A i \in 1 .. Len(p) : i \in 1 .. n \/ i = n + 1
  BY <1>2
<1>4. ASSUME Silent(p) PROVE Silent(q)
  <2>1. \A i \in 1 .. n : i \in 1 .. Len(p)
    BY <1>2
  <2>. QED BY <1>2, <1>4, <2>1, Zenon DEF Silent
<1>5. ASSUME Told(r, q) PROVE Told(r, p)
  <2>. SUFFICES ASSUME NEW i \in 1 .. Len(p), p[i].table = "Manager",
                       \A j \in i + 1 .. Len(p) : p[j].table # "Manager"
                PROVE  p[i].row = r
    BY Zenon DEF Told
  <2>1. i \in 1 .. n
    BY <1>1, <1>2, <1>3, Zenon
  <2>2. \A j \in i + 1 .. n : j \in i + 1 .. Len(p) /\ p[j] = q[j]
    BY <1>2, <2>1
  <2>3. q[i].table = "Manager" /\ \A j \in i + 1 .. n : q[j].table # "Manager"
    BY <1>2, <2>1, <2>2, Zenon
  <2>4. q[i].row = r
    BY <1>5, <2>1, <2>3, Zenon DEF Told
  <2>. QED BY <1>2, <2>1, <2>4, Zenon
<1>6. ASSUME OwnQueue(q), h \in Own(d) PROVE OwnQueue(p)
  BY <1>1, <1>2, <1>3, <1>6, Zenon DEF OwnQueue
<1>. QED BY <1>4, <1>5, <1>6, Zenon DEF p, u

(***************************************************************************)
(* Taking the first update off the queue: the last update of the row is    *)
(* still queued, or is the one that was taken.                             *)
(***************************************************************************)
LEMMA TailTold ==
    ASSUME NEW q \in Seq(UpdateType), q # <<>>, NEW r, Told(r, q)
    PROVE  /\ Told(r, Tail(q))
           /\ OwnQueue(q) => OwnQueue(Tail(q))
           /\ Silent(Tail(q)) =>
                  IF Head(q).table = "Manager" THEN Head(q).row = r ELSE Silent(q)
<1> DEFINE p == Tail(q)
           n == Len(q)
<1>1. /\ n \in Nat /\ n > 0 /\ Len(p) = n - 1 /\ Head(q) = q[1]
      /\ \A i \in 1 .. n - 1 : p[i] = q[i + 1]
  OBVIOUS
<1>. HIDE DEF p
<1>2. Told(r, p)
  <2>. SUFFICES ASSUME NEW i \in 1 .. Len(p), p[i].table = "Manager",
                       \A j \in i + 1 .. Len(p) : p[j].table # "Manager"
                PROVE  p[i].row = r
    BY Zenon DEF Told
  <2>1. i + 1 \in 1 .. n /\ p[i] = q[i + 1]
    BY <1>1
  <2>2. ASSUME NEW j \in (i + 1) + 1 .. n PROVE q[j].table # "Manager"
    <3>1. j - 1 \in i + 1 .. Len(p) /\ j - 1 \in 1 .. n - 1 /\ (j - 1) + 1 = j
      BY <1>1
    <3>. QED BY <1>1, <3>1, Zenon
  <2>3. q[i + 1].row = r
    BY <2>1, <2>2, Zenon DEF Told
  <2>. QED BY <2>1, <2>3, Zenon
<1>3. ASSUME OwnQueue(q) PROVE OwnQueue(p)
  <2>. SUFFICES ASSUME NEW i \in 1 .. Len(p), p[i].table = "AWLAN"
                PROVE  p[i].host \in Own(p[i].dest)
    BY Zenon DEF OwnQueue
  <2>1. i + 1 \in 1 .. n /\ p[i] = q[i + 1]
    BY <1>1
  <2>. QED BY <1>3, <2>1, Zenon DEF OwnQueue
<1>4. ASSUME Silent(p)
      PROVE  IF Head(q).table = "Manager" THEN Head(q).row = r ELSE Silent(q)
  <2>1. ASSUME NEW j \in 2 .. n PROVE q[j].table # "Manager"
    <3>1. j - 1 \in 1 .. Len(p) /\ j - 1 \in 1 .. n - 1 /\ (j - 1) + 1 = j
      BY <1>1
    <3>. QED BY <1>1, <1>4, <3>1, Zenon DEF Silent
  <2>2. 1 \in 1 .. n /\ \A i \in 1 .. n : i = 1 \/ i \in 2 .. n
    BY <1>1
  <2>3. CASE q[1].table = "Manager"
    <3>1. \A j \in 1 + 1 .. n : q[j].table # "Manager"
      BY <2>1
    <3>2. q[1].row = r
      BY <2>2, <2>3, <3>1, Zenon DEF Told
    <3>. QED BY <1>1, <2>3, <3>2, Zenon
  <2>4. CASE q[1].table # "Manager"
    BY <1>1, <2>1, <2>2, <2>4, Zenon DEF Silent
  <2>. QED BY <2>3, <2>4, Zenon
<1>. QED BY <1>2, <1>3, <1>4, Zenon DEF p
-----------------------------------------------------------------------------
(* The row, the session and what CM is told of them.                       *)

ServerInv == RowTruth /\ ViewTruth /\ OwnQueue(inbox)

(***************************************************************************)
(* A row and an inbox that CM's writing leaves: the inbox tells of the     *)
(* row, and only the target can have changed.                              *)
(***************************************************************************)
Faithful(q) ==
    /\ q \in RowAndInbox /\ Told(q.row, q.inbox) /\ OwnQueue(q.inbox)
    /\ Silent(q.inbox) => q.row = row /\ Silent(inbox)
    /\ q.row.exists = row.exists /\ q.row.up = row.up
    /\ ~row.exists => q.row.target = NoTarget

(***************************************************************************)
(* A put keeps the queue telling the row, and leaves its target in a row   *)
(* that exists.                                                            *)
(***************************************************************************)
LEMMA FaithfulPut ==
    ASSUME NEW q, Faithful(q), NEW t \in Targets
    PROVE  Faithful(Put(q, t)) /\ (row.exists => Put(q, t).row.target = t)
<1> DEFINE r == [q.row EXCEPT !.target = t]
           p == [row |-> r, inbox |-> Append(q.inbox, ManagerUpdate(r))]
<1>1. q.row \in RowType /\ q.inbox \in Seq(UpdateType)
  BY Zenon DEF Faithful, RowAndInbox
<1>2. r \in RowType /\ r.exists = q.row.exists /\ r.up = q.row.up /\ r.target = t
  BY <1>1, Zenon DEF RowType
<1>3. Put(q, t) = IF q.row.exists /\ q.row.target # t THEN p ELSE q
  BY Zenon DEF Put
<1>. HIDE DEF r
<1>4. p.row = r /\ p.inbox = Append(q.inbox, ManagerUpdate(r))
  BY Zenon
<1>5. CASE q.row.exists /\ q.row.target # t
  <2>1. Put(q, t) = p
    BY <1>3, <1>5, Zenon
  <2>2. p \in RowAndInbox
    BY <2>1, PutType, Zenon DEF Faithful
  <2>3. Told(p.row, p.inbox) /\ ~Silent(p.inbox) /\ OwnQueue(p.inbox)
    BY <1>1, <1>2, <1>4, AppendManager, Zenon DEF Faithful
  <2>. HIDE DEF p
  <2>4. p.row.exists = row.exists /\ p.row.up = row.up /\ row.exists
    BY <1>2, <1>4, <1>5, Zenon DEF Faithful
  <2>5. Faithful(p)
    BY <2>2, <2>3, <2>4, Zenon DEF Faithful
  <2>. QED BY <1>2, <1>4, <2>1, <2>5, Zenon
<1>6. CASE ~(q.row.exists /\ q.row.target # t)
  BY <1>3, <1>6, Zenon DEF Faithful
<1>. QED BY <1>5, <1>6, Zenon

(***************************************************************************)
(* So does clearing the target first.                                      *)
(***************************************************************************)
LEMMA FaithfulBase ==
    ASSUME ServerTypes, ServerInv, NEW c
    PROVE  Faithful(Base(c))
<1> DEFINE q == [row |-> row, inbox |-> inbox]
<1>1. q \in RowAndInbox /\ q.row = row /\ q.inbox = inbox
  BY Zenon DEF RowAndInbox, ServerTypes
<1>2. Base(c) \in {q, Put(q, NoTarget)}
  BY Zenon DEF Base
<1>. HIDE DEF q
<1>3. Faithful(q)
  BY <1>1, Zenon DEF Faithful, ServerInv, ViewTruth, RowTruth
<1>. QED BY <1>2, <1>3, FaithfulPut, RowValues, Zenon

(***************************************************************************)
(* Committing such a row and queue keeps what CM knows, or will know,      *)
(* true.                                                                   *)
(***************************************************************************)
LEMMA FaithfulCommit ==
    ASSUME ServerInv, UNCHANGED view, NEW q, Faithful(q), Commit(q)
    PROVE  ServerInv'
<1>1. row' = q.row /\ inbox' = q.inbox /\ session' = session
  BY Zenon DEF Commit
<1>2. connected' = connected /\ target' = target /\ have' = have
  BY Zenon DEF view
<1>3. RowTruth'
  BY <1>1, Zenon DEF ServerInv, RowTruth, Faithful
<1>4. Told(row', inbox') /\ OwnQueue(inbox')
  BY <1>1, Zenon DEF Faithful
<1>5. ASSUME Silent(inbox') PROVE Seen'
  <2>1. row' = row /\ Silent(inbox)
    BY <1>1, <1>5, Zenon DEF Faithful
  <2>. QED BY <1>2, <2>1, Zenon DEF ServerInv, ViewTruth, Seen
<1>. QED BY <1>3, <1>4, <1>5, Zenon DEF ServerInv, ViewTruth, Told, Silent, OwnQueue, Own, HostsOf

(***************************************************************************)
(* The targets written are addresses of the destination.                   *)
(***************************************************************************)
LEMMA OwnTarget ==
    ASSUME ListInv, OwnNames, NEW a, NEW ls, Pair(a, ls), Offers(ls) # {}
    PROVE  LET t == TargetOf(Picked(a, ls), ls)
           IN  t \in Targets /\ t.host \in HostsOf(dest)
<1> DEFINE f == PrefFam(Picked(a, ls))
           t == TargetOf(Picked(a, ls), ls)
<1>1. a \in AddrType /\ ls \in [Families -> ListType] /\ dest \in Dests
  BY PairGood, ListsGood, Zenon DEF Good
<1>2. t \in Targets /\ t.host = ls[f].host /\ f \in Families /\ ls[f].host # NoHost
  BY <1>1, WrittenTarget, Zenon
<1>. HIDE DEF f, t
<1>3. ls[f].host = lists[dest][f].host
  BY <1>2, PairSame, Zenon
<1>4. lists[dest][f].host \in Own(dest)
  BY <1>1, <1>2, Zenon DEF OwnNames
<1>5. t.host \in HostsOf(dest)
  BY <1>2, <1>3, <1>4, Zenon DEF Own
<1>. QED BY <1>2, <1>5, Zenon DEF t

(***************************************************************************)
(* A step keeps the inbox telling of the row.                              *)
(***************************************************************************)
LEMMA TellsStep ==
    ASSUME ListInv, OwnNames, ServerInv, [Next]_vars
    PROVE  ServerInv'
<1>1. ServerTypes /\ row \in RowType /\ inbox \in Seq(UpdateType)
  BY Zenon DEF ListInv, TypeOK, ServerTypes
<1>2. \A c : Faithful(Base(c))
  BY <1>1, FaithfulBase, Zenon
<1>3. ASSUME UNCHANGED view, UNCHANGED server PROVE ServerInv'
  BY <1>3, Zenon
  DEF view, server, ServerInv, RowTruth, ViewTruth, Seen, Told, Silent, OwnQueue, Own,
              HostsOf
<1>4. ASSUME NEW d \in Dests, NEW h \in Own(d), UNCHANGED view, UNCHANGED <<row, session>>,
             inbox' = Append(inbox, AwlanUpdate(d, h))
      PROVE  ServerInv'
  <2>1. h \in AnyHost
    BY <1>4, Zenon DEF Own, HostsOf, AnyHost, Hosts
  <2>2. Told(row, inbox') /\ (Silent(inbox') => Silent(inbox)) /\ OwnQueue(inbox')
    BY <1>1, <1>4, <2>1, AppendAwlan, Zenon DEF ServerInv, ViewTruth
  <2>. QED BY <1>4, <2>2, Zenon
       DEF view, ServerInv, RowTruth, ViewTruth, Seen, Told, Silent, OwnQueue, Own, HostsOf
<1>5. CASE \/ InitState \/ LinkSel \/ WanIp \/ NtpCheck
           \/ OvsInit \/ TryResolve \/ ReConnect \/ TryConnect
           \/ FastReconnect \/ FastReconnectWait \/ Connected \/ QuiesceOvs
  <2>1. UNCHANGED view
    BY <1>5, Zenon DEF InitState, LinkSel, WanIp, NtpCheck, OvsInit, TryResolve, ReConnect,
                       TryConnect, FastReconnect, FastReconnectWait, Connected, QuiesceOvs
  <2>2. CASE \E c : Commit(Base(c))
    BY <1>2, <2>1, <2>2, FaithfulCommit, Zenon
  <2>3. CASE SetTarget(NoTarget)
    <3>1. Faithful(Put(Base(FALSE), NoTarget))
      BY <1>2, FaithfulPut, RowValues, Zenon
    <3>. QED BY <2>1, <2>3, <3>1, FaithfulCommit, Zenon DEF SetTarget
  <2>4. CASE ForgetManager /\ UNCHANGED <<row, session>>
    <3>1. inbox' = inbox \/ inbox' = Append(inbox, AwlanUpdate("MANAGER", NoHost))
      BY <2>4, Zenon DEF ForgetManager
    <3>2. CASE inbox' = inbox
      BY <2>1, <2>4, <3>2, Zenon
         DEF view, ServerInv, RowTruth, ViewTruth, Seen, Told, Silent, OwnQueue, Own, HostsOf
    <3>3. "MANAGER" \in Dests /\ NoHost \in Own("MANAGER")
      BY Zenon DEF Dests, Own
    <3>. QED BY <1>4, <2>1, <2>4, <3>1, <3>2, <3>3, Zenon
  <2>5. CASE Attempts
    <3>1. PICK a, ls, c : Pair(a, ls) /\ (WriteTarget(a, ls, c) \/ WriteFails(a, ls, c))
      BY <2>5, Zenon DEF Attempts
    <3>2. CASE WriteFails(a, ls, c)
      BY <1>2, <2>1, <3>2, FaithfulCommit, Zenon DEF WriteFails
    <3>3. CASE WriteTarget(a, ls, c)
      <4> DEFINE t == TargetOf(Picked(a, ls), ls)
      <4>1. Offers(ls) # {} /\ Commit(Put(Base(c), t))
        BY <3>3, Zenon DEF WriteTarget, CanWrite
      <4>2. t \in Targets
        BY <3>1, <4>1, OwnTarget, Zenon
      <4>. HIDE DEF t
      <4>3. Faithful(Put(Base(c), t))
        BY <1>2, <4>2, FaithfulPut, Zenon
      <4>. QED BY <2>1, <4>1, <4>3, FaithfulCommit, Zenon
    <3>. QED BY <3>1, <3>2, <3>3, Zenon
  <2>. QED BY <1>3, <1>5, <2>1, <2>2, <2>3, <2>4, <2>5, ServerWrites, Zenon
<1>6. CASE \/ \E r : BeginPass(r)
           \/ GivesUp \/ Elapse \/ Answer \/ UplinkStep \/ UNCHANGED vars
  <2>1. UNCHANGED server /\ UNCHANGED view
    BY <1>6, Zenon DEF BeginPass, GivesUp, Elapse, Answer, UplinkStep, UplinkFound, UplinkEcho,
                       UplinkLost, Switches, IpUp, IpDown, Renew, UplinkRest, vars
  <2>. QED BY <1>3, <2>1, Zenon
<1>7. CASE Deliver
  <2> DEFINE m == Head(inbox)
  <2>1. /\ inbox # <<>> /\ inbox' = Tail(inbox) /\ row' = row /\ session' = session
        /\ \/ /\ m.table = "Manager" /\ m.row.exists /\ have' = have \cup {"manager"}
              /\ connected' = m.row.up /\ target' = m.row.target
           \/ /\ m.table = "Manager" /\ ~m.row.exists
              /\ have' = have \ {"manager"} /\ connected' = FALSE
           \/ /\ m.table = "AWLAN" /\ have' = have \cup {"awlan"}
              /\ connected' = connected /\ target' = target
    BY <1>7, Zenon DEF Deliver
  <2>2. /\ Told(row, inbox') /\ OwnQueue(inbox')
        /\ Silent(inbox') => IF m.table = "Manager" THEN m.row = row ELSE Silent(inbox)
    BY <1>1, <2>1, TailTold, Zenon DEF ServerInv, ViewTruth
  <2>. HIDE DEF m
  <2>3. RowTruth'
    BY <2>1, Zenon DEF ServerInv, RowTruth
  <2>4. ASSUME Silent(inbox') PROVE Seen'
    <3>1. CASE m.table = "Manager" /\ row.exists
      <4>1. m.row = row
        BY <2>2, <2>4, <3>1, Zenon
      <4>. QED BY <2>1, <3>1, <4>1, Zenon DEF Seen
    <3>2. CASE m.table = "Manager" /\ ~row.exists
      <4>1. m.row = row
        BY <2>2, <2>4, <3>2, Zenon
      <4>2. have' = have \ {"manager"} /\ connected' = FALSE
        BY <2>1, <3>2, <4>1, Zenon
      <4>3. row.up = FALSE
        BY <1>1, <3>2, Zenon DEF ServerInv, RowTruth, RowType
      <4>. QED BY <2>1, <3>2, <4>2, <4>3, Zenon DEF Seen
    <3>3. CASE m.table # "Manager"
      <4>1. Seen
        BY <2>2, <2>4, <3>3, Zenon DEF ServerInv, ViewTruth
      <4>. QED BY <2>1, <3>3, <4>1, Zenon DEF Seen
    <3>. QED BY <3>1, <3>2, <3>3, Zenon
  <2>. QED BY <2>1, <2>2, <2>3, <2>4, Zenon
           DEF ServerInv, ViewTruth, Told, Silent, OwnQueue, Own, HostsOf
<1>8. CASE Resets
  <2>1. PICK r \in RedirHosts : inbox' = <<AwlanUpdate("REDIR", r), ManagerUpdate(EmptyRow)>>
    BY <1>8, Zenon DEF Resets, Reset
  <2>2. row' = EmptyRow /\ session' = NoTarget
    BY <1>8, Zenon DEF Resets, Reset
  <2> DEFINE q == <<AwlanUpdate("REDIR", r)>>
  <2>3. AwlanUpdate("REDIR", r) \in UpdateType
    BY RowValues, Zenon DEF Dests, AnyHost, Hosts
  <2>4. q \in Seq(UpdateType) /\ inbox' = Append(q, ManagerUpdate(EmptyRow))
    BY <2>1, <2>3
  <2>5. OwnQueue(q)
    BY DEF OwnQueue, AwlanUpdate, Own, HostsOf
  <2>. HIDE DEF q
  <2>6. Told(row', inbox') /\ ~Silent(inbox') /\ OwnQueue(inbox')
    BY <2>2, <2>4, <2>5, AppendManager, RowValues, Zenon
  <2>7. RowTruth'
    BY <2>2, Zenon DEF RowTruth, EmptyRow
  <2>. QED BY <2>6, <2>7, Zenon DEF ServerInv, ViewTruth, Told, Silent, OwnQueue, Own, HostsOf
<1>9. CASE ServerStep
  <2>1. UNCHANGED view
    BY <1>9, Zenon DEF ServerStep, ServerDrops, ServerConnects, SessionLost, RowDeleted,
                       RowInserted, Redirected, AddressChanged, WriteAwlan, ServerRest
  <2>2. ASSUME NEW r \in RowType, Report(r), RowTruth' PROVE ServerInv'
    <3>1. row' = r /\ inbox' = Append(inbox, ManagerUpdate(r))
      BY <2>2, Zenon DEF Report
    <3>2. Told(row', inbox') /\ ~Silent(inbox') /\ OwnQueue(inbox')
      BY <1>1, <3>1, AppendManager, Zenon DEF ServerInv
    <3>. QED BY <2>2, <3>2, Zenon DEF ServerInv, ViewTruth, Told, Silent, OwnQueue, Own, HostsOf
  <2>3. CASE ServerDrops \/ SessionLost
    <3> DEFINE r == [row EXCEPT !.up = FALSE]
    <3>1. session' = NoTarget /\ Report(r)
      BY <2>3, Zenon DEF ServerDrops, SessionLost, SessionDown
    <3>2. /\ r \in RowType /\ r.up = FALSE /\ r.exists = row.exists /\ r.target = row.target
      BY <1>1, Zenon DEF RowType
    <3>. HIDE DEF r
    <3>3. RowTruth'
      BY <3>1, <3>2, Zenon DEF Report, RowTruth, ServerInv
    <3>. QED BY <2>2, <3>1, <3>2, <3>3, Zenon
  <2>4. CASE ServerConnects
    <3> DEFINE r == [row EXCEPT !.up = TRUE]
    <3>1. session' = row.target /\ row.target \in Reachable /\ Report(r)
      BY <2>4, Zenon DEF ServerConnects
    <3>2. /\ r \in RowType /\ r.up = TRUE /\ r.exists = row.exists /\ r.target = row.target
      BY <1>1, Zenon DEF RowType
    <3>. HIDE DEF r
    <3>3. row.target # NoTarget
      BY <3>1, ConstantsAssumption, Zenon
    <3>4. RowTruth'
      BY <3>1, <3>2, <3>3, Zenon DEF Report, RowTruth, ServerInv
    <3>. QED BY <2>2, <3>1, <3>2, <3>4, Zenon
  <2>5. CASE RowDeleted
    <3> DEFINE r == [EmptyRow EXCEPT !.exists = FALSE]
    <3>1. session' = NoTarget /\ Report(r)
      BY <2>5, Zenon DEF RowDeleted
    <3>2. /\ r \in RowType /\ r.up = FALSE /\ r.target = NoTarget
      BY RowValues, Zenon DEF EmptyRow
    <3>. HIDE DEF r
    <3>3. RowTruth'
      BY <3>1, <3>2, Zenon DEF Report, RowTruth
    <3>. QED BY <2>2, <3>1, <3>2, <3>3, Zenon
  <2>6. CASE RowInserted
    <3>1. session' = session /\ Report(EmptyRow) /\ ~row.exists
      BY <2>6, Zenon DEF RowInserted
    <3>2. RowTruth'
      BY <1>1, <3>1, Zenon DEF Report, RowTruth, ServerInv, EmptyRow
    <3>. QED BY <2>2, <3>1, <3>2, RowValues, Zenon
  <2>7. CASE Redirected \/ AddressChanged
    <3>1. \E d \in Dests : \E h \in Own(d) : WriteAwlan(d, h)
      BY <2>7, Zenon DEF Redirected, AddressChanged, Dests, Own, HostsOf
    <3>2. PICK d \in Dests : \E h \in Own(d) :
              UNCHANGED <<row, session>> /\ inbox' = Append(inbox, AwlanUpdate(d, h))
      BY <3>1, Zenon DEF WriteAwlan
    <3>. QED BY <1>4, <2>1, <3>2, Zenon
  <2>. QED BY <1>9, <2>3, <2>4, <2>5, <2>6, <2>7, Zenon DEF ServerStep
<1>. QED BY <1>5, <1>6, <1>7, <1>8, <1>9, StepKinds, Zenon
-----------------------------------------------------------------------------
(* When the session is kept.                                               *)

(***************************************************************************)
(* The uplinks that occur: none is Wi-Fi, or priorities do not change.     *)
(***************************************************************************)
NoWifiSwitch == TRUE \notin LinkWifi \/ "priority" \notin Faults

(***************************************************************************)
(* Then no uplink is taken over with its session.                          *)
(***************************************************************************)
LEMMA SkipStep ==
    ASSUME NoWifiSwitch, TypeOK, NoSkip, [Next]_vars
    PROVE  NoSkip'
<1>1. link \in LinkType /\ sel \in SelType
  BY Zenon DEF TypeOK
<1>2. sel.skip = FALSE
  BY <1>1, Zenon DEF NoSkip, SelType
<1>3. ASSUME link'.wifi => link.wifi \/ TRUE \in LinkWifi,
             ~sel'.skip, sel'.byPrio => sel.byPrio \/ "priority" \in Faults
      PROVE  NoSkip'
  BY <1>3, Zenon DEF NoSkip
<1>4. \A w \in LinkWifi : NewLink(w).wifi => TRUE \in LinkWifi
  BY LinkValues, ConstantsAssumption, Zenon
<1>5. /\ [sel EXCEPT !.skip = FALSE].skip = FALSE
      /\ [sel EXCEPT !.skip = FALSE].byPrio = sel.byPrio
      /\ \A b : [sel EXCEPT !.prevWifi = b].skip = sel.skip
      /\ \A b : [sel EXCEPT !.prevWifi = b].byPrio = sel.byPrio
      /\ \A b : [NoSel EXCEPT !.skip = b].skip = b
      /\ \A b : [NoSel EXCEPT !.skip = b].byPrio = FALSE
      /\ [sel EXCEPT !.byPrio = TRUE].skip = sel.skip
  BY <1>1, Zenon DEF SelType, NoSel
<1>6. ASSUME NEW l \in LinkType, NEW s, RestartSkipped(l, s), l.wifi => link.wifi
      PROVE  link'.wifi => link.wifi \/ TRUE \in LinkWifi
  <2>1. link' = l \/ \E w \in LinkWifi : link' = NewLink(w)
    BY <1>6, Zenon DEF RestartSkipped
  <2>. QED BY <1>4, <1>6, <2>1, Zenon
<1>7. ASSUME NEW r, BeginPass(r) PROVE NoSkip'
  <2>1. link' = link /\ sel' \in {[sel EXCEPT !.skip = FALSE], sel}
    BY <1>7, Zenon DEF BeginPass
  <2>. QED BY <1>2, <1>3, <1>5, <2>1, Zenon
<1>8. CASE InitState
  <2>1. link'.wifi = (link.used /\ link.wifi) /\ sel' = NoSel
    BY <1>8, Zenon DEF InitState, NoLink
  <2>. QED BY <1>3, <2>1, LinkValues, Zenon
<1>9. CASE LinkSel
  <2> DEFINE prev == IF changed THEN link.used /\ link.wifi ELSE sel.prevWifi
             l == IF changed /\ link.used THEN NoLink ELSE link
  <2>1. l \in LinkType /\ (l.wifi => link.wifi)
    BY <1>1, LinkValues, Zenon
  <2>2. /\ \/ sel' = [NoSel EXCEPT !.skip = prev /\ l.wifi /\ sel.byPrio]
           \/ sel' = [sel EXCEPT !.prevWifi = prev]
           \/ sel' = NoSel
        /\ \/ link' = l /\ UNCHANGED echo
           \/ RestartSkipped(l, "LINK_SEL")
    BY <1>9, Zenon DEF LinkSel
  <2>. HIDE DEF l
  <2>3. ~(prev /\ l.wifi /\ sel.byPrio)
    BY <2>1, Zenon DEF NoSkip, NoWifiSwitch
  <2>. HIDE DEF prev
  <2>4. ~sel'.skip /\ (sel'.byPrio => sel.byPrio)
    BY <1>2, <1>5, <2>2, <2>3, LinkValues, Zenon
  <2>5. link'.wifi => link.wifi \/ TRUE \in LinkWifi
    BY <1>6, <2>1, <2>2, Zenon
  <2>. QED BY <1>3, <2>4, <2>5, Zenon
<1>10. CASE WanIp \/ NtpCheck \/ QuiesceOvs
  <2>1. /\ sel' \in {[sel EXCEPT !.skip = FALSE], sel}
        /\ UNCHANGED <<link, echo>> \/ \E s : RestartSkipped(link, s)
    BY <1>10, Zenon DEF WanIp, NtpCheck, QuiesceOvs, CheckFailed
  <2>2. ~sel'.skip /\ (sel'.byPrio => sel.byPrio)
    BY <1>2, <1>5, <2>1, Zenon
  <2>3. link'.wifi => link.wifi \/ TRUE \in LinkWifi
    BY <1>1, <1>6, <2>1, Zenon
  <2>. QED BY <1>3, <2>2, <2>3, Zenon
<1>11. CASE OvsInit \/ FastReconnect \/ Connected
  <2>1. sel' \in {[sel EXCEPT !.skip = FALSE], sel} /\ link' = link
    BY <1>11, Zenon DEF OvsInit, FastReconnect, Connected
  <2>. QED BY <1>2, <1>3, <1>5, <2>1, Zenon
<1>12. CASE TryResolve
  <2>1. link' \in {[link EXCEPT !.retry = {}], link} /\ sel' = sel
    BY <1>12, Zenon DEF TryResolve
  <2>2. link'.wifi = link.wifi
    BY <1>1, <2>1, Zenon DEF LinkType
  <2>. QED BY <1>2, <1>3, <2>1, <2>2, Zenon
<1>13. CASE Answer
  <2>1. /\ link' = link \/ \E f \in Families : link' = [link EXCEPT !.retry = @ \cup {f}]
        /\ sel' = sel
    BY <1>13, Zenon DEF Answer
  <2>2. link'.wifi = link.wifi
    BY <1>1, <2>1, Zenon DEF LinkType
  <2>. QED BY <1>2, <1>3, <2>1, <2>2, Zenon
<1>14. CASE UplinkStep
  <2>1. /\ sel' = sel \/ (Fault("priority") /\ sel' = [sel EXCEPT !.byPrio = TRUE])
        /\ \/ link' \in {link, NoLink, [link EXCEPT !.echoed = TRUE]}
           \/ \E w \in LinkWifi : link' = NewLink(w)
           \/ \E f \in Stack, v \in {"none", "ready", "blocked"} : link' = [link EXCEPT !.ip[f] = v]
    <3>1. CASE UplinkFound \/ UplinkEcho \/ UplinkLost
      BY <3>1, Zenon DEF UplinkFound, UplinkEcho, UplinkLost
    <3>2. CASE Switches \/ Renew
      BY <3>2, Zenon DEF Switches, Renew, uplink
    <3>3. CASE IpUp \/ IpDown
      BY <3>3, Zenon DEF IpUp, IpDown
    <3>. QED BY <1>14, <3>1, <3>2, <3>3, Zenon DEF UplinkStep
  <2>2. link'.wifi => link.wifi \/ TRUE \in LinkWifi
    <3>1. CASE link' \in {link, NoLink, [link EXCEPT !.echoed = TRUE]}
      BY <1>1, <3>1, LinkValues, Zenon DEF LinkType
    <3>2. CASE \E w \in LinkWifi : link' = NewLink(w)
      BY <1>4, <3>2, Zenon
    <3>3. ASSUME NEW f \in Stack, NEW v, link' = [link EXCEPT !.ip[f] = v]
          PROVE  link'.wifi = link.wifi
      BY <1>1, <3>3, Zenon DEF LinkType
    <3>. QED BY <2>1, <3>1, <3>2, <3>3, Zenon
  <2>3. ~sel'.skip /\ (sel'.byPrio => sel.byPrio \/ "priority" \in Faults)
    BY <1>2, <1>5, <2>1, Zenon DEF Fault
  <2>. QED BY <1>3, <2>2, <2>3, Zenon
<1>15. CASE Resets
  BY <1>15, LinkValues, Zenon DEF Resets, Reset, NoSkip
<1>16. CASE \/ GivesUp \/ ReConnect \/ TryConnect \/ FastReconnectWait \/ Elapse \/ Deliver
            \/ ServerStep \/ UNCHANGED vars
  <2>1. UNCHANGED <<link, sel>>
    BY <1>16, Zenon
    DEF GivesUp, ReConnect, TryConnect, FastReconnectWait, Elapse, Deliver, ServerStep,
        ServerDrops, ServerConnects, SessionLost, RowDeleted, RowInserted, Redirected,
        AddressChanged, WriteAwlan, ServerRest, uplink, vars
  <2>. QED BY <1>2, <1>3, <2>1, Zenon
<1>. QED BY <1>7, <1>8, <1>9, <1>10, <1>11, <1>12, <1>13, <1>14, <1>15, <1>16, StepKinds, Zenon

(***************************************************************************)
(* An uplink that is taken over without its session is not CONNECTED.      *)
(***************************************************************************)
LEMMA NotTakenOver ==
    ASSUME NoSkip
    PROVE  OvsConnect \in {"OVS_INIT", "FAST_RECONNECT"}
BY Zenon DEF NoSkip, OvsConnect

(***************************************************************************)
(* A target that is written is in the row afterwards.                      *)
(***************************************************************************)
LEMMA WrittenInRow ==
    ASSUME ListInv, OwnNames, ServerInv, NEW a, NEW ls, NEW c, Pair(a, ls), WriteTarget(a, ls, c)
    PROVE  row'.target.host \in HostsOf(dest)
<1> DEFINE t == TargetOf(Picked(a, ls), ls)
<1>1. Offers(ls) # {} /\ row.exists /\ Commit(Put(Base(c), t))
  BY Zenon DEF WriteTarget, CanWrite
<1>2. t \in Targets /\ t.host \in HostsOf(dest)
  BY <1>1, OwnTarget, Zenon
<1>. HIDE DEF t
<1>3. Faithful(Base(c))
  BY FaithfulBase, Zenon DEF ListInv, TypeOK, ServerTypes
<1>4. Put(Base(c), t).row.target = t
  BY <1>1, <1>2, <1>3, FaithfulPut, Zenon
<1>. QED BY <1>1, <1>2, <1>4, Zenon DEF Commit

(***************************************************************************)
(* The steps that leave the state of CM alone.                             *)
(***************************************************************************)
LEMMA StateKept ==
    ASSUME GivesUp \/ Elapse \/ Deliver \/ Answer \/ UplinkStep \/ ServerStep \/ UNCHANGED vars
    PROVE  state' = state /\ changed' = changed /\ dest' = dest
<1>1. CASE GivesUp \/ Elapse \/ Deliver \/ Answer \/ UNCHANGED vars
  BY <1>1, Zenon DEF GivesUp, Elapse, Deliver, Answer, core, vars
<1>2. CASE UplinkStep \/ ServerStep
  BY <1>2, Zenon DEF UplinkStep, UplinkFound, UplinkEcho, UplinkLost, Switches, IpUp, IpDown,
                     Renew, UplinkRest, ServerStep, ServerDrops, ServerConnects, SessionLost,
                     RowDeleted, RowInserted, Redirected, AddressChanged, WriteAwlan, ServerRest,
                     core
<1>. QED BY <1>1, <1>2, Zenon

(***************************************************************************)
(* The target in the row stays one of the destination.                     *)
(***************************************************************************)
LEMMA TargetStep ==
    ASSUME ListInv, OwnNames, ServerInv, NoSkip, TargetTruth, [Next]_vars
    PROVE  TargetTruth'
<1> DEFINE Fine == row'.target = NoTarget \/ row'.target.host \in HostsOf(dest')
<1>1. SUFFICES ASSUME (Trying \/ state = "CONNECTED")' PROVE Fine
  BY Zenon DEF TargetTruth, HostsOf
<1>2. ASSUME Trying \/ state = "CONNECTED", dest' = dest, row'.target \in {row.target, NoTarget}
      PROVE  Fine
  BY <1>2, Zenon DEF TargetTruth
<1>3. ASSUME NEW a, NEW ls, NEW c, Pair(a, ls), WriteTarget(a, ls, c), dest' = dest PROVE Fine
  BY <1>3, WrittenInRow, Zenon
<1>. HIDE DEF Fine
<1>4. row \in RowType
  BY Zenon DEF ListInv, TypeOK
<1>5. Trying' => state' \in {"FAST_RECONNECT_WAIT", "TRY_CONNECT"}
  BY Zenon DEF Trying
<1>6. state' \in {"FAST_RECONNECT_WAIT", "TRY_CONNECT", "CONNECTED"}
  BY <1>1, <1>5, Zenon
<1>7. ASSUME NEW r, BeginPass(r) PROVE Fine
  <2>1. BeginEffect(r)
    BY <1>7, BeginIs, Zenon
  <2>2. state' = Choice(r) /\ changed' = (changed \/ Moved(r)) /\ row' = row
    BY <2>1, Zenon DEF BeginEffect, server
  <2>3. ByReason(r) \in {"LINK_SEL", "WAN_IP", state}
    BY Zenon DEF ByReason
  <2>4. ~NewRedir(r) /\ ~NewManager(r) /\ Choice(r) = ByReason(r)
    BY <1>6, <2>2, NotTakenOver, Zenon DEF Choice
  <2>5. state' = state /\ ~Moved(r)
    BY <1>6, <2>2, <2>3, <2>4, Zenon DEF Moved
  <2>6. dest' = dest
    BY <2>1, <2>4, Zenon DEF BeginEffect
  <2>7. Trying \/ state = "CONNECTED"
    BY <1>1, <2>2, <2>5, Zenon DEF Trying
  <2>. QED BY <1>2, <2>2, <2>6, <2>7, Zenon
<1>8. CASE InitState \/ LinkSel \/ WanIp \/ NtpCheck \/ OvsInit \/ TryResolve \/ ReConnect
           \/ QuiesceOvs
  <2>1. CASE InitState \/ LinkSel \/ WanIp \/ NtpCheck \/ QuiesceOvs
    <3>1. /\ state \in {"INIT", "LINK_SEL", "WAN_IP", "NTP_CHECK", "QUIESCE_OVS"}
          /\ \/ \E s \in {"LINK_SEL", "WAN_IP", "INIT", "NTP_CHECK", "QUIESCE_OVS",
                          "FAST_RECONNECT", OvsConnect} : state' = s
             \/ state' = state
      BY <2>1, Zenon DEF InitState, LinkSel, WanIp, NtpCheck, QuiesceOvs, CheckFailed,
                         RestartSkipped, RestartOvs, Running, Move, Rest, Return
    <3>. QED BY <1>6, <3>1, NotTakenOver, Zenon
  <2>2. CASE OvsInit \/ TryResolve \/ ReConnect
    <3>1. /\ state \in {"OVS_INIT", "TRY_RESOLVE", "RE_CONNECT"}
          /\ state' \in {"LINK_SEL", "TRY_RESOLVE", "RE_CONNECT", "QUIESCE_OVS", "TRY_CONNECT",
                         state}
      BY <2>2, Zenon DEF OvsInit, TryResolve, ReConnect, RestartOvs, Running, Move, Rest, Return
    <3>2. ~Trying'
      BY <2>2, NotTrying, Zenon
    <3>. QED BY <1>1, <3>1, <3>2, Zenon
  <2>. QED BY <1>8, <2>1, <2>2, Zenon
<1>9. CASE TryConnect
  <2>1. /\ dest' = dest /\ state = "TRY_CONNECT"
        /\ \/ state' \in {"TRY_RESOLVE", "QUIESCE_OVS"}
           \/ \E a, ls : Pair(a, ls) /\ WriteTarget(a, ls, FALSE)
           \/ ~changed /\ row' = row
    BY <1>9, Zenon DEF TryConnect, Running, Move, Return, RestartOvs, server, Pair, Trying
  <2>2. CASE \E a, ls : Pair(a, ls) /\ WriteTarget(a, ls, FALSE)
    BY <1>3, <2>1, <2>2, Zenon
  <2>3. CASE ~changed /\ row' = row
    BY <1>2, <2>1, <2>3, Zenon DEF Trying
  <2>. QED BY <1>6, <2>1, <2>2, <2>3, Zenon
<1>10. CASE FastReconnect
  <2>1. /\ dest' = dest /\ state = "FAST_RECONNECT"
        /\ \/ state' \in {"RE_CONNECT", "OVS_INIT", state}
           \/ \E a, ls, c : Pair(a, ls) /\ WriteTarget(a, ls, c)
    BY <1>10, Zenon DEF FastReconnect, Running, Move, Rest, Pair
  <2>2. CASE \E a, ls, c : Pair(a, ls) /\ WriteTarget(a, ls, c)
    BY <1>3, <2>1, <2>2, Zenon
  <2>. QED BY <1>6, <2>1, <2>2, Zenon
<1>11. CASE FastReconnectWait \/ Connected
  <2>1. state \in {"FAST_RECONNECT_WAIT", "CONNECTED"} /\ dest' = dest /\ row' = row
    BY <1>11, Zenon DEF FastReconnectWait, Connected, Running, server
  <2>. QED BY <1>2, <2>1, Zenon DEF Trying
<1>12. CASE Resets
  BY <1>6, <1>12, Zenon DEF Resets, Reset
<1>13. CASE GivesUp \/ Elapse \/ Deliver \/ Answer \/ UplinkStep \/ ServerStep \/ UNCHANGED vars
  <2>1. state' = state /\ changed' = changed /\ dest' = dest
    BY <1>13, StateKept, Zenon
  <2>2. Trying \/ state = "CONNECTED"
    BY <1>1, <2>1, Zenon DEF Trying
  <2>3. CASE GivesUp \/ Elapse \/ Deliver \/ Answer \/ UplinkStep \/ UNCHANGED vars
    <3>1. row' = row
      BY <2>3, Zenon DEF GivesUp, Elapse, Deliver, Answer, UplinkStep, UplinkFound, UplinkEcho,
                         UplinkLost, Switches, IpUp, IpDown, Renew, UplinkRest, server, vars
    <3>. QED BY <1>2, <2>1, <2>2, <3>1, Zenon
  <2>4. CASE ServerStep
    BY <1>2, <1>4, <2>1, <2>2, <2>4, ServerTargets, Zenon
  <2>. QED BY <1>13, <2>3, <2>4, Zenon
<1>. QED BY <1>7, <1>8, <1>9, <1>10, <1>11, <1>12, <1>13, StepKinds, Zenon

(***************************************************************************)
(* CM gets and stays to rest in CONNECTED only with the session up, as far *)
(* as it knows.                                                            *)
(***************************************************************************)
LEMMA RestsStep ==
    ASSUME ListInv, NoSkip, RestsConnected, [Next]_vars
    PROVE  RestsConnected'
<1>1. /\ pass = "run" => have = {"awlan", "manager"}
      /\ state # "INIT" => "awlan" \in have
      /\ pass = "idle" /\ state = "CONNECTED" /\ have = {"awlan", "manager"} => connected
  BY Zenon DEF RestsConnected
<1>2. ASSUME NEW r, BeginPass(r) PROVE RestsConnected'
  <2>1. have = {"awlan", "manager"} /\ have' = have /\ pass' = "run"
    BY <1>2, BeginIs, Zenon DEF BeginEffect, view
  <2>. QED BY <2>1, Zenon DEF RestsConnected
<1>3. ASSUME pass = "run", pass' # "run", UNCHANGED view, state' = "CONNECTED" => connected
      PROVE  RestsConnected'
  BY <1>1, <1>3, Zenon DEF RestsConnected, view
<1>4. ASSUME \/ \E s : Move(s) \/ Return(s)
             \/ Rest
      PROVE  pass' # "run"
  BY <1>4, Zenon DEF Move, Return, Rest
<1>5. CASE InitState \/ LinkSel \/ WanIp \/ NtpCheck \/ QuiesceOvs
  <2>1. /\ state \in {"INIT", "LINK_SEL", "WAN_IP", "NTP_CHECK", "QUIESCE_OVS"}
        /\ pass = "run" /\ UNCHANGED view
        /\ \/ \E s : Move(s) \/ Return(s)
           \/ Rest
        /\ \/ \E s \in {"LINK_SEL", "WAN_IP", "INIT", "NTP_CHECK", "QUIESCE_OVS",
                        "FAST_RECONNECT", OvsConnect} : state' = s
           \/ state' = state
    BY <1>5, Zenon DEF InitState, LinkSel, WanIp, NtpCheck, QuiesceOvs, CheckFailed,
                       RestartSkipped, RestartOvs, Running, Move, Rest, Return
  <2>2. state' # "CONNECTED"
    BY <2>1, NotTakenOver, Zenon
  <2>3. pass' # "run"
    BY <1>4, <2>1, Zenon
  <2>. QED BY <1>3, <2>1, <2>2, <2>3, Zenon
<1>6. CASE OvsInit \/ TryResolve \/ ReConnect \/ TryConnect \/ FastReconnect \/ FastReconnectWait
           \/ Connected
  <2>1. /\ state \in {"OVS_INIT", "TRY_RESOLVE", "RE_CONNECT", "TRY_CONNECT", "FAST_RECONNECT",
                      "FAST_RECONNECT_WAIT", "CONNECTED"}
        /\ pass = "run" /\ UNCHANGED view
        /\ \/ \E s : Move(s) \/ Return(s)
           \/ Rest
        /\ \/ state' \in {"LINK_SEL", "TRY_RESOLVE", "RE_CONNECT", "QUIESCE_OVS", "TRY_CONNECT",
                          "FAST_RECONNECT", "FAST_RECONNECT_WAIT", "OVS_INIT"}
           \/ connected
           \/ state' = state /\ state # "CONNECTED"
    <3>1. CASE OvsInit \/ TryResolve \/ ReConnect
      BY <3>1, Zenon DEF OvsInit, TryResolve, ReConnect, RestartOvs, Running, Move, Rest, Return
    <3>2. CASE TryConnect \/ FastReconnect \/ FastReconnectWait \/ Connected
      BY <3>2, Zenon DEF TryConnect, FastReconnect, FastReconnectWait, Connected, RestartOvs,
                         Running, Move, Rest, Return
    <3>. QED BY <1>6, <3>1, <3>2, Zenon
  <2>2. state' = "CONNECTED" => connected
    BY <2>1, Zenon
  <2>3. pass' # "run"
    BY <1>4, <2>1, Zenon
  <2>. QED BY <1>3, <2>1, <2>2, <2>3, Zenon
<1>7. CASE GivesUp
  <2>1. have # {"awlan", "manager"} /\ have' = have /\ state' = state /\ pass' = "idle"
    BY <1>7, Zenon DEF GivesUp, view
  <2>. QED BY <1>1, <2>1, Zenon DEF RestsConnected
<1>8. CASE Resets
  BY <1>8, Zenon DEF Resets, Reset, RestsConnected
<1>9. CASE Deliver
  <2>1. /\ state' = state /\ pass' \in {"MANAGER", "AWLAN"}
        /\ have' \in {have \cup {"manager"}, have \ {"manager"}, have \cup {"awlan"}}
    BY <1>9, Zenon DEF Deliver
  <2>. QED BY <1>1, <2>1, Zenon DEF RestsConnected
<1>10. CASE Elapse \/ Answer \/ UplinkStep \/ ServerStep \/ UNCHANGED vars
  <2>1. state' = state
    BY <1>10, StateKept, Zenon
  <2>2. UNCHANGED view
    BY <1>10, Zenon DEF Elapse, Answer, UplinkStep, UplinkFound, UplinkEcho, UplinkLost, Switches,
                        IpUp, IpDown, Renew, UplinkRest, ServerStep, ServerDrops, ServerConnects,
                        SessionLost, RowDeleted, RowInserted, Redirected, AddressChanged,
                        WriteAwlan, ServerRest, vars
  <2>3. pass' = pass \/ pass = "idle"
    BY <1>10, Zenon DEF Elapse, Answer, UplinkStep, UplinkFound, UplinkEcho, UplinkLost, Switches,
                        IpUp, IpDown, Renew, ServerStep, ServerDrops, ServerConnects, SessionLost,
                        RowDeleted, RowInserted, Redirected, AddressChanged, WriteAwlan,
                        ServerRest, core, vars
  <2>4. CASE pass' = "run" => pass = "run"
    BY <1>1, <2>1, <2>2, <2>3, <2>4, Zenon DEF RestsConnected, view
  <2>. QED BY <1>2, <2>4, OnlyBeginRuns, Zenon
<1>. QED BY <1>2, <1>5, <1>6, <1>7, <1>8, <1>9, <1>10, StepKinds, Zenon
(***************************************************************************)
(* CM starts disconnected, with the first updates of both tables queued.   *)
(***************************************************************************)
LEMMA TruthInit ==
    ASSUME Init
    PROVE  TruthInv
<1>1. PICK r \in RedirHosts : inbox = <<AwlanUpdate("REDIR", r), ManagerUpdate(EmptyRow)>>
  BY Zenon DEF Init
<1>2. /\ addr = [d \in Dests |-> NoAddr]
      /\ lists = [d \in Dests |-> [f \in Families |-> NoList]]
      /\ row = EmptyRow /\ session = NoTarget /\ link = NoLink /\ sel = NoSel
      /\ state = "INIT" /\ pass = "idle" /\ have = {}
  BY Zenon DEF Init
<1>3. /\ Len(inbox) = 2 /\ inbox[1] = AwlanUpdate("REDIR", r)
      /\ inbox[2] = ManagerUpdate(EmptyRow)
  BY <1>1, Zenon
<1>4. OwnNames
  BY <1>2, Zenon DEF OwnNames, Own, NoAddr, NoList
<1>5. OwnQueue(inbox)
  BY SMTT(30), <1>3 DEF OwnQueue, Own, HostsOf, AwlanUpdate, ManagerUpdate
<1>6. NoSkip
  BY <1>2, LinkValues, Zenon DEF NoSkip, NoSel
<1>7. RowTruth
  BY <1>2, Zenon DEF RowTruth, EmptyRow
<1>8. ViewTruth
  <2>1. Told(row, inbox)
    BY SMTT(30), <1>2, <1>3 DEF Told, AwlanUpdate, ManagerUpdate
  <2>2. ~Silent(inbox)
    BY SMTT(30), <1>3 DEF Silent, ManagerUpdate
  <2>. QED BY <2>1, <2>2, Zenon DEF ViewTruth
<1>9. TargetTruth /\ RestsConnected
  BY <1>2, Zenon DEF TargetTruth, RestsConnected, Trying
<1>. QED BY <1>4, <1>5, <1>6, <1>7, <1>8, <1>9, Zenon DEF TruthInv, OwnHosts

(***************************************************************************)
(* Every step keeps the names, the row and what CM knows of it in          *)
(* agreement.                                                              *)
(***************************************************************************)
LEMMA TruthStep ==
    ASSUME NoWifiSwitch, ListInv, TruthInv, [Next]_vars
    PROVE  TruthInv'
<1>1. OwnHosts /\ OwnNames /\ ServerInv /\ NoSkip /\ TargetTruth /\ RestsConnected /\ TypeOK
  BY Zenon DEF TruthInv, OwnHosts, ServerInv, ListInv
<1>2. OwnNames' /\ ServerInv'
  BY <1>1, OwnStep, TellsStep, Zenon
<1>3. NoSkip'
  BY <1>1, SkipStep, Zenon
<1>4. TargetTruth' /\ RestsConnected'
  BY <1>1, TargetStep, RestsStep, Zenon
<1>. QED BY <1>2, <1>3, <1>4, Zenon DEF TruthInv, OwnHosts, ServerInv

(***************************************************************************)
(* What the agreement says of a CM that rests in CONNECTED.                *)
(***************************************************************************)
LEMMA TruthShows ==
    ASSUME ListInv, TruthInv
    PROVE  ConnectedTruth
<1>1. SUFFICES ASSUME pass = "idle", state = "CONNECTED", inbox = <<>>,
                      row.exists, session = row.target
               PROVE  session.host \in HostsOf(dest)
  BY Zenon DEF ConnectedTruth
<1>2. Seen
  BY <1>1 DEF TruthInv, ViewTruth, Silent
<1>3. have = {"awlan", "manager"}
  BY <1>1, <1>2, Zenon DEF Seen, TruthInv, RestsConnected, ListInv, TypeOK
<1>4. session # NoTarget
  BY <1>1, <1>2, <1>3, Zenon DEF Seen, TruthInv, RestsConnected, RowTruth
<1>. QED BY <1>1, <1>4, Zenon DEF TruthInv, TargetTruth

(***************************************************************************)
(* When CM rests in CONNECTED with every update read and the session is    *)
(* with the target of the row, that session is with a host of the          *)
(* destination CM believes it is at.  cm2_ovsdb_set_Manager_target() is    *)
(* called with the address of dest, a change of dest leaves CONNECTED in   *)
(* the same pass, and is_connected follows the row in order.  It holds     *)
(* unless CM can switch to a Wi-Fi link by priority, which lets            *)
(* cm2_update_state() skip the restart and keep a session that is not of   *)
(* dest.                                                                   *)
(***************************************************************************)
THEOREM ConnectedCorrect ==
    ASSUME NoWifiSwitch
    PROVE  Spec => []ConnectedTruth
<1>1. Init => ListInv /\ TruthInv
  BY ListInit, TruthInit, Zenon
<1>2. ListInv /\ TruthInv /\ [Next]_vars => (ListInv /\ TruthInv)'
  BY ListStep, TruthStep, Zenon
<1>3. ListInv /\ TruthInv => ConnectedTruth
  BY TruthShows, Zenon
<1>. QED BY <1>1, <1>2, <1>3, PTL DEF Spec
=============================================================================
