--------------------------- MODULE QmQueueProofs ---------------------------
(***************************************************************************)
(* Proofs about the queue of the queue manager, for every set of reports   *)
(* and settings, every limit and every bound: its counters are those of    *)
(* its items, so the loop that makes room ends and the process is never    *)
(* stuck, and the queue does what ReportQueue says.                        *)
(***************************************************************************)
EXTENDS QmProofs, SizeSums

(***************************************************************************)
(* g_qm_queue.length and g_qm_queue.size are those of the items in it.     *)
(***************************************************************************)
Counted ==
    /\ length = Cardinality(queue)
    /\ bytes = SizeSum(item, queue)

(***************************************************************************)
(* The items of the queue are finitely many reports with a size.           *)
(***************************************************************************)
LEMMA QueueFinite ==
    ASSUME Numbered
    PROVE  /\ IsFiniteSet(queue) /\ Cardinality(queue) \in Nat
           /\ \A i \in queue : item[i] \in Reports
           /\ Sized(item, queue)
           /\ Len(item) \in Nat /\ queue \subseteq 1..Len(item)
<1>1. Len(item) \in Nat /\ queue \subseteq 1..Len(item)
  BY DEF Numbered
<1>2. IsFiniteSet(queue)
  <2>1. IsFiniteSet(1..Len(item)) /\ queue \in SUBSET (1..Len(item))
    BY <1>1, FS_Interval
  <2>. QED BY <2>1, FS_Subset, Zenon
<1>3. \A i \in queue : item[i] \in Reports
  BY <1>1 DEF Numbered
<1>4. \A r \in Reports : r.size \in Nat
  BY QmAssumption
<1>5. Sized(item, queue)
  BY <1>3, <1>4 DEF Sized
<1>. QED BY <1>1, <1>2, <1>3, <1>5, FS_CardinalityType

(***************************************************************************)
(* What qm_queue_remove leaves in the counters is what it leaves in the    *)
(* queue.                                                                  *)
(***************************************************************************)
LEMMA RemoveCounts ==
    ASSUME Numbered, Counted, NEW S \in SUBSET queue
    PROVE  /\ Shorter(S) = Cardinality(queue \ S) /\ Shorter(S) \in Nat
           /\ Lighter(S) = SizeSum(item, queue \ S) /\ Lighter(S) \in Nat
<1>1. IsFiniteSet(queue) /\ Sized(item, queue)
  BY QueueFinite
<1>2. /\ Cardinality(queue) \in Nat /\ Cardinality(S) \in Nat /\ Cardinality(queue \ S) \in Nat
      /\ Cardinality(queue \ S) = Cardinality(queue) - Cardinality(S)
  <2>1. queue \cap S = S
    OBVIOUS
  <2>2. IsFiniteSet(S) /\ IsFiniteSet(queue \ S)
    BY <1>1, FS_Subset, FS_Difference
  <2>3. Cardinality(queue \ S) = Cardinality(queue) - Cardinality(S)
    BY <1>1, <2>1, FS_Difference
  <2>. QED BY <1>1, <2>2, <2>3, FS_CardinalityType
<1>3. Shorter(S) = Cardinality(queue \ S)
  BY <1>2 DEF Shorter, Counted
<1> DEFINE a == SizeSum(item, queue)
           b == SizeSum(item, S)
           c == SizeSum(item, queue \ S)
<1>4. a \in Nat /\ b \in Nat /\ c \in Nat /\ a = b + c
  BY <1>1, SumSplit
<1>5. Lighter(S) = a - b
  BY Zenon DEF Lighter, Counted, Sizes, SizeSum
<1>6. a - b = c
  <2>. HIDE DEF a, b, c
  <2>. QED BY <1>4
<1>. QED BY <1>2, <1>3, <1>4, <1>5, <1>6

(***************************************************************************)
(* Once the queue is empty there is room for every item that is not        *)
(* refused, so the loop of qm_queue_make_room ends.                        *)
(***************************************************************************)
LEMMA RoomAtLast ==
    ASSUME Numbered, Counted, NEW r \in Reports, ~(r.size > MaxBytes)
    PROVE  ~TooFull(queue, r)
<1>1. queue \ queue = {} /\ queue \in SUBSET queue
  OBVIOUS
<1>2. Shorter(queue) = 0 /\ Lighter(queue) = 0
  BY <1>1, RemoveCounts, FS_EmptySet, SumEmpty
<1>3. r.size \in Nat
  BY QmAssumption
<1>. QED BY <1>2, <1>3, QmAssumption DEF TooFull
(***************************************************************************)
(* qm_queue_append_item counts the item it adds, and the process goes on.  *)
(***************************************************************************)
LEMMA AppendCounts ==
    ASSUME Numbered, Counted, NEW r \in Reports, AppendItem(r), item' = Append(item, r)
    PROVE  Counted' /\ dead' = dead
<1> DEFINE n == Len(item) + 1
<1>1. /\ IsFiniteSet(queue) /\ Sized(item, queue)
      /\ Len(item) \in Nat /\ queue \subseteq 1..Len(item)
  BY QueueFinite
<1>2. item'[n] = r /\ \A i \in queue : item'[i] = item[i]
  BY <1>1 DEF Numbered
<1>3. n \notin queue /\ r.size \in Nat
  BY <1>1, QmAssumption
<1>4. CASE r.size > MaxBytes
  <2>1. UNCHANGED <<queue, length, bytes, dead>>
    BY <1>4 DEF AppendItem
  <2>2. SameSizes(item, item', queue)
    BY <1>2 DEF SameSizes
  <2>3. SizeSum(item', queue) = SizeSum(item, queue)
    BY <1>1, <2>2, SumSame
  <2>. QED BY <2>1, <2>3 DEF Counted
<1>5. CASE ~(r.size > MaxBytes)
  <2>1. PICK S \in Oldest :
            /\ queue' = (queue \ S) \union {n}
            /\ length' = Shorter(S) + 1
            /\ bytes' = Lighter(S) + r.size
            /\ UNCHANGED dead
    BY <1>5, RoomAtLast DEF AppendItem
  <2>2. S \in SUBSET queue
    BY DEF Oldest
  <2> DEFINE rest == queue \ S
  <2>3. Shorter(S) = Cardinality(rest) /\ Lighter(S) = SizeSum(item, rest) /\ Lighter(S) \in Nat
    BY <2>2, RemoveCounts
  <2>4. IsFiniteSet(rest) /\ Sized(item, rest) /\ rest \subseteq queue
    BY <1>1, FS_Difference DEF Sized
  <2>. HIDE DEF n, rest
  <2>5. IsFiniteSet(queue') /\ Cardinality(queue') = Cardinality(rest) + 1
    BY <1>3, <2>1, <2>4, FS_AddElement DEF rest
  <2>6. SameSizes(item, item', rest) /\ Sized(item', rest) /\ item'[n].size \in Nat
    BY <1>2, <1>3, <2>4 DEF SameSizes, Sized
  <2>7. SizeSum(item', rest) = SizeSum(item, rest)
    BY <2>4, <2>6, SumSame
  <2>8. SizeSum(item', rest \union {n}) = item'[n].size + SizeSum(item', rest)
    <3>1. n \notin rest
      BY <1>3, <2>4
    <3>. QED BY <2>4, <2>6, <3>1, SumAdd
  <2>9. queue' = rest \union {n}
    BY <2>1 DEF rest
  <2>10. bytes' = SizeSum(item', queue')
    <3>1. SizeSum(item', queue') = r.size + Lighter(S)
      BY <1>2, <2>3, <2>7, <2>8, <2>9
    <3>. QED BY <1>3, <2>1, <2>3, <3>1
  <2>. QED BY <2>1, <2>3, <2>5, <2>10 DEF Counted
<1>. QED BY <1>4, <1>5

(***************************************************************************)
(* What stays of the queue after a round of publishing is what is counted. *)
(***************************************************************************)
LEMMA RoundCounts ==
    ASSUME Numbered, Counted, PublishTimer
    PROVE  Counted'
<1>1. item' = item
  BY DEF PublishTimer
<1>2. CASE UNCHANGED <<queue, length, bytes>>
  BY <1>1, <1>2 DEF Counted
<1>3. ASSUME NEW l, NEW cost, PublishQueue(l, cost) PROVE Counted'
  <2> DEFINE gone == queue \ queue'
  <2>1. queue' \subseteq queue /\ length' = Shorter(gone) /\ bytes' = Lighter(gone)
    BY <1>3 DEF PublishQueue, StaysQueued
  <2>2. gone \in SUBSET queue /\ queue \ gone = queue'
    BY <2>1
  <2>. HIDE DEF gone
  <2>3. Shorter(gone) = Cardinality(queue \ gone) /\ Lighter(gone) = SizeSum(item, queue \ gone)
    BY <2>2, RemoveCounts
  <2>. QED BY <1>1, <2>1, <2>2, <2>3 DEF Counted
<1>. QED BY <1>2, <1>3 DEF PublishTimer

(***************************************************************************)
(* The numbers of the reports stay those of the sequence.                  *)
(***************************************************************************)
LEMMA NumberedStep ==
    ASSUME Numbered, [Next]_vars
    PROVE  Numbered'
<1>1. ASSUME NEW r \in Reports, Request(r) PROVE Numbered'
  <2>1. item' \in Seq(Reports) /\ Len(item) \in Nat /\ Len(item') = Len(item) + 1
    BY <1>1, RequestAdds DEF Numbered
  <2>2. queue \subseteq 1..Len(item) /\ sent \subseteq 1..Len(item)
    BY DEF Numbered
  <2>3. /\ queue' \subseteq queue \union {Len(item) + 1}
        /\ sent' \subseteq sent \union {Len(item) + 1}
    BY <1>1, RequestAdds
  <2>. QED BY <2>1, <2>2, <2>3 DEF Numbered
<1>2. CASE PublishTimer
  BY <1>2, RoundMoves DEF Numbered
<1>3. CASE LogTimer
  BY <1>3, Zenon DEF LogTimer, qvars, Numbered
<1>4. CASE Exit
  BY <1>4 DEF Exit, Numbered
<1>5. CASE UNCHANGED rvars
  BY <1>5 DEF rvars, Numbered
<1>. QED BY <1>1, <1>2, <1>3, <1>4, <1>5, StepKinds

(***************************************************************************)
(* The counters are kept by the steps that do not touch the queue, too.    *)
(***************************************************************************)
LEMMA OthersCount ==
    ASSUME [Next]_vars
    PROVE  \/ \E r \in Reports : Request(r)
           \/ PublishTimer
           \/ Exit
           \/ UNCHANGED <<qvars, sent, dead>>
<1>1. ASSUME NEW c \in Configs, SetConfig(c) PROVE UNCHANGED <<qvars, sent, dead>>
  BY <1>1 DEF SetConfig
<1>2. CASE ConnAck \/ ConnRefused \/ Lost \/ Closed \/ HoldExpires
  BY <1>2 DEF ConnAck, ConnRefused, Lost, Closed, HoldExpires
<1>3. CASE UNCHANGED vars
  BY <1>3 DEF vars, qvars
<1>4. CASE LogTimer
  BY <1>4, Zenon DEF LogTimer
<1>. QED BY <1>1, <1>2, <1>3, <1>4 DEF Next
QueueInv == Numbered /\ Counted /\ LogType /\ LogBounded /\ NeverDead

(***************************************************************************)
(* A step keeps the counters right, and with them the process running.     *)
(***************************************************************************)
LEMMA QueueStep ==
    ASSUME QueueInv, [Next]_vars
    PROVE  QueueInv'
<1>1. Numbered' /\ LogType' /\ LogBounded'
  BY NumberedStep, LogStep DEF QueueInv
<1>2. Numbered /\ Counted /\ LogType /\ LogBounded /\ NeverDead
  BY DEF QueueInv
<1>. SUFFICES Counted' /\ NeverDead'
  BY <1>1 DEF QueueInv
<1>3. ASSUME NEW r \in Reports, Request(r) PROVE Counted' /\ NeverDead'
  <2>1. item' = Append(item, r)
    BY <1>3 DEF Request
  <2>2. CASE AppendItem(r)
    BY <1>2, <2>1, <2>2, AppendCounts DEF NeverDead
  <2>3. CASE UNCHANGED <<queue, length, bytes>>
    <3>1. SizeSum(item', queue) = SizeSum(item, queue)
      <4>1. IsFiniteSet(queue) /\ \A i \in queue : i \in 1..Len(item)
        BY <1>2, QueueFinite
      <4>2. \A i \in queue : item'[i] = item[i]
        BY <1>2, <2>1, <4>1 DEF Numbered
      <4>3. SameSizes(item', item, queue)
        BY <4>2 DEF SameSizes
      <4>. QED BY <4>1, <4>3, SumSame
    <3>2. Counted'
      BY <1>2, <2>3, <3>1 DEF Counted
    <3>3. CASE AppendLog(r)
      BY <1>2, <3>2, <3>3, AppendLogBounded DEF NeverDead
    <3>4. CASE UNCHANGED dead
      BY <1>2, <3>2, <3>4 DEF NeverDead
    <3>5. CASE AppendItem(r)
      BY <2>2, <3>5
    <3>. QED BY <1>3, <3>3, <3>4, <3>5 DEF Request, Enqueue, SendMessage
  <2>. QED BY <1>3, <2>2, <2>3 DEF Request, Enqueue, SendMessage
<1>4. CASE PublishTimer
  <2>1. dead' = dead
    BY <1>4 DEF PublishTimer
  <2>. QED BY <1>2, <1>4, <2>1, RoundCounts DEF NeverDead
<1>5. CASE Exit
  <2>1. queue' = {} /\ length' = 0 /\ bytes' = 0 /\ dead' = dead
    BY <1>5 DEF Exit
  <2>. QED BY <1>2, <2>1, FS_EmptySet, SumEmpty DEF Counted, NeverDead
<1>6. CASE UNCHANGED <<qvars, sent, dead>>
  BY <1>2, <1>6 DEF qvars, Counted, NeverDead
<1>. QED BY <1>3, <1>4, <1>5, <1>6, OthersCount

(***************************************************************************)
(* The queue starts empty, with counters at 0.                             *)
(***************************************************************************)
LEMMA QueueInit ==
    ASSUME Init
    PROVE  QueueInv
<1>1. Numbered /\ LogType /\ LogBounded /\ NeverDead
  BY QmAssumption DEF Init, NoLog, Numbered, LogType, LogBounded, NeverDead
<1>2. Counted
  BY FS_EmptySet, SumEmpty DEF Init, Counted
<1>. QED BY <1>1, <1>2 DEF QueueInv

(***************************************************************************)
(* For every limit and every sequence of requests, rounds, settings and    *)
(* restarts, the loop of qm_queue_make_room ends, since the counters it    *)
(* tests are those of the items it drops (qm_queue.c:117), and the log is  *)
(* only cleared when there is one: the event loop is never stopped.        *)
(***************************************************************************)
THEOREM NeverDeadCorrect == Spec => []NeverDead
<1>1. Init => QueueInv
  BY QueueInit
<1>2. QueueInv /\ [Next]_vars => QueueInv'
  BY QueueStep
<1>3. QueueInv => NeverDead
  BY DEF QueueInv
<1>. QED BY <1>1, <1>2, <1>3, PTL DEF Spec
-----------------------------------------------------------------------------
(* The settings and the connection.                                        *)

Links == [state : {"none", "handshake", "silent", "open", "closing"}, host : Brokers,
          hold : BOOLEAN]

(***************************************************************************)
(* What a call on the connection yields: a session and its cost.           *)
(***************************************************************************)
Outcome(r) == r.link \in Links /\ r.cost \in Nat

(***************************************************************************)
(* mosqev_connect yields a session.                                        *)
(***************************************************************************)
LEMMA ConnectsType ==
    ASSUME NEW broker \in Brokers, NEW r \in Connects(broker)
    PROVE  Outcome(r)
<1> DEFINE to(state) == [state |-> state, host |-> broker, hold |-> TRUE]
<1>1. \E state \in {"handshake", "silent", "none"}, cost \in {0, 1} :
         r = [link |-> to(state), cost |-> cost]
  BY Zenon DEF Connects
<1>2. \A state \in {"handshake", "silent", "none"} : to(state) \in Links
  BY DEF Links
<1>. HIDE DEF to
<1>. QED BY <1>1, <1>2 DEF Outcome

(***************************************************************************)
(* mosqev_disconnect yields one, too.                                      *)
(***************************************************************************)
LEMMA DisconnectsType ==
    ASSUME NEW l \in Links, NEW r \in Disconnects(l)
    PROVE  Outcome(r)
<1>1. [l EXCEPT !.state = "none"] \in Links /\ [l EXCEPT !.state = "closing"] \in Links
  BY DEF Links
<1>. QED BY <1>1 DEF Disconnects, Outcome

(***************************************************************************)
(* So does qm_mqtt_reconnect.                                              *)
(***************************************************************************)
LEMMA ReconnectsType ==
    ASSUME NEW c \in Configs \union {NoConf}, NEW l \in Links, NEW r \in Reconnects(c, l)
    PROVE  Outcome(r)
<1>1. c.broker \in Brokers
  BY Zenon DEF Brokers
<1>2. [l EXCEPT !.hold = FALSE] \in Links
  BY DEF Links
<1>3. CASE r \in Connects(c.broker)
  BY <1>1, <1>3, ConnectsType
<1>4. CASE r \in Disconnects([l EXCEPT !.hold = FALSE])
  BY <1>2, <1>4, DisconnectsType
<1>5. CASE r \in {[link |-> l, cost |-> 0], [link |-> [l EXCEPT !.hold = FALSE], cost |-> 0]}
  <2>1. r.link \in Links /\ r.cost = 0
    <3> DEFINE now == [l EXCEPT !.hold = FALSE]
    <3>. HIDE DEF now
    <3>1. r \in {[link |-> l, cost |-> 0], [link |-> now, cost |-> 0]} /\ now \in Links
      BY <1>2, <1>5 DEF now
    <3>. QED BY <3>1
  <2>. QED BY <2>1 DEF Outcome
<1>. QED BY <1>3, <1>4, <1>5, Zenon DEF Reconnects

(***************************************************************************)
(* Publishing leaves a session.                                            *)
(***************************************************************************)
LEMMA PublishesType ==
    ASSUME NEW S, NEW Z, NEW l \in Links, NEW p \in Publishes(S, Z, l)
    PROVE  Outcome(p)
<1>1. [l EXCEPT !.state = "none"] \in Links
  BY DEF Links
<1>. QED BY <1>1, SMTT(30) DEF Publishes, Outcome

(***************************************************************************)
(* New settings leave a session.                                           *)
(***************************************************************************)
LEMMA AppliedType ==
    ASSUME NEW c \in Configs, link \in Links, NEW a \in Applied(c)
    PROVE  Outcome(a)
<1>1. CASE a = [link |-> link, cost |-> 0]
  BY <1>1 DEF Outcome
<1>2. ASSUME NEW d, Outcome(d), NEW r \in Reconnects(c, d.link), a = [r EXCEPT !.cost = @ + d.cost]
      PROVE  Outcome(a)
  <2>1. Outcome(r)
    BY <1>2, ReconnectsType DEF Outcome
  <2>. QED BY <1>2, <2>1 DEF Outcome
<1>3. CASE c.broker # conf.broker
  <2> DEFINE cut == IF Connected(link) THEN Disconnects(link) ELSE {[link |-> link, cost |-> 0]}
  <2>1. PICK d \in cut : \E r \in Reconnects(c, d.link) : a = [r EXCEPT !.cost = @ + d.cost]
    BY <1>3 DEF Applied
  <2>2. Outcome(d)
    BY DisconnectsType DEF Outcome
  <2>. QED BY <1>2, <2>1, <2>2
<1>. QED BY <1>1, <1>3 DEF Applied
(***************************************************************************)
(* The types of the settings and of the session, and the bounds on faults  *)
(* and on changes of the settings.                                         *)
(***************************************************************************)
Settled ==
    /\ conf \in Configs \union {NoConf}
    /\ link \in Links
    /\ faults \in 0..MaxFaults /\ changes \in 0..MaxChanges
    /\ logOn \in BOOLEAN /\ logEvery \in Nat

(***************************************************************************)
(* Paying keeps the faults within their bound.                             *)
(***************************************************************************)
LEMMA PayType ==
    ASSUME faults \in 0..MaxFaults, NEW cost \in Nat, Pay(cost)
    PROVE  faults' \in 0..MaxFaults
BY QmAssumption DEF Pay

(***************************************************************************)
(* A step keeps the settings, the session and the bounds what they are.    *)
(***************************************************************************)
LEMMA SettledStep ==
    ASSUME Settled, [Next]_vars
    PROVE  Settled'
<1>1. /\ conf \in Configs \union {NoConf} /\ link \in Links
      /\ faults \in 0..MaxFaults /\ changes \in 0..MaxChanges
      /\ logOn \in BOOLEAN /\ logEvery \in Nat
  BY DEF Settled
<1>2. CASE PublishTimer \/ LogTimer
  <2>1. UNCHANGED <<conf, changes, logOn, logEvery>>
    BY <1>2, Zenon DEF PublishTimer, LogTimer, lvars
  <2>2. PICK r \in Reconnects(conf, link) :
            \/ Pay(r.cost) /\ link' = r.link
            \/ \E S, Z : \E p \in Publishes(S, Z, r.link) :
                  Pay(r.cost + p.cost) /\ link' = p.link
    BY <1>2, Zenon DEF PublishTimer, LogTimer, PublishQueue
  <2>3. Outcome(r)
    BY <1>1, ReconnectsType
  <2>4. CASE Pay(r.cost) /\ link' = r.link
    BY <1>1, <2>1, <2>3, <2>4, PayType DEF Outcome, Settled
  <2>5. ASSUME NEW S, NEW Z, NEW p \in Publishes(S, Z, r.link),
               Pay(r.cost + p.cost), link' = p.link
        PROVE  Settled'
    <3>1. Outcome(p)
      BY <2>3, PublishesType DEF Outcome
    <3>2. r.cost + p.cost \in Nat
      BY <2>3, <3>1 DEF Outcome
    <3>3. faults' \in 0..MaxFaults
      BY <1>1, <2>5, <3>2, PayType
    <3>. QED BY <1>1, <2>1, <2>5, <3>1, <3>3 DEF Outcome, Settled
  <2>. QED BY <2>2, <2>4, <2>5
<1>3. ASSUME NEW r \in Reports, Request(r) PROVE Settled'
  <2>1. UNCHANGED <<conf, changes, logOn, logEvery>>
    BY <1>3 DEF Request
  <2>2. CASE UNCHANGED <<link, faults>>
    BY <1>1, <2>1, <2>2 DEF Settled
  <2>3. ASSUME NEW S, NEW Z, NEW p \in Publishes(S, Z, link), Pay(p.cost), link' = p.link
        PROVE  Settled'
    <3>1. Outcome(p)
      BY <1>1, PublishesType
    <3>. QED BY <1>1, <2>1, <2>3, <3>1, PayType DEF Outcome, Settled
  <2>. QED BY <1>3, <2>2, <2>3, Zenon DEF Request, Enqueue, SendMessage
<1>4. ASSUME NEW c \in Configs, SetConfig(c) PROVE Settled'
  <2>1. changes' \in 0..MaxChanges /\ conf' = c
    BY <1>1, <1>4, QmAssumption DEF SetConfig
  <2>2. PICK r \in Applied(c) : link' = r.link /\ Pay(r.cost)
    BY <1>4 DEF SetConfig
  <2>3. link' \in Links /\ faults' \in 0..MaxFaults
    BY <1>1, <2>2, AppliedType, PayType DEF Outcome
  <2>4. logOn' \in BOOLEAN /\ logEvery' \in Nat
    <3>1. c.log \in Nat
      BY QmAssumption
    <3>2. SetLogInterval(c.log)
      BY <1>4 DEF SetConfig
    <3>3. logEvery' \in Nat
      BY <1>1, <3>1, <3>2 DEF SetLogInterval
    <3>4. logOn' = logOn \/ logOn' = (c.log > 0)
      BY <3>2, Zenon DEF SetLogInterval
    <3>5. (c.log > 0) \in BOOLEAN
      BY <3>1
    <3>. QED BY <1>1, <3>3, <3>4, <3>5, Zenon
  <2>. QED BY <2>1, <2>3, <2>4 DEF Settled
<1>5. CASE Exit
  <2>1. NoLink \in Links
    <3>1. "" \in Brokers
      <4>1. NoConf.broker = ""
        BY DEF NoConf
      <4>. QED BY <4>1, Zenon DEF Brokers
    <3>. QED BY <3>1 DEF NoLink, Links
  <2>2. changes' \in 0..MaxChanges /\ Pay(1)
    BY <1>1, <1>5, QmAssumption DEF Exit
  <2>3. conf' = NoConf /\ link' = NoLink /\ logOn' = FALSE /\ logEvery' = 0
    BY <1>5 DEF Exit
  <2>. QED BY <1>1, <2>1, <2>2, <2>3, PayType DEF Settled
<1>6. CASE ConnAck \/ ConnRefused \/ Lost \/ Closed \/ HoldExpires
  <2>1. UNCHANGED <<conf, changes, logOn, logEvery>> /\ (faults' = faults \/ Pay(1))
    BY <1>6 DEF ConnAck, ConnRefused, Lost, Closed, HoldExpires, lvars
  <2>2. link' \in Links
    BY <1>1, <1>6 DEF ConnAck, ConnRefused, Lost, Closed, HoldExpires, Links
  <2>. QED BY <1>1, <2>1, <2>2, PayType DEF Settled
<1>7. CASE UNCHANGED vars
  BY <1>1, <1>7 DEF vars, Settled
<1>. QED BY <1>2, <1>3, <1>4, <1>5, <1>6, <1>7 DEF Next
(***************************************************************************)
(* Only a report that was handed over is acknowledged.                     *)
(***************************************************************************)
LEMMA AckedStep ==
    ASSUME Numbered, acked \subseteq 1..Len(item), [Next]_vars
    PROVE  acked' \subseteq 1..Len(item')
<1>1. ASSUME NEW r \in Reports, Request(r) PROVE acked' \subseteq 1..Len(item')
  <2>1. Len(item) \in Nat /\ Len(item') = Len(item) + 1
    BY <1>1 DEF Request, Numbered
  <2>2. acked' \subseteq acked \union {Len(item) + 1}
    BY <1>1 DEF Request, Enqueue, SendMessage, Accepted
  <2>. QED BY <2>1, <2>2
<1>2. CASE PublishTimer \/ LogTimer \/ Exit \/ UNCHANGED rvars
  BY <1>2, Zenon DEF PublishTimer, LogTimer, Exit, rvars, qvars
<1>. QED BY <1>1, <1>2, StepKinds

(***************************************************************************)
(* Every variable keeps to its type, for every instance: in particular the *)
(* counters, which C computes without a check, are never negative.         *)
(***************************************************************************)
THEOREM TypeCorrect == Spec => []TypeOK
<1> DEFINE IInv == QueueInv /\ Settled /\ acked \subseteq 1..Len(item)
<1>1. Init => IInv
  <2>. SUFFICES ASSUME Init PROVE Settled /\ acked \subseteq 1..Len(item)
    BY QueueInit
  <2>1. NoLink \in Links
    <3>1. NoConf.broker = ""
      BY DEF NoConf
    <3>2. "" \in Brokers
      BY <3>1, Zenon DEF Brokers
    <3>. QED BY <3>2 DEF NoLink, Links
  <2>2. conf \in Configs \union {NoConf} /\ link \in Links
    BY <2>1, Zenon DEF Init
  <2>3. acked = {} /\ faults = 0 /\ changes = 0 /\ logOn = FALSE /\ logEvery = 0
    BY DEF Init
  <2>4. faults \in 0..MaxFaults /\ changes \in 0..MaxChanges /\ logEvery \in Nat
    BY <2>3, QmAssumption
  <2>5. acked \subseteq 1..Len(item) /\ logOn \in BOOLEAN
    BY <2>3
  <2>. QED BY <2>2, <2>4, <2>5 DEF Settled
<1>2. IInv /\ [Next]_vars => IInv'
  BY QueueStep, SettledStep, AckedStep DEF QueueInv
<1>3. IInv => TypeOK
  <2>. SUFFICES ASSUME IInv PROVE TypeOK
    OBVIOUS
  <2>1. Numbered /\ Counted /\ LogType /\ NeverDead
    BY DEF QueueInv
  <2>2. length \in Nat /\ bytes \in Nat
    BY <2>1, QueueFinite, SumType DEF Counted
  <2>. QED BY <2>1, <2>2 DEF Numbered, LogType, NeverDead, Settled, Links, TypeOK
<1>. QED BY <1>1, <1>2, <1>3, PTL DEF Spec
-----------------------------------------------------------------------------
(* The queue does what ReportQueue says.                                   *)

(***************************************************************************)
(* The weight of ReportQueue is the sum of the sizes.                      *)
(***************************************************************************)
LEMMA WeightIsSum ==
    ASSUME NEW S
    PROVE  Promise!Weight(item, S) = SizeSum(item, S)
BY Zenon DEF Promise!Weight, Promise!MapThenSumSet, Promise!MapThenFoldSet, SizeSum,
             MapThenSumSet, MapThenFoldSet
(***************************************************************************)
(* Both modules count in the same way.                                     *)
(***************************************************************************)
LEMMA CardIsCard ==
    ASSUME NEW S
    PROVE  Promise!Cardinality(S) = Cardinality(S)
BY Zenon DEF Promise!Cardinality, Cardinality
(***************************************************************************)
(* The loop of qm_queue_make_room drops the oldest items and no more than  *)
(* it must: what it leaves is the largest part of the queue that leaves    *)
(* room.  A larger part would leave out fewer of the oldest, which the     *)
(* loop found to be too few.                                               *)
(***************************************************************************)
LEMMA RoomIsLeast ==
    ASSUME Numbered, Counted, NEW r \in Reports, NEW S \in Oldest, ~TooFull(S, r),
           \A T \in Oldest : Cardinality(T) < Cardinality(S) => TooFull(T, r)
    PROVE  /\ queue \ S \in SUBSET queue
           /\ Promise!Newest(queue \ S) /\ Promise!Fits(queue \ S, r)
           /\ \A T \in SUBSET queue : Promise!Newest(T) /\ Promise!Fits(T, r) => T \subseteq queue \ S
<1> DEFINE R == queue \ S
<1>1. /\ IsFiniteSet(queue) /\ Sized(item, queue)
      /\ Len(item) \in Nat /\ queue \subseteq 1..Len(item)
  BY QueueFinite
<1>2. r.size \in Nat
  BY QmAssumption
<1>3. PICK n \in 1..Len(item) + 1 : S = {i \in queue : i < n}
  BY DEF Oldest
<1>4. Promise!Newest(R)
  <2>. SUFFICES ASSUME NEW old \in queue \ R, NEW new \in R PROVE old < new
    BY DEF Promise!Newest
  <2>1. old \in Nat /\ new \in Nat /\ old < n /\ ~(new < n)
    BY <1>1, <1>3
  <2>. QED BY <2>1
<1>5. Promise!Fits(R, r)
  <2>1. S \in SUBSET queue
    BY <1>3
  <2>2. /\ Shorter(S) = Cardinality(R) /\ Shorter(S) \in Nat
        /\ Lighter(S) = SizeSum(item, R) /\ Lighter(S) \in Nat
    BY <2>1, RemoveCounts
  <2>3. Shorter(S) < MaxDepth /\ Lighter(S) + r.size <= MaxBytes
    BY <1>2, <2>2, QmAssumption DEF TooFull
  <2>. HIDE DEF R
  <2>. QED BY <2>2, <2>3, WeightIsSum, CardIsCard DEF Promise!Fits
<1>6. ASSUME NEW T \in SUBSET queue, Promise!Newest(T), Promise!Fits(T, r), NEW x \in T, x \in S
      PROVE  FALSE
  <2> DEFINE D == {i \in queue : i < x}
             L == queue \ D
  <2>1. x \in 1..Len(item) + 1 /\ D \in SUBSET queue
    BY <1>1
  <2>2. D \in Oldest
    BY <2>1 DEF Oldest
  <2>3. queue \ T \subseteq D
    BY <1>6 DEF Promise!Newest
  <2>4. L \in SUBSET T
    BY <2>3
  <2>5. D \subseteq S /\ x \in S /\ x \notin D
    <3>1. x \in Nat /\ x < n /\ n \in Nat
      BY <1>1, <1>3, <1>6
    <3>2. \A i \in queue : i \in Nat /\ (i < x => i < n)
      BY <1>1, <3>1
    <3>3. ~(x < x)
      BY <3>1
    <3>. QED BY <1>3, <1>6, <3>2, <3>3, Zenon
  <2>6. Shorter(D) = Cardinality(L) /\ Lighter(D) = SizeSum(item, L) /\ Lighter(D) \in Nat
    BY <2>1, RemoveCounts
  <2>. HIDE DEF D, L
  <2>7. IsFiniteSet(S) /\ IsFiniteSet(T)
    BY <1>1, <1>3, FS_Subset
  <2>8. Cardinality(D) < Cardinality(S)
    <3>1. D \in SUBSET S /\ D # S
      BY <2>5
    <3>2. IsFiniteSet(D) /\ Cardinality(D) <= Cardinality(S) /\ Cardinality(D) # Cardinality(S)
      BY <2>7, <3>1, FS_Subset
    <3>3. Cardinality(D) \in Nat /\ Cardinality(S) \in Nat
      BY <2>7, <3>2, FS_CardinalityType
    <3>. QED BY <3>2, <3>3
  <2>9. TooFull(D, r)
    BY <2>2, <2>8
  <2>10. Cardinality(T) < MaxDepth /\ SizeSum(item, T) + r.size <= MaxBytes
    BY <1>6, WeightIsSum, CardIsCard DEF Promise!Fits
  <2>11. Cardinality(L) <= Cardinality(T) /\ Cardinality(L) \in Nat /\ Cardinality(T) \in Nat
    <3>1. IsFiniteSet(L) /\ Cardinality(L) <= Cardinality(T)
      BY <2>4, <2>7, FS_Subset
    <3>. QED BY <2>7, <3>1, FS_CardinalityType
  <2>12. Lighter(D) <= SizeSum(item, T) /\ SizeSum(item, T) \in Nat
    <3>1. Sized(item, T)
      BY <1>1 DEF Sized
    <3> DEFINE a == SizeSum(item, T)
               b == SizeSum(item, L)
               c == SizeSum(item, T \ L)
    <3>2. a \in Nat /\ b \in Nat /\ c \in Nat /\ a = b + c
      BY <2>4, <2>7, <3>1, SumSplit
    <3>3. Lighter(D) = b
      BY <2>6
    <3>. HIDE DEF a, b, c
    <3>4. b <= a
      BY <3>2
    <3>. QED BY <3>2, <3>3, <3>4 DEF a
  <2>. QED BY <1>2, <2>6, <2>9, <2>10, <2>11, <2>12, QmAssumption DEF TooFull
<1>7. ASSUME NEW T \in SUBSET queue, Promise!Newest(T) /\ Promise!Fits(T, r)
      PROVE  T \subseteq R
  BY <1>6, <1>7
<1>. QED BY <1>4, <1>5, <1>7
(***************************************************************************)
(* A request that is queued is held, a direct one is passed on.            *)
(***************************************************************************)
LEMMA RequestHolds ==
    ASSUME Numbered, Counted, NEW r \in Reports, Request(r)
    PROVE  Promise!Hold(r) \/ Promise!PassOn(r)
<1> DEFINE n == Len(item) + 1
<1>1. item' = Append(item, r)
  BY DEF Request
<1>2. Len(item') = n
  BY <1>1 DEF Numbered
<1>3. CASE Enqueue(r)
  <2>1. ~r.direct /\ sent' = sent
    BY <1>3 DEF Enqueue
  <2>2. CASE r.kind = "log" \/ r.size > MaxBytes
    <3>1. queue' = queue
      BY <1>3, <2>2 DEF Enqueue, AppendItem
    <3>. QED BY <1>1, <2>1, <2>2, <3>1 DEF Promise!Hold
  <2>3. CASE ~(r.kind = "log" \/ r.size > MaxBytes)
    <3>1. AppendItem(r) /\ ~TooFull(queue, r)
      BY <1>3, <2>3, RoomAtLast DEF Enqueue
    <3>2. PICK S \in Oldest :
              /\ ~TooFull(S, r)
              /\ \A T \in Oldest : Cardinality(T) < Cardinality(S) => TooFull(T, r)
              /\ queue' = (queue \ S) \union {n}
      BY <2>3, <3>1 DEF AppendItem
    <3> DEFINE R == queue \ S
    <3>3. /\ R \in SUBSET queue /\ Promise!Newest(R) /\ Promise!Fits(R, r)
          /\ \A T \in SUBSET queue : Promise!Newest(T) /\ Promise!Fits(T, r) => T \subseteq R
          /\ queue' = R \union {Len(item')}
      BY <1>2, <3>2, RoomIsLeast
    <3>. HIDE DEF R
    <3>. QED BY <1>1, <2>1, <2>3, <3>3, Zenon DEF Promise!Hold
  <2>. QED BY <2>2, <2>3
<1>4. CASE SendMessage(r)
  <2>1. r.direct /\ queue' = queue
    BY <1>4 DEF SendMessage
  <2>2. sent' \in {sent, sent \union {n}}
    <3>1. CASE Connected(link)
      <4>1. PICK p \in Publishes({n}, {i \in {n} : Packed(r.pack)}, link) :
                sent' = sent \union p.out
        BY <1>4, <3>1 DEF SendMessage
      <4>2. p.out \subseteq {n}
        BY PublishesAll
      <4>3. p.out = {} \/ p.out = {n}
        BY <4>2
      <4>. QED BY <4>1, <4>3
    <3>2. CASE ~Connected(link)
      BY <1>4, <3>2 DEF SendMessage
    <3>. QED BY <3>1, <3>2
  <2>. QED BY <1>1, <1>2, <2>1, <2>2 DEF Promise!PassOn
<1>. QED BY <1>3, <1>4 DEF Request

(***************************************************************************)
(* A round of publishing publishes some of the reports and keeps exactly   *)
(* those others that are not statistics, where compressing never fails.    *)
(***************************************************************************)
LEMMA RoundPublishes ==
    ASSUME "compress" \notin Faults, Numbered, PublishTimer
    PROVE  Promise!Publish \/ UNCHANGED <<item, queue, sent>>
<1>1. item' = item
  BY DEF PublishTimer
<1>2. CASE UNCHANGED <<queue, sent>>
  BY <1>1, <1>2
<1>3. ASSUME NEW l, NEW cost, PublishQueue(l, cost) PROVE Promise!Publish
  <2> DEFINE stats == {i \in queue : item[i].kind = "stats"}
             raw == {i \in queue : item[i].kind = "raw"}
             units == raw \union (IF stats = {} THEN {} ELSE {0})
             packed == {u \in units : Packed(IF u = 0 THEN "cfg" ELSE item[u].pack)}
  <2>1. PICK p \in Publishes(units, packed, l) :
            /\ sent' = sent \union (p.out \ {0}) \union (IF 0 \in p.out THEN stats ELSE {})
            /\ queue' = StaysQueued(p.kept)
    BY <1>3 DEF PublishQueue
  <2>2. p.out \subseteq units /\ p.out \cap p.kept = {} /\ units \ p.kept \subseteq p.out
    BY PublishesAll
  <2>3. 0 \notin queue
    BY QueueFinite
  <2> DEFINE S == (p.out \ {0}) \union (IF 0 \in p.out THEN stats ELSE {})
  <2>4. S \in SUBSET queue /\ sent' = sent \union S
    BY <2>1, <2>2
  <2>5. queue' = {i \in queue \ S : item[i].kind = "raw"}
    <3>1. ASSUME NEW i \in queue, item[i].kind = "raw" PROVE i \in p.kept <=> i \notin S
      BY <2>2, <2>3, <3>1
    <3>2. queue' = {i \in queue : item[i].kind = "raw" /\ i \in p.kept}
      BY <2>1 DEF StaysQueued
    <3>. HIDE DEF S
    <3>. QED BY <3>1, <3>2
  <2>. HIDE DEF S
  <2>. QED BY <1>1, <2>4, <2>5 DEF Promise!Publish
<1>. QED BY <1>1, <1>2, <1>3 DEF PublishTimer

(***************************************************************************)
(* Where compressing never fails, the queue manager does what ReportQueue  *)
(* says, across reconnects, new settings, failing publishes and restarts,  *)
(* for every limit: a step of it is one of ReportQueue or changes no       *)
(* report.                                                                 *)
(***************************************************************************)
THEOREM QueueCorrect ==
    ASSUME "compress" \notin Faults
    PROVE  Spec => QueueSpec
<1>1. Init => QueueInv
  BY QueueInit
<1>2. QueueInv /\ [Next]_vars => QueueInv'
  BY QueueStep
<1>3. Init => Promise!Init
  BY DEF Init, Promise!Init
<1>4. QueueInv /\ [Next]_vars => [Promise!Next]_<<item, queue, sent>>
  <2>. SUFFICES ASSUME QueueInv, [Next]_vars
                PROVE  Promise!Next \/ UNCHANGED <<item, queue, sent>>
    OBVIOUS
  <2>1. Numbered /\ Counted
    BY DEF QueueInv
  <2>2. ASSUME NEW r \in Reports, Request(r) PROVE Promise!Next
    BY <2>1, <2>2, RequestHolds DEF Promise!Next
  <2>3. CASE PublishTimer
    BY <2>1, <2>3, RoundPublishes DEF Promise!Next
  <2>4. CASE Exit
    BY <2>4 DEF Exit, Promise!Next, Promise!Restart
  <2>5. CASE UNCHANGED <<qvars, sent, dead>>
    BY <2>5 DEF qvars
  <2>. QED BY <2>2, <2>3, <2>4, <2>5, OthersCount
<1>. QED BY <1>1, <1>2, <1>3, <1>4, PTL DEF Spec, QueueSpec, Promise!Spec
=============================================================================
