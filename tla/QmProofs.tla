------------------------------ MODULE QmProofs ------------------------------
(***************************************************************************)
(* Proofs about the queue manager, for every set of reports and settings,  *)
(* every limit and every bound: what a sender is told, how far the log     *)
(* grows, and that no report is published twice.                           *)
(***************************************************************************)
EXTENDS Qm, TLAPS

rvars == <<item, queue, sent, acked, log, dead>>

(***************************************************************************)
(* What a step does to the reports: the actions of the connection leave    *)
(* them alone.                                                             *)
(***************************************************************************)
LEMMA StepKinds ==
    ASSUME [Next]_vars
    PROVE  \/ \E r \in Reports : Request(r)
           \/ PublishTimer
           \/ LogTimer
           \/ Exit
           \/ UNCHANGED rvars
<1>1. ASSUME NEW c \in Configs, SetConfig(c) PROVE UNCHANGED rvars
  BY <1>1 DEF SetConfig, rvars, qvars
<1>2. CASE ConnAck \/ ConnRefused \/ Lost \/ Closed \/ HoldExpires
  BY <1>2 DEF ConnAck, ConnRefused, Lost, Closed, HoldExpires, rvars, qvars, lvars
<1>3. CASE UNCHANGED vars
  BY <1>3 DEF vars, rvars
<1>. QED BY <1>1, <1>2, <1>3 DEF Next

-----------------------------------------------------------------------------
(* What the sender of a direct message is told.                            *)

(***************************************************************************)
(* Where compressing never fails, what qm_mqtt_publish does not refuse it  *)
(* has handed to libmosquitto, and never both.                             *)
(***************************************************************************)
LEMMA PublishesAll ==
    ASSUME NEW S, NEW Z, NEW l, NEW p \in Publishes(S, Z, l)
    PROVE  /\ p.out \subseteq S /\ p.kept \subseteq S
           /\ p.out \cap p.kept = {}
           /\ "compress" \notin Faults => S \ p.kept \subseteq p.out
BY SMTT(30) DEF Publishes

(***************************************************************************)
(* A step keeps AckTruth: only a direct message that publishing did not    *)
(* refuse is acknowledged, and what is sent stays sent.                    *)
(***************************************************************************)
LEMMA AckStep ==
    ASSUME "compress" \notin Faults, AckTruth, [Next]_vars
    PROVE  AckTruth'
<1>1. ASSUME NEW r \in Reports, Request(r) PROVE AckTruth'
  <2>1. CASE Enqueue(r)
    BY <2>1 DEF Enqueue, AckTruth
  <2>2. CASE SendMessage(r)
    <3> DEFINE n == Len(item) + 1
    <3>1. CASE Connected(link)
      <4>1. PICK p \in Publishes({n}, {i \in {n} : Packed(r.pack)}, link) :
                /\ sent' = sent \union p.out
                /\ acked' = acked \union Accepted(n, p.kept)
        BY <2>2, <3>1 DEF SendMessage
      <4>2. {n} \ p.kept \subseteq p.out
        BY PublishesAll
      <4>. HIDE DEF n
      <4>. QED BY <4>1, <4>2 DEF AckTruth, Accepted
    <3>2. CASE ~Connected(link)
      BY <2>2, <3>2 DEF SendMessage, AckTruth, Accepted
    <3>. QED BY <3>1, <3>2
  <2>. QED BY <1>1, <2>1, <2>2 DEF Request
<1>2. CASE PublishTimer
  <2>1. acked' = acked /\ sent \subseteq sent'
    BY <1>2 DEF PublishTimer, PublishQueue
  <2>. QED BY <2>1 DEF AckTruth
<1>3. CASE LogTimer
  BY <1>3 DEF LogTimer, AckTruth
<1>4. CASE Exit
  BY <1>4 DEF Exit, AckTruth
<1>5. CASE UNCHANGED rvars
  BY <1>5 DEF rvars, AckTruth
<1>. QED BY <1>1, <1>2, <1>3, <1>4, <1>5, StepKinds

(***************************************************************************)
(* Where compressing never fails, a sender that is told RECEIVED has had   *)
(* its message accepted by libmosquitto, whatever else fails.              *)
(***************************************************************************)
THEOREM AcksCorrect ==
    ASSUME "compress" \notin Faults
    PROVE  Spec => []AckTruth
<1>1. Init => AckTruth
  BY DEF Init, AckTruth
<1>2. AckTruth /\ [Next]_vars => AckTruth'
  BY AckStep
<1>. QED BY <1>1, <1>2, PTL DEF Spec

-----------------------------------------------------------------------------
(* The log.                                                                *)

LogType == log \in [size : Nat, lines : Nat, drop : Nat]

(***************************************************************************)
(* qm_queue_append_log keeps the log within its limit and a note, since a  *)
(* line is stored with a size below the limit, and finds a log to clear    *)
(* when a line does not fit.                                               *)
(***************************************************************************)
LEMMA AppendLogBounded ==
    ASSUME NEW r \in Reports, LogType, LogBounded, AppendLog(r)
    PROVE  /\ LogType' /\ LogBounded'
           /\ UNCHANGED dead
<1>1. r.size \in Nat
  BY QmAssumption
<1>2. log.size \in Nat /\ log.lines \in Nat /\ log.drop \in Nat
  BY DEF LogType
<1>3. LogLine(r.size) \in Nat /\ LogLine(r.size) < LogBytes
  BY <1>1, QmAssumption DEF LogLine
<1>4. CASE ~logOn
  <2>1. log' = [log EXCEPT !.drop = @ + 1] /\ UNCHANGED dead
    BY <1>4 DEF AppendLog
  <2>. QED BY <1>2, <2>1 DEF LogType, LogBounded
<1>5. CASE logOn /\ LogFull(LogLine(r.size))
  <2>1. log.size # 0
    BY <1>2, <1>3, <1>5, QmAssumption DEF LogFull
  <2>2. /\ log' = [size |-> LogNote + 1 + LogLine(r.size), lines |-> 2,
                   drop |-> log.drop + log.lines]
        /\ UNCHANGED dead
    BY <1>5, <2>1 DEF AppendLog
  <2>. QED BY <1>2, <1>3, <2>2, QmAssumption DEF LogType, LogBounded
<1>6. CASE logOn /\ ~LogFull(LogLine(r.size))
  <2> DEFINE s == log.size + LogLine(r.size) + (IF log.size = 0 THEN 0 ELSE 1)
  <2>1. log' = [[log EXCEPT !.size = s] EXCEPT !.lines = log.lines + 1]
    BY <1>6, Zenon DEF AppendLog
  <2>2. UNCHANGED dead
    BY <1>6 DEF AppendLog
  <2>3. s \in Nat /\ s <= LogBytes
    BY <1>2, <1>3, <1>6, QmAssumption DEF LogFull
  <2>. HIDE DEF s
  <2>4. log'.size = s /\ log' \in [size : Nat, lines : Nat, drop : Nat]
    <3>1. log' = [size |-> s, lines |-> log.lines + 1, drop |-> log.drop]
      BY <2>1 DEF LogType
    <3>. QED BY <1>2, <2>3, <3>1
  <2>5. LogType' /\ LogBounded'
    BY <2>3, <2>4, QmAssumption DEF LogType, LogBounded
  <2>. QED BY <2>2, <2>5
<1>. QED BY <1>4, <1>5, <1>6

(***************************************************************************)
(* A step keeps the log within its limit.                                  *)
(***************************************************************************)
LEMMA LogStep ==
    ASSUME LogType, LogBounded, [Next]_vars
    PROVE  LogType' /\ LogBounded'
<1>1. ASSUME NEW r \in Reports, Request(r) PROVE LogType' /\ LogBounded'
  <2>1. CASE AppendLog(r)
    BY <2>1, AppendLogBounded
  <2>2. CASE UNCHANGED log
    BY <2>2 DEF LogType, LogBounded
  <2>. QED BY <1>1, <2>1, <2>2 DEF Request, Enqueue, SendMessage
<1>2. CASE PublishTimer
  BY <1>2 DEF PublishTimer, lvars, LogType, LogBounded
<1>3. CASE LogTimer
  <2>1. \/ UNCHANGED log
        \/ \E d \in {0, log.drop + 1} : log' = [NoLog EXCEPT !.drop = d]
    BY <1>3, Zenon DEF LogTimer
  <2>2. CASE UNCHANGED log
    BY <2>2 DEF LogType, LogBounded
  <2>3. ASSUME NEW d \in {0, log.drop + 1}, log' = [NoLog EXCEPT !.drop = d]
        PROVE  LogType' /\ LogBounded'
    BY <2>3, QmAssumption DEF LogType, LogBounded, NoLog
  <2>. QED BY <2>1, <2>2, <2>3
<1>4. CASE Exit
  BY <1>4, QmAssumption DEF Exit, NoLog, LogType, LogBounded
<1>5. CASE UNCHANGED rvars
  BY <1>5 DEF rvars, LogType, LogBounded
<1>. QED BY <1>1, <1>2, <1>3, <1>4, <1>5, StepKinds

(***************************************************************************)
(* The log buffer never exceeds its limit by more than the note of an      *)
(* overflow, for every limit and every sequence of lines.                  *)
(***************************************************************************)
THEOREM LogCorrect == Spec => []LogBounded
<1>1. Init => LogType /\ LogBounded
  BY QmAssumption DEF Init, NoLog, LogType, LogBounded
<1>2. LogType /\ LogBounded /\ [Next]_vars => (LogType /\ LogBounded)'
  BY LogStep
<1>. QED BY <1>1, <1>2, PTL DEF Spec

(***************************************************************************)
(* A line that does not fit always finds a buffer to clear: the terminator *)
(* is never written to one that is not there (qm_queue.c:178), the half of *)
(* NeverDead that is about the log.                                        *)
(***************************************************************************)
THEOREM LogThere == Spec => [](dead # "null")
<1> DEFINE IInv == LogType /\ LogBounded /\ dead # "null"
<1>1. Init => IInv
  BY QmAssumption DEF Init, NoLog, LogType, LogBounded
<1>2. IInv /\ [Next]_vars => IInv'
  <2>. SUFFICES ASSUME IInv, [Next]_vars PROVE dead' # "null"
    BY LogStep
  <2>1. ASSUME NEW r \in Reports, Request(r) PROVE dead' # "null"
    <3>1. CASE AppendLog(r)
      BY <3>1, AppendLogBounded
    <3>2. CASE AppendItem(r)
      BY <3>2 DEF AppendItem
    <3>3. CASE UNCHANGED dead
      BY <3>3
    <3>. QED BY <2>1, <3>1, <3>2, <3>3 DEF Request, Enqueue, SendMessage
  <2>2. CASE PublishTimer \/ LogTimer \/ Exit \/ UNCHANGED rvars
    BY <2>2, Zenon DEF PublishTimer, LogTimer, Exit, rvars
  <2>. QED BY <2>1, <2>2, StepKinds
<1>. QED BY <1>1, <1>2, PTL DEF Spec

-----------------------------------------------------------------------------
(* No report is published twice.                                           *)

Numbered ==
    /\ item \in Seq(Reports)
    /\ queue \subseteq 1..Len(item)
    /\ sent \subseteq 1..Len(item)

(***************************************************************************)
(* A request adds its own number at most, to the queue or to what is sent. *)
(***************************************************************************)
LEMMA RequestAdds ==
    ASSUME NEW r \in Reports, Request(r)
    PROVE  /\ item' = Append(item, r)
           /\ \/ queue' \subseteq queue \union {Len(item) + 1} /\ sent' = sent
              \/ queue' = queue /\ sent' \subseteq sent \union {Len(item) + 1}
<1> DEFINE n == Len(item) + 1
<1>1. item' = Append(item, r)
  BY DEF Request
<1>2. CASE Enqueue(r)
  <2>1. CASE AppendItem(r)
    <3>1. queue' \subseteq queue \union {Len(item) + 1}
      BY <2>1 DEF AppendItem
    <3>. QED BY <1>1, <1>2, <3>1 DEF Enqueue
  <2>2. CASE UNCHANGED queue
    BY <1>1, <1>2, <2>2 DEF Enqueue
  <2>. QED BY <1>2, <2>1, <2>2 DEF Enqueue
<1>3. CASE SendMessage(r)
  <2>1. CASE Connected(link)
    <3>1. PICK p \in Publishes({n}, {i \in {n} : Packed(r.pack)}, link) :
              sent' = sent \union p.out
      BY <1>3, <2>1 DEF SendMessage
    <3>2. p.out \subseteq {n}
      BY PublishesAll
    <3>. QED BY <1>1, <1>3, <3>1, <3>2 DEF SendMessage
  <2>2. CASE ~Connected(link)
    BY <1>1, <1>3, <2>2 DEF SendMessage
  <2>. QED BY <2>1, <2>2
<1>. QED BY <1>1, <1>2, <1>3 DEF Request

(***************************************************************************)
(* A round of publishing moves reports from the queue to what is sent and  *)
(* keeps none that it sends: a message is removed when it was accepted,    *)
(* statistics are removed anyway.                                          *)
(***************************************************************************)
LEMMA RoundMoves ==
    ASSUME PublishTimer
    PROVE  /\ item' = item
           /\ \E S \in SUBSET queue :
                 sent' = sent \union S /\ queue' \subseteq queue \ S
<1>1. item' = item
  BY DEF PublishTimer
<1>2. CASE UNCHANGED <<queue, sent>>
  BY <1>1, <1>2
<1>3. ASSUME NEW l, NEW cost, PublishQueue(l, cost)
      PROVE  \E S \in SUBSET queue :
                 sent' = sent \union S /\ queue' \subseteq queue \ S
  <2> DEFINE stats == {i \in queue : item[i].kind = "stats"}
             raw == {i \in queue : item[i].kind = "raw"}
             units == raw \union (IF stats = {} THEN {} ELSE {0})
             packed == {u \in units : Packed(IF u = 0 THEN "cfg" ELSE item[u].pack)}
  <2>1. PICK p \in Publishes(units, packed, l) :
            /\ sent' = sent \union (p.out \ {0}) \union (IF 0 \in p.out THEN stats ELSE {})
            /\ queue' = StaysQueued(p.kept)
    BY <1>3 DEF PublishQueue
  <2>2. p.out \subseteq units /\ p.out \cap p.kept = {}
    BY PublishesAll
  <2> DEFINE S == (p.out \ {0}) \union (IF 0 \in p.out THEN stats ELSE {})
  <2>3. S \subseteq queue
    BY <2>2
  <2>4. queue' \subseteq queue \ S
    BY <2>1, <2>2 DEF StaysQueued
  <2>5. sent' = sent \union S
    BY <2>1
  <2>. HIDE DEF S
  <2>. QED BY <2>3, <2>4, <2>5
<1>. QED BY <1>1, <1>2, <1>3 DEF PublishTimer

(***************************************************************************)
(* For every queue, every limit and whatever fails, a report that was      *)
(* published is not in the queue, so none is published twice.              *)
(***************************************************************************)
THEOREM OnceCorrect == Spec => []PublishedOnce
<1> DEFINE IInv == Numbered /\ PublishedOnce
<1>1. Init => IInv
  BY DEF Init, Numbered, PublishedOnce
<1>2. IInv /\ [Next]_vars => IInv'
  <2>. SUFFICES ASSUME IInv, [Next]_vars PROVE IInv'
    OBVIOUS
  <2>1. ASSUME NEW r \in Reports, Request(r) PROVE IInv'
    <3>1. item' \in Seq(Reports) /\ Len(item) \in Nat /\ Len(item') = Len(item) + 1
      BY <2>1, RequestAdds DEF Numbered
    <3>2. queue \subseteq 1..Len(item) /\ sent \subseteq 1..Len(item) /\ queue \cap sent = {}
      BY DEF Numbered, PublishedOnce
    <3>3. CASE queue' \subseteq queue \union {Len(item) + 1} /\ sent' = sent
      BY <3>1, <3>2, <3>3 DEF Numbered, PublishedOnce
    <3>4. CASE queue' = queue /\ sent' \subseteq sent \union {Len(item) + 1}
      BY <3>1, <3>2, <3>4 DEF Numbered, PublishedOnce
    <3>. QED BY <2>1, <3>3, <3>4, RequestAdds
  <2>2. CASE PublishTimer
    BY <2>2, RoundMoves DEF Numbered, PublishedOnce
  <2>3. CASE LogTimer
    BY <2>3, Zenon DEF LogTimer, qvars, Numbered, PublishedOnce
  <2>4. CASE Exit
    BY <2>4 DEF Exit, Numbered, PublishedOnce
  <2>5. CASE UNCHANGED rvars
    BY <2>5 DEF rvars, Numbered, PublishedOnce
  <2>. QED BY <2>1, <2>2, <2>3, <2>4, <2>5, StepKinds
<1>. QED BY <1>1, <1>2, PTL DEF Spec
=============================================================================
