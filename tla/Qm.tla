-------------------------------- MODULE Qm ---------------------------------
(***************************************************************************)
(* The queue manager (src/src/qm): the other managers hand it reports over *)
(* a socket or the bus, it keeps them in a bounded queue and publishes     *)
(* them to an MQTT broker from a timer.  Modelled are the queue            *)
(* (qm_queue.c), the publishing, the configuration and the reconnecting    *)
(* (qm_mqtt.c, qm_ovsdb.c), the handling of a request (qm_event.c) and the *)
(* connection flags of lib/mosqev.  libmosquitto and the broker are        *)
(* external.                                                               *)
(*                                                                         *)
(* Everything runs in one libev loop, so a handler is one action.  What a  *)
(* handler meets on its way (a publish that fails, a disconnect that is    *)
(* not answered at once) is a fault that costs one of MaxFaults.           *)
(***************************************************************************)
EXTENDS Integers, Sequences, FiniteSetsExt

CONSTANTS
    Reports,     \* what may be handed over: [kind, size, pack, direct]
    Configs,     \* what the mqtt_settings may say: [broker, topic, pack, log]
    Faults,      \* subset of AllFaults
    MaxDepth,    \* QM_MAX_QUEUE_DEPTH
    MaxBytes,    \* QM_MAX_QUEUE_SIZE_BYTES
    LogBytes,    \* QM_LOG_QUEUE_SIZE
    LogNote,     \* length of a "--- DROPPED n LINES ---" line
    MaxItems,    \* bound: reports handed over in a behaviour
    MaxChanges,  \* bound: times the settings are told
    MaxFaults    \* bound: faults in a behaviour

Kinds == {"raw", "stats", "junk", "log"}   \* junk: statistics that do not decode
Packs == {"cfg", "off", "force"}           \* QM_REQ_COMPRESS_*
AllFaults == {"publish", "compress", "lost", "silent", "connect", "refuse", "late", "tls"}

ASSUME QmAssumption ==
    /\ MaxDepth \in Nat \ {0} /\ MaxBytes \in Nat
    /\ LogBytes \in Nat /\ LogNote \in Nat /\ 0 < LogNote /\ LogNote < LogBytes
    /\ MaxItems \in Nat /\ MaxChanges \in Nat /\ MaxFaults \in Nat
    /\ Reports \subseteq [kind : Kinds, size : Nat \ {0}, pack : Packs, direct : BOOLEAN]
    /\ Configs \subseteq [broker : STRING, topic : STRING, pack : BOOLEAN, log : Nat]
    /\ Faults \subseteq AllFaults

VARIABLES
    item,      \* every report handed over, in order; its number names it
    queue,     \* g_qm_queue.queue: the numbers of the items in it, oldest least
    length,    \* g_qm_queue.length
    bytes,     \* g_qm_queue.size
    sent,      \* the items libmosquitto has accepted
    acked,     \* the direct items whose sender was told that they were sent
    log,       \* g_qm_log_buf: its size and its lines; g_qm_log_drop_count
    logOn,     \* qm_log_enabled, and the log timer runs
    logEvery,  \* qm_log_interval
    conf,      \* qm_mqtt_broker, qm_mqtt_topic, qm_mqtt_compress; the log interval told
    link,      \* the mosqev session: its state, its host and qm_mqtt_reconnect_ts
    dead,      \* what the process can no longer leave: "loop", "null" or "no"
    faults,    \* faults so far
    changes    \* times the settings were told

qvars == <<item, queue, length, bytes>>
lvars == <<log, logOn, logEvery>>
vars == <<item, queue, length, bytes, sent, acked, log, logOn, logEvery, conf, link, dead,
          faults, changes>>

NoConf == [broker |-> "", topic |-> "", pack |-> FALSE, log |-> 0]
NoLink == [state |-> "none", host |-> "", hold |-> FALSE]
NoLog == [size |-> 0, lines |-> 0, drop |-> 0]

Init ==
    /\ item = <<>> /\ queue = {} /\ length = 0 /\ bytes = 0 /\ sent = {} /\ acked = {}
    /\ log = NoLog /\ logOn = FALSE /\ logEvery = 0
    /\ conf = NoConf /\ link = NoLink /\ dead = "no"
    /\ faults = 0 /\ changes = 0

Pay(cost) == faults' = faults + cost /\ faults' <= MaxFaults

-----------------------------------------------------------------------------
(* lib/mosqev: the connection.                                             *)

(***************************************************************************)
(* mosqev_is_connected: the flag is set by the broker's answer and cleared *)
(* by the disconnect callback only, so it is still set while a disconnect  *)
(* is on its way ("closing").                                              *)
(***************************************************************************)
Connected(l) == l.state \in {"open", "closing"}

(***************************************************************************)
(* mosqev_connect: the host is remembered, the earlier session is thrown   *)
(* away; the connection is made and the broker will answer or stay silent, *)
(* or it is not made.  The caller pushes its reconnect time on.            *)
(***************************************************************************)
Connects(broker) ==
    LET to(state, cost) ==
            [link |-> [state |-> state, host |-> broker, hold |-> TRUE], cost |-> cost]
    IN  {to("handshake", 0)}
        \union {to("silent", 1) : f \in Faults \cap {"silent"}}
        \union {to("none", 1) : f \in Faults \cap {"connect"}}

(***************************************************************************)
(* mosqev_disconnect: the callback comes at once, or when the socket takes *)
(* the DISCONNECT.                                                         *)
(***************************************************************************)
Disconnects(l) ==
    {[link |-> [l EXCEPT !.state = "none"], cost |-> 0]}
    \union {[link |-> [l EXCEPT !.state = "closing"], cost |-> 1] : f \in Faults \cap {"late"}}

(***************************************************************************)
(* qm_mqtt_config_valid                                                    *)
(***************************************************************************)
ConfigValid(c) == c.broker # "" /\ c.topic # ""

\* Mutant: a session that is being set up is left alone.
MayConnectIdle(l) == ~Connected(l) /\ ~l.hold /\ l.state = "none"

(***************************************************************************)
(* Whether qm_mqtt_reconnect tries to connect.                             *)
(***************************************************************************)
MayConnect(l) == ~Connected(l) /\ ~l.hold

(***************************************************************************)
(* qm_mqtt_reconnect, over the configuration c and the session l.          *)
(***************************************************************************)
Reconnects(c, l) ==
    IF ConfigValid(c)
    THEN IF MayConnect(l) THEN Connects(c.broker) ELSE {[link |-> l, cost |-> 0]}
    ELSE LET now == [l EXCEPT !.hold = FALSE]
         IN  IF Connected(l) THEN Disconnects(now) ELSE {[link |-> now, cost |-> 0]}
-----------------------------------------------------------------------------
(* qm_queue.c: the queue.                                                  *)

Sizes(S) == MapThenSumSet(LAMBDA i : item[i].size, S)

\* Mutant: an item is counted out by qm_queue_drop_head and by qm_queue_remove.
ShorterTwice(S) == length - 2 * Cardinality(S)

(***************************************************************************)
(* The counters when qm_queue_remove has removed the items of S.           *)
(***************************************************************************)
Shorter(S) == length - Cardinality(S)

Lighter(S) == bytes - Sizes(S)

\* Mutant: the item to come is not counted.
TooFullByOne(S, r) ==
    \/ Shorter(S) > MaxDepth
    \/ Lighter(S) + r.size > MaxBytes

(***************************************************************************)
(* The loop of qm_queue_make_room goes on while this holds, when it has    *)
(* dropped the items of S.                                                 *)
(***************************************************************************)
TooFull(S, r) ==
    \/ Shorter(S) >= MaxDepth
    \/ Lighter(S) + r.size > MaxBytes

(***************************************************************************)
(* The sets of items the loop can have dropped, oldest first.              *)
(***************************************************************************)
Oldest == {{i \in queue : i < n} : n \in 1..Len(item) + 1}

(***************************************************************************)
(* qm_queue_make_room and qm_queue_append_item: the loop drops the head    *)
(* while the counters are too high and never ends when they still are once *)
(* the queue is empty.                                                     *)
(***************************************************************************)
AppendItem(r) ==
    IF r.size > MaxBytes
    THEN UNCHANGED <<queue, length, bytes, dead>>
    ELSE \/ /\ TooFull(queue, r)
            /\ dead' = "loop"
            /\ queue' = {} /\ length' = Shorter(queue) /\ bytes' = Lighter(queue)
         \/ \E S \in Oldest :
               /\ ~TooFull(S, r)
               /\ \A T \in Oldest : Cardinality(T) < Cardinality(S) => TooFull(T, r)
               /\ queue' = (queue \ S) \union {Len(item) + 1}
               /\ length' = Shorter(S) + 1
               /\ bytes' = Lighter(S) + r.size
               /\ UNCHANGED dead

\* Mutant: a line as long as the log is not taken for too big.
LogLineStrict(size) == IF size > LogBytes THEN LogNote ELSE size

(***************************************************************************)
(* The size a line is stored with: one that is too big is replaced by a    *)
(* note.                                                                   *)
(***************************************************************************)
LogLine(size) == IF size >= LogBytes THEN LogNote ELSE size

\* Mutant: what is there is compared before the line is added.
LogFullLate(size) == log.size > LogBytes

(***************************************************************************)
(* Whether a line does not fit, with its newline.                          *)
(***************************************************************************)
LogFull(size) == log.size + size + 1 > LogBytes

(***************************************************************************)
(* qm_queue_append_log: a line that does not fit clears the buffer, whose  *)
(* lines are counted, and follows a note of the count.  Clearing writes a  *)
(* terminator to the buffer, which an empty log does not have.             *)
(***************************************************************************)
AppendLog(r) ==
    IF ~logOn
    THEN log' = [log EXCEPT !.drop = @ + 1] /\ UNCHANGED dead
    ELSE LET size == LogLine(r.size)
         IN  IF LogFull(size)
             THEN IF log.size = 0
                  THEN dead' = "null" /\ UNCHANGED log
                  ELSE /\ log' = [size |-> LogNote + 1 + size, lines |-> 2,
                                  drop |-> log.drop + log.lines]
                       /\ UNCHANGED dead
             ELSE /\ log' = [log EXCEPT !.size = @ + size + (IF @ = 0 THEN 0 ELSE 1),
                                        !.lines = @ + 1]
                  /\ UNCHANGED dead
-----------------------------------------------------------------------------
(* qm_mqtt.c: publishing.                                                  *)

(***************************************************************************)
(* Whether qm_mqtt_publish compresses a message.                           *)
(***************************************************************************)
Packed(pack) == pack = "force" \/ (pack = "cfg" /\ conf.pack)

(***************************************************************************)
(* What qm_mqtt_publish does with the messages of S, of which those of Z   *)
(* are compressed: `out' are accepted by libmosquitto, `kept' are refused. *)
(* A message that cannot be compressed is in neither: the error code of    *)
(* compress() is returned as a truth value.  The connection may be lost in *)
(* the mosquitto_loop that follows each.                                   *)
(***************************************************************************)
Publishes(S, Z, l) ==
    LET result(out, kept, to, cost) == [out |-> out, kept |-> kept, link |-> to, cost |-> cost]
    IN  {result(S, {}, l, 0)}
        \union {result(T, S \ T, l, 1) : T \in {T \in SUBSET S : "publish" \in Faults}}
        \union {result(T, {}, l, 1) :
                    T \in {T \in SUBSET S : "compress" \in Faults /\ S \ T \subseteq Z}}
        \union {result(T, S \ T, [l EXCEPT !.state = "none"], 1) :
                    T \in {T \in SUBSET S : "lost" \in Faults}}

\* Mutant: the result of publishing is looked at for statistics only.
StaysQueuedAll(kept) == {i \in queue : item[i].kind = "raw"}

(***************************************************************************)
(* The items that stay queued after a round: merging takes every           *)
(* statistics item out, whatever becomes of the merged report, and another *)
(* is removed when qm_mqtt_publish says it was published.                  *)
(***************************************************************************)
StaysQueued(kept) == {i \in queue : item[i].kind = "raw" /\ i \in kept}

(***************************************************************************)
(* qm_mqtt_publish_queue: the statistics that decode are one message,      *)
(* compressed if so configured, here named 0.                              *)
(***************************************************************************)
PublishQueue(l, cost) ==
    LET stats == {i \in queue : item[i].kind = "stats"}
        raw == {i \in queue : item[i].kind = "raw"}
        units == raw \union (IF stats = {} THEN {} ELSE {0})
        packed == {u \in units : Packed(IF u = 0 THEN "cfg" ELSE item[u].pack)}
    IN  \E p \in Publishes(units, packed, l) :
            /\ Pay(cost + p.cost)
            /\ sent' = sent \union (p.out \ {0}) \union (IF 0 \in p.out THEN stats ELSE {})
            /\ queue' = StaysQueued(p.kept)
            /\ length' = Shorter(queue \ queue')
            /\ bytes' = Lighter(queue \ queue')
            /\ link' = p.link

(***************************************************************************)
(* qm_mqtt_timer_handler: qm_mqtt_send_queue.                              *)
(***************************************************************************)
PublishTimer ==
    /\ dead = "no"
    /\ \E r \in Reconnects(conf, link) :
          IF Connected(r.link)
          THEN PublishQueue(r.link, r.cost)
          ELSE /\ Pay(r.cost)
               /\ link' = r.link
               /\ UNCHANGED <<queue, length, bytes, sent>>
    /\ UNCHANGED <<item, acked, lvars, conf, dead, changes>>

(***************************************************************************)
(* qm_mqtt_timer_handler_log: the buffer is freed whether or not it was    *)
(* published.                                                              *)
(***************************************************************************)
LogTimer ==
    /\ dead = "no"
    /\ logOn /\ log.size > 0
    /\ \E r \in Reconnects(conf, link) :
          IF Connected(r.link)
          THEN \E p \in Publishes({0}, {}, r.link) :
                  /\ Pay(r.cost + p.cost)
                  /\ log' = [NoLog EXCEPT !.drop = IF p.kept = {} THEN 0 ELSE log.drop + 1]
                  /\ link' = p.link
          ELSE Pay(r.cost) /\ link' = r.link /\ UNCHANGED log
    /\ UNCHANGED <<qvars, sent, acked, logOn, logEvery, conf, dead, changes>>
-----------------------------------------------------------------------------
(* qm_event.c, qm_osbus.c: a report is handed over.                        *)

(***************************************************************************)
(* qm_queue_put: the log lines go to the log, the rest to the queue.       *)
(***************************************************************************)
Enqueue(r) ==
    /\ ~r.direct
    /\ IF r.kind = "log"
       THEN AppendLog(r) /\ UNCHANGED <<queue, length, bytes>>
       ELSE AppendItem(r) /\ UNCHANGED log
    /\ UNCHANGED <<sent, acked, link, faults>>

\* Mutant: the result of publishing is not looked at.
AcceptedAlways(n, kept) == {n}

(***************************************************************************)
(* The items whose sender is told RECEIVED, given how publishing went.     *)
(***************************************************************************)
Accepted(n, kept) == {n} \ kept

(***************************************************************************)
(* qm_mqtt_send_message: the sender of a direct message learns whether it  *)
(* was published; it is not kept.                                          *)
(***************************************************************************)
SendMessage(r) ==
    LET n == Len(item) + 1
    IN  /\ r.direct
        /\ IF Connected(link)
           THEN \E p \in Publishes({n}, {i \in {n} : Packed(r.pack)}, link) :
                   /\ Pay(p.cost)
                   /\ sent' = sent \union p.out
                   /\ acked' = acked \union Accepted(n, p.kept)
                   /\ link' = p.link
           ELSE acked' = acked \union Accepted(n, {n}) /\ UNCHANGED <<sent, link, faults>>
        /\ UNCHANGED <<queue, length, bytes, log, dead>>

(***************************************************************************)
(* qm_enqueue_or_send, for a request with data.                            *)
(***************************************************************************)
Request(r) ==
    /\ dead = "no"
    /\ Len(item) < MaxItems
    /\ item' = Append(item, r)
    /\ Enqueue(r) \/ SendMessage(r)
    /\ UNCHANGED <<logOn, logEvery, conf, changes>>
-----------------------------------------------------------------------------
(* qm_ovsdb.c: the settings.                                               *)

(***************************************************************************)
(* qm_mqtt_set_log_interval: switching off keeps the interval.             *)
(***************************************************************************)
SetLogInterval(every) ==
    IF every = logEvery
    THEN UNCHANGED <<logOn, logEvery>>
    ELSE /\ logOn' = (every > 0)
         /\ logEvery' = IF every > 0 THEN every ELSE logEvery

(***************************************************************************)
(* qm_mqtt_set: a new broker ends a connection to the old one and connects *)
(* if the reconnect time allows it.                                        *)
(***************************************************************************)
Applied(c) ==
    IF c.broker = conf.broker THEN {[link |-> link, cost |-> 0]}
    ELSE LET cut == IF Connected(link) THEN Disconnects(link) ELSE {[link |-> link, cost |-> 0]}
         IN  UNION {{[r EXCEPT !.cost = @ + d.cost] : r \in Reconnects(c, d.link)} : d \in cut}

(***************************************************************************)
(* callback_AWLAN_Node, when the TLS options are accepted.                 *)
(***************************************************************************)
SetConfig(c) ==
    /\ dead = "no"
    /\ changes < MaxChanges
    /\ changes' = changes + 1
    /\ conf' = c
    /\ \E r \in Applied(c) : link' = r.link /\ Pay(r.cost)
    /\ SetLogInterval(c.log)
    /\ UNCHANGED <<qvars, sent, acked, log, dead>>

(***************************************************************************)
(* callback_AWLAN_Node, when they are not: the process exits and is        *)
(* started again.                                                          *)
(***************************************************************************)
Exit ==
    /\ dead = "no"
    /\ changes < MaxChanges
    /\ changes' = changes + 1
    /\ "tls" \in Faults /\ Pay(1)
    /\ queue' = {} /\ length' = 0 /\ bytes' = 0
    /\ log' = NoLog /\ logOn' = FALSE /\ logEvery' = 0
    /\ conf' = NoConf /\ link' = NoLink
    /\ UNCHANGED <<item, sent, acked, dead>>
-----------------------------------------------------------------------------
(* The broker and the clock.                                               *)

(***************************************************************************)
(* The answer to the CONNECT: mosqev_mosquitto_connect_cbk.                *)
(***************************************************************************)
ConnAck ==
    /\ link.state = "handshake" /\ dead = "no"
    /\ link' = [link EXCEPT !.state = "open"]
    /\ UNCHANGED <<qvars, sent, acked, lvars, conf, dead, faults, changes>>

ConnRefused ==
    /\ link.state = "handshake" /\ dead = "no"
    /\ "refuse" \in Faults /\ Pay(1)
    /\ link' = [link EXCEPT !.state = "none"]
    /\ UNCHANGED <<qvars, sent, acked, lvars, conf, dead, changes>>

(***************************************************************************)
(* mosqev_mosquitto_disconnect_cbk, for a connection that breaks and for   *)
(* the disconnect that was asked for.                                      *)
(***************************************************************************)
Lost ==
    /\ link.state \in {"handshake", "silent", "open"} /\ dead = "no"
    /\ "lost" \in Faults /\ Pay(1)
    /\ link' = [link EXCEPT !.state = "none"]
    /\ UNCHANGED <<qvars, sent, acked, lvars, conf, dead, changes>>

Closed ==
    /\ link.state = "closing" /\ dead = "no"
    /\ link' = [link EXCEPT !.state = "none"]
    /\ UNCHANGED <<qvars, sent, acked, lvars, conf, dead, faults, changes>>

(***************************************************************************)
(* qm_mqtt_reconnect_ts passes.                                            *)
(***************************************************************************)
HoldExpires ==
    /\ link.hold
    /\ link' = [link EXCEPT !.hold = FALSE]
    /\ UNCHANGED <<qvars, sent, acked, lvars, conf, dead, faults, changes>>

Next ==
    \/ \E r \in Reports : Request(r)
    \/ PublishTimer
    \/ LogTimer
    \/ \E c \in Configs : SetConfig(c)
    \/ Exit
    \/ ConnAck \/ ConnRefused \/ Lost \/ Closed
    \/ HoldExpires

Spec == Init /\ [][Next]_vars

(***************************************************************************)
(* The publish timer is periodic, time passes, a broker that is not silent *)
(* answers, and a disconnect ends.                                         *)
(***************************************************************************)
Fairness ==
    /\ WF_vars(PublishTimer)
    /\ WF_vars(HoldExpires)
    /\ WF_vars(ConnAck)
    /\ WF_vars(Closed)

FairSpec == Spec /\ Fairness
-----------------------------------------------------------------------------
Brokers == {c.broker : c \in Configs \union {NoConf}}

TypeOK ==
    /\ item \in Seq(Reports)
    /\ queue \subseteq 1..Len(item) /\ sent \subseteq 1..Len(item) /\ acked \subseteq 1..Len(item)
    /\ length \in Nat /\ bytes \in Int
    /\ log \in [size : Nat, lines : Nat, drop : Nat]
    /\ logOn \in BOOLEAN /\ logEvery \in Nat
    /\ conf \in Configs \union {NoConf}
    /\ link \in [state : {"none", "handshake", "silent", "open", "closing"}, host : Brokers,
                 hold : BOOLEAN]
    /\ dead \in {"no", "loop", "null"}
    /\ faults \in 0..MaxFaults /\ changes \in 0..MaxChanges

(***************************************************************************)
(* The event loop is never stopped by the queue: the loop that makes room  *)
(* ends, since the counters it tests are those of the items it drops       *)
(* (qm_queue.c:117), and the log is only cleared when there is one         *)
(* (qm_queue.c:178).                                                       *)
(***************************************************************************)
NeverDead == dead = "no"

(***************************************************************************)
(* The log buffer stays within its limit and the one note and newline that *)
(* precede the first line after an overflow (qm_queue.c:192-196).          *)
(***************************************************************************)
LogBounded == log.size <= LogBytes + LogNote

(***************************************************************************)
(* A sender of a direct message that is told RECEIVED has had its message  *)
(* accepted by libmosquitto (qm_mqtt.c:254), where compressing never       *)
(* fails.                                                                  *)
(***************************************************************************)
AckTruth == acked \subseteq sent

(***************************************************************************)
(* A report that libmosquitto has accepted does not wait to be published   *)
(* once more, whatever fails in the round that published it                *)
(* (qm_mqtt.c:405).                                                        *)
(***************************************************************************)
PublishedOnce == queue \cap sent = {}

(***************************************************************************)
(* The queue does what ReportQueue says, across reconnects, new settings,  *)
(* failing publishes and restarts: reports leave only by being published,  *)
(* by making room or as statistics; none is published twice.               *)
(***************************************************************************)
Promise == INSTANCE ReportQueue WITH given <- item, held <- queue

QueueSpec == Promise!Spec

(***************************************************************************)
(* While the settings stay valid, the queue empties: neither a broker that *)
(* accepts the connection and says nothing, nor a lost connection, nor a   *)
(* failed publish keeps a report there for ever (qm_mqtt.c:413, 457).      *)
(***************************************************************************)
Drains == queue # {} ~> (queue = {} \/ ~ConfigValid(conf))

(***************************************************************************)
(* "reconnect if broker changed" (qm_mqtt.c:156): a connection to another  *)
(* broker than the configured one does not last.  It does not hold: a      *)
(* handshake under way when the broker changes is left to complete.        *)
(***************************************************************************)
OtherBroker == Connected(link) /\ link.host # conf.broker

BrokerFollowed == OtherBroker ~> ~OtherBroker
=============================================================================
