---------------------------- MODULE ReportQueue ----------------------------
(***************************************************************************)
(* What the queue manager promises to the managers that hand it reports,   *)
(* said without its counters, its connection or its configuration:         *)
(*   - a report is held until it is published or makes room for a newer    *)
(*     one, and only as many of the oldest reports make room as must;      *)
(*   - a report is published at most once;                                 *)
(*   - only statistics, which are merged into one message, may be lost     *)
(*     when publishing fails.                                              *)
(* Log lines have a buffer of their own and are not held here.  Reports    *)
(* are numbered in the order they are handed over.                         *)
(***************************************************************************)
EXTENDS Integers, Sequences, FiniteSetsExt

CONSTANTS
    Reports,    \* records with fields kind, size and direct
    MaxDepth,   \* QM_MAX_QUEUE_DEPTH
    MaxBytes    \* QM_MAX_QUEUE_SIZE_BYTES

VARIABLES
    given,      \* every report handed over, in order
    held,       \* the numbers of the reports that wait
    sent        \* the numbers of the reports that were published

Weight(q, S) == MapThenSumSet(LAMBDA i : q[i].size, S)

(***************************************************************************)
(* S is what remains of `held' when some of its oldest reports are gone.   *)
(***************************************************************************)
Newest(S) == \A old \in held \ S, new \in S : old < new

Fits(S, r) ==
    /\ Cardinality(S) < MaxDepth
    /\ Weight(given, S) + r.size <= MaxBytes

Init ==
    /\ given = <<>>
    /\ held = {}
    /\ sent = {}

Hold(r) ==
    /\ ~r.direct
    /\ given' = Append(given, r)
    /\ IF r.kind = "log" \/ r.size > MaxBytes
       THEN held' = held
       ELSE \E S \in SUBSET held :
               /\ Newest(S) /\ Fits(S, r)
               /\ \A T \in SUBSET held : Newest(T) /\ Fits(T, r) => T \subseteq S
               /\ held' = S \union {Len(given')}
    /\ UNCHANGED sent

PassOn(r) ==
    /\ r.direct
    /\ given' = Append(given, r)
    /\ sent' \in {sent, sent \union {Len(given')}}
    /\ UNCHANGED held

(***************************************************************************)
(* One round of publishing: what is published leaves, statistics leave     *)
(* anyway, everything else stays.                                          *)
(***************************************************************************)
Publish ==
    \E S \in SUBSET held :
        /\ sent' = sent \union S
        /\ held' = {i \in held \ S : given[i].kind = "raw"}
        /\ UNCHANGED given

Restart ==
    /\ held' = {}
    /\ UNCHANGED <<given, sent>>

Next == (\E r \in Reports : Hold(r) \/ PassOn(r)) \/ Publish \/ Restart

Spec == Init /\ [][Next]_<<given, held, sent>>
=============================================================================
