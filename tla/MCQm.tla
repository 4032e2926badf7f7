------------------------------- MODULE MCQm --------------------------------
(***************************************************************************)
(* The queue manager with a queue of two reports and three bytes.          *)
(***************************************************************************)
EXTENDS Qm

Report(kind, size, pack, direct) ==
    [kind |-> kind, size |-> size, pack |-> pack, direct |-> direct]

(***************************************************************************)
(* Sizes 1 and 3 fill the queue by number and by bytes, 4 does not fit; a  *)
(* log line of 4 bytes just fits the log, one of 5 does not.               *)
(***************************************************************************)
MCReports ==
    {Report("raw", 1, "force", FALSE), Report("raw", 4, "off", FALSE),
     Report("stats", 3, "cfg", FALSE), Report("junk", 1, "cfg", FALSE),
     Report("raw", 1, "cfg", TRUE),
     Report("log", 4, "off", FALSE), Report("log", 5, "off", FALSE)}

MCConfigs ==
    {[broker |-> "a", topic |-> "t", pack |-> TRUE, log |-> 1],
     [broker |-> "b", topic |-> "t", pack |-> FALSE, log |-> 0],
     [broker |-> "a", topic |-> "", pack |-> FALSE, log |-> 0]}

(***************************************************************************)
(* Reports enough to follow the connection only.                           *)
(***************************************************************************)
FewReports == {Report("raw", 1, "off", FALSE)}
=============================================================================
