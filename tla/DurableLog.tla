----------------------------- MODULE DurableLog -----------------------------
(***************************************************************************)
(* What the write-ahead log promises to the storage engine: an append-only *)
(* sequence of which a crash may cut off an unacknowledged tail, and       *)
(* nothing else (docs/storage.md, "Write concerns").                       *)
(***************************************************************************)
EXTENDS Naturals, Sequences

CONSTANT Ids        \* identities of the records callers append

VARIABLES
    log,            \* the records accepted so far, oldest first
    doubt,          \* the record whose append failed with an unknown outcome
    acked,          \* how many records of log are acknowledged
    up              \* the log is open

dlVars == <<log, doubt, acked, up>>

Init == log = <<>> /\ doubt = <<>> /\ acked = 0 /\ up = FALSE

(* A record is accepted; it may be acknowledged at once or later. *)
Accept(id) ==
    /\ up /\ doubt = <<>>
    /\ log' = Append(log, id)
    /\ acked' \in acked .. Len(log')
    /\ UNCHANGED <<doubt, up>>

(* An append fails and nobody knows whether the record will be recovered.  *)
(* Nothing is appended after it.                                           *)
Doubt(id) ==
    /\ doubt = <<>>
    /\ doubt' = <<id>>
    /\ UNCHANGED log
    /\ acked' \in acked .. Len(log)
    /\ up' \in {up, FALSE}

(* Accepted records are acknowledged together; a failed append that left   *)
(* no trace may acknowledge earlier records too.                           *)
Acknowledge ==
    /\ acked' \in acked .. Len(log)
    /\ UNCHANGED <<log, doubt, up>>

Down ==
    /\ up' = FALSE
    /\ acked' \in acked .. Len(log)
    /\ UNCHANGED <<log, doubt>>

(* Opening recovers a prefix that holds every acknowledged record. *)
Open ==
    /\ ~ up
    /\ up' = TRUE
    /\ \E n \in acked .. Len(log \o doubt) : log' = SubSeq(log \o doubt, 1, n)
    /\ doubt' = <<>>
    /\ acked' \in acked .. Len(log')

Next ==
    \/ \E id \in Ids : Accept(id) \/ Doubt(id)
    \/ Acknowledge \/ Down \/ Open

Spec == Init /\ [][Next]_dlVars
=============================================================================
