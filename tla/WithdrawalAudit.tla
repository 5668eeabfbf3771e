--------------------------- MODULE WithdrawalAudit ---------------------------
(***************************************************************************)
(* The withdrawal audit log (crates/tools/src/withdrawal_audit.rs): each    *)
(* process keeps entries in memory with a cursor past the last one that is *)
(* on disk, and appends the rest to one shared file.                       *)
(*                                                                         *)
(* A file is a sequence of pieces.  The line of an entry is three of them: *)
(* the JSON object up to some point inside it, the rest of the object, and *)
(* the newline; a write may stop between any two.  `durable` counts the    *)
(* pieces that are on stable storage: losing power keeps those, and of the *)
(* pieces after them some prefix.  An absent file is an empty one: both    *)
(* load as an empty log.                                                   *)
(***************************************************************************)
EXTENDS Integers, Sequences, FiniteSets

CONSTANTS
    Processes,      \* processes that use the file
    MaxLogged,      \* bound: entries logged
    MaxFlushes      \* bound: flushes that reach the file

ASSUME BoundsAssumption == MaxLogged \in Nat /\ MaxFlushes \in Nat

VARIABLES
    \* WithdrawalAuditLog, one per process
    entries, flushed,
    \* where a process is in flush_to_disk, and what it still has to write
    pc, buf,
    \* the file, and how much of it survives a power loss
    file, durable,
    \* history: entries ever logged; flushes begun; entries whose flush returned
    \* Ok; entries whose flush returned an error; no write was cut short
    logged, flushes, acked, failed, whole

vars == <<entries, flushed, pc, buf, file, durable, logged, flushes, acked, failed, whole>>
logVars     == <<entries, flushed>>
historyVars == <<logged, flushes, acked, failed, whole>>

\* The n-th entry ever logged, by process p; equal fields make no equal entries.
Entry == Processes \X (1..MaxLogged)
Parts == <<"start", "rest", "newline">>

Pending(p) == SubSeq(entries[p], flushed[p] + 1, Len(entries[p]))
PendingSet(p) == {entries[p][i] : i \in (flushed[p] + 1)..Len(entries[p])}

\* Mutant: a newline between the lines, none after the last one.
BufferJoined(es) ==
    [k \in 1..(3 * Len(es) - 1) |-> <<es[(k + 2) \div 3], Parts[((k - 1) % 3) + 1]>>]

Buffer(es) ==
    [k \in 1..(3 * Len(es)) |-> <<es[(k + 2) \div 3], Parts[((k - 1) % 3) + 1]>>]

\* Every line is empty or one whole object; the last one needs no newline.
Parses(f) ==
    \A i \in DOMAIN f :
        /\ f[i][2] = "start" =>
            /\ i > 1 => f[i - 1][2] = "newline"
            /\ i < Len(f) /\ f[i + 1] = <<f[i][1], "rest">>
        /\ f[i][2] = "rest" =>
            /\ i > 1 /\ f[i - 1] = <<f[i][1], "start">>
            /\ i < Len(f) => f[i + 1][2] = "newline"

\* The entries of a file that parses, one for every line that has one.
Starts(f, n) == {i \in 1..n : f[i][2] = "start"}
EntriesOf(f) ==
    [k \in 1..Cardinality(Starts(f, Len(f))) |->
        f[CHOOSE i \in Starts(f, Len(f)) : Cardinality(Starts(f, i)) = k][1]]

\* Mutant: the cursor of a loaded log starts at zero.
LoadedCursorZero(es) == 0

\* Mutant: the cursor is the number of the next line.
LoadedCursorNext(es) == Len(es) + 1

LoadedCursor(es) == Len(es)
-----------------------------------------------------------------------------
\* load_from_disk at startup; a malformed line is an error, and no log.
Load(p) ==
    /\ pc[p] = "down"
    /\ Parses(file)
    /\ entries' = [entries EXCEPT ![p] = EntriesOf(file)]
    /\ flushed' = [flushed EXCEPT ![p] = LoadedCursor(EntriesOf(file))]
    /\ pc' = [pc EXCEPT ![p] = "idle"]
    /\ UNCHANGED <<buf, file, durable, historyVars>>

\* `log` takes the log mutably: it never runs during a flush of the same log.
Log(p) ==
    /\ pc[p] = "idle"
    /\ logged < MaxLogged
    /\ logged' = logged + 1
    /\ entries' = [entries EXCEPT ![p] = Append(@, <<p, logged'>>)]
    /\ UNCHANGED <<flushed, pc, buf, file, durable, flushes, acked, failed, whole>>

(* flush_to_disk, in the steps another process or a crash can come between *)

\* Nothing pending returns Ok at once; the pending entries become one buffer.
\* A file that cannot be opened, or its mode not be set, is FlushFails below.
FlushBegin(p) ==
    /\ pc[p] = "idle"
    /\ flushed[p] < Len(entries[p])
    /\ flushes < MaxFlushes
    /\ flushes' = flushes + 1
    /\ buf' = [buf EXCEPT ![p] = Buffer(Pending(p))]
    /\ pc' = [pc EXCEPT ![p] = "writing"]
    /\ UNCHANGED <<logVars, file, durable, logged, acked, failed, whole>>

\* One write of write_all: it lands at the end of the file, perhaps in part,
\* and then write_all goes on with the rest.
Write(p) ==
    /\ pc[p] = "writing"
    /\ \E n \in 1..Len(buf[p]) :
        /\ file' = file \o SubSeq(buf[p], 1, n)
        /\ buf' = [buf EXCEPT ![p] = SubSeq(@, n + 1, Len(@))]
        /\ pc' = [pc EXCEPT ![p] = IF n = Len(buf[p]) THEN "syncing" ELSE "writing"]
        /\ whole' = (whole /\ n = Len(buf[p]))
    /\ UNCHANGED <<logVars, durable, logged, flushes, acked, failed>>

\* Mutant: no sync_all.
SyncedNothing == durable

Synced == Len(file)

Sync(p) ==
    /\ pc[p] = "syncing"
    /\ durable' = Synced
    /\ flushed' = [flushed EXCEPT ![p] = Len(entries[p])]
    /\ acked' = acked \cup PendingSet(p)
    /\ pc' = [pc EXCEPT ![p] = "idle"]
    /\ UNCHANGED <<entries, buf, file, logged, flushes, failed, whole>>

\* An error of open, write or fsync returns early: the cursor stays, and what
\* has been written stays written.
FlushFails(p) ==
    /\ pc[p] \in {"writing", "syncing"}
    /\ failed' = failed \cup PendingSet(p)
    /\ buf' = [buf EXCEPT ![p] = <<>>]
    /\ pc' = [pc EXCEPT ![p] = "idle"]
    /\ UNCHANGED <<logVars, file, durable, logged, flushes, acked, whole>>
-----------------------------------------------------------------------------
(* Crashes *)

\* A process dies and its memory with it; the file keeps what was written.
Crash(p) ==
    /\ pc[p] # "down"
    /\ pc' = [pc EXCEPT ![p] = "down"]
    /\ entries' = [entries EXCEPT ![p] = <<>>]
    /\ flushed' = [flushed EXCEPT ![p] = 0]
    /\ buf' = [buf EXCEPT ![p] = <<>>]
    /\ UNCHANGED <<file, durable, historyVars>>

\* The machine stops: every process dies, and written pieces that were not
\* synced may be lost from the end.
PowerLoss ==
    /\ \E n \in durable..Len(file) :
        /\ file' = SubSeq(file, 1, n)
        /\ durable' = n
        /\ whole' = (whole /\ (n = 0 \/ file[n][2] = "newline"))
    /\ pc' = [p \in Processes |-> "down"]
    /\ entries' = [p \in Processes |-> <<>>]
    /\ flushed' = [p \in Processes |-> 0]
    /\ buf' = [p \in Processes |-> <<>>]
    /\ UNCHANGED <<logged, flushes, acked, failed>>
-----------------------------------------------------------------------------
Init ==
    /\ entries = [p \in Processes |-> <<>>]
    /\ flushed = [p \in Processes |-> 0]
    /\ pc = [p \in Processes |-> "down"]
    /\ buf = [p \in Processes |-> <<>>]
    /\ file = <<>> /\ durable = 0
    /\ logged = 0
    /\ flushes = 0 /\ acked = {} /\ failed = {} /\ whole = TRUE

Next ==
    \/ \E p \in Processes :
        Load(p) \/ Log(p) \/ FlushBegin(p) \/ Write(p) \/ Sync(p) \/ FlushFails(p) \/ Crash(p)
    \/ PowerLoss

Spec == Init /\ [][Next]_vars
-----------------------------------------------------------------------------
\* The cursor never passes the entries, buffers belong to flushes only, and the
\* synced part lies within the file.
TypeOK ==
    /\ \A p \in Processes : flushed[p] \in 0..Len(entries[p])
    /\ pc \in [Processes -> {"down", "idle", "writing", "syncing"}]
    /\ \A p \in Processes : buf[p] # <<>> <=> pc[p] = "writing"
    /\ durable \in 0..Len(file)
    /\ acked \subseteq Entry /\ failed \subseteq Entry
    /\ \A i \in DOMAIN file : file[i] \in Entry \X {"start", "rest", "newline"}

\* Once flush_to_disk has returned Ok for an entry, all of its line is on stable
\* storage for good: whatever crashes, power losses, failed or partial flushes of
\* any process come after.  (flush_to_disk, load_from_disk)
AckedDurable ==
    \A e \in acked, k \in 1..3 : \E i \in 1..durable : file[i] = <<e, Parts[k]>>

\* A process's entries stand in the file in the order it logged them and each
\* once, restarts included; only a flush that returned an error is repeated.
\* (flush_to_disk, load_from_disk)
OrderedOnce ==
    \A i, j \in DOMAIN file :
        (i < j /\ file[i][2] = file[j][2] /\ file[i][1][1] = file[j][1][1]) =>
            file[i][1][2] < file[j][1][2] \/ file[j][1] \in failed

\* As long as every write took its whole buffer, the file can be replayed at
\* any time, and the replay has every entry whose flush returned Ok, whichever
\* processes appended between each other's.  (flush_to_disk, load_from_disk)
WholeWritesReplay ==
    whole =>
        /\ Parses(file)
        /\ \A e \in acked : \E i \in DOMAIN EntriesOf(file) : EntriesOf(file)[i] = e
-----------------------------------------------------------------------------
(* What the documentation says and the code does not do *)

\* docs/deployment.md:84: each line is an independently parseable entry.
EachLineParses ==
    \A i \in DOMAIN file : file[i][2] = "newline" =>
        /\ i >= 3
        /\ file[i - 1] = <<file[i][1], "rest">> /\ file[i - 2] = <<file[i][1], "start">>
        /\ i > 3 => file[i - 3][2] = "newline"
=============================================================================
