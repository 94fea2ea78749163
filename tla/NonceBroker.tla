---------------------------- MODULE NonceBroker ----------------------------
(***************************************************************************)
(* The L3 nonce broker of src/sddgov/broker.py: the append-only ledger of   *)
(* consumed nonces, the daemons that serve consume requests over a Unix     *)
(* socket, and the failures they must survive (a failed or partial write,   *)
(* a failed fsync, the death of a daemon, the loss of power).               *)
(*                                                                          *)
(* A record of the ledger is represented by its nonce; Torn stands for a    *)
(* fragment that is not a complete, newline-terminated, valid record.  The  *)
(* size of the file is counted in records.                                  *)
(***************************************************************************)
EXTENDS Naturals, Sequences

CONSTANTS
    Nonces,            \* the nonces of approval receipts
    Brokers,           \* broker daemon processes
    Conns,             \* client connections, each used for one request
    Torn,              \* an incomplete or invalid ledger record
    NoOne,             \* the absence of a broker, a connection or a nonce
    MaxLedger,         \* MAX_LEDGER_BYTES, in records
    EntryFollowsFile   \* TRUE: fsync of a file makes its directory entry durable

ASSUME BrokerAssumption ==
    /\ Torn \notin Nonces
    /\ NoOne \notin Nonces \cup Brokers \cup Conns
    /\ MaxLedger \in Nat \ {0}
    /\ EntryFollowsFile \in BOOLEAN

VARIABLES
    ledger,   \* the records of the file, as every process sees them
    synced,   \* how many leading records have reached the disk
    entry,    \* the directory entry: absent, volatile or durable
    exlock,   \* the holder of LOCK_EX on the ledger, or NoOne
    bpc,      \* where each daemon is in its code
    serving,  \* the connection each daemon is handling, or NoOne
    cst,      \* the state of each connection
    cto,      \* the daemon whose listening socket accepted it
    cnonce,   \* the nonce its request asks to consume; NoOne: a health request
    cresp     \* the response the daemon decided on

ledgerVars == <<ledger, synced, entry>>
connVars   == <<cst, cto, cnonce, cresp>>
brokerVars == <<ledger, synced, entry, exlock, bpc, serving, cst, cto, cnonce, cresp>>

Responses == {"CONSUMED", "ALREADY_CONSUMED", "REJECTED", "READY"}

(* A daemon that has published its socket and not yet left serve_broker.    *)
Listening == {"idle", "recv", "locked", "fresh", "written", "reply"}

BrokerTypeOK ==
    /\ ledger \in Seq(Nonces \cup {Torn})
    /\ synced \in Nat
    /\ entry \in {"absent", "volatile", "durable"}
    /\ exlock \in Brokers \cup {NoOne}
    /\ bpc \in [Brokers -> {"down", "syncdir", "scan"} \cup Listening]
    /\ serving \in [Brokers -> Conns \cup {NoOne}]
    /\ cst \in [Conns -> {"unused", "queued", "serving", "answered", "closed"}]
    /\ cto \in [Conns -> Brokers \cup {NoOne}]
    /\ cnonce \in [Conns -> Nonces \cup {NoOne}]
    /\ cresp \in [Conns -> Responses \cup {"none"}]

BrokerInit ==
    /\ ledger = <<>>
    /\ synced = 0
    /\ entry = "absent"
    /\ exlock = NoOne
    /\ bpc = [b \in Brokers |-> "down"]
    /\ serving = [b \in Brokers |-> NoOne]
    /\ cst = [k \in Conns |-> "unused"]
    /\ cto = [k \in Conns |-> NoOne]
    /\ cnonce = [k \in Conns |-> NoOne]
    /\ cresp = [k \in Conns |-> "none"]

-----------------------------------------------------------------------------
(* The ledger file                                                          *)

Records(l) == {l[i] : i \in 1 .. Len(l)}

(* Mutant: a fragment at the end of the file is overlooked.                 *)
ScanIgnoresDamage(l) ==
    /\ Len(l) < MaxLedger
    /\ \A i, j \in 1 .. Len(l) : l[i] = l[j] /\ l[i] # Torn => i = j

(* _scan_locked: below the capacity, every line a valid record, no nonce    *)
(* twice.                                                                   *)
ScanOK(l) ==
    /\ Len(l) < MaxLedger
    /\ Torn \notin Records(l)
    /\ \A i, j \in 1 .. Len(l) : l[i] = l[j] => i = j

(* consume refuses a record that would bring the file to the capacity.      *)
AtCapacity(l) == Len(l) + 1 >= MaxLedger

-----------------------------------------------------------------------------
(* Start of a daemon: NonceLedger.initialize, then publication of the       *)
(* socket (the socket itself is the subject of BrokerSocket).               *)

(* _open(create=True): O_CREAT | O_EXCL, or the existing file as it is.     *)
OpenLedger(b) ==
    /\ bpc[b] = "down"
    /\ \/ /\ entry = "absent"
          /\ entry' = "volatile"
          /\ ledger' = <<>>
          /\ synced' = 0
          /\ bpc' = [bpc EXCEPT ![b] = "syncdir"]
       \/ /\ entry # "absent"
          /\ bpc' = [bpc EXCEPT ![b] = "scan"]
          /\ UNCHANGED ledgerVars
    /\ UNCHANGED <<exlock, serving, connVars>>

(* The creator, and only the creator, fsyncs the parent directory; if that  *)
(* fails initialize raises and the file stays behind.                       *)
SyncDirectory(b) ==
    /\ bpc[b] = "syncdir"
    /\ \/ /\ entry' = "durable"
          /\ bpc' = [bpc EXCEPT ![b] = "scan"]
       \/ /\ bpc' = [bpc EXCEPT ![b] = "down"]
          /\ UNCHANGED entry
    /\ UNCHANGED <<ledger, synced, exlock, serving, connVars>>

(* flock(LOCK_SH) and the scan; an invalid ledger prevents the start.       *)
ScanAtStart(b) ==
    /\ bpc[b] = "scan"
    /\ exlock = NoOne
    /\ bpc' = [bpc EXCEPT ![b] = IF ScanOK(ledger) THEN "idle" ELSE "down"]
    /\ UNCHANGED <<ledgerVars, exlock, serving, connVars>>

-----------------------------------------------------------------------------
(* Requests: _serve_requests, _handle_connection and NonceLedger.consume    *)

(* A client connects to the socket of b and sends a consume request for n,  *)
(* or, when n is NoOne, a health request.                                   *)
Connect(k, b, n) ==
    /\ cst[k] = "unused"
    /\ bpc[b] \in Listening
    /\ cst' = [cst EXCEPT ![k] = "queued"]
    /\ cto' = [cto EXCEPT ![k] = b]
    /\ cnonce' = [cnonce EXCEPT ![k] = n]
    /\ UNCHANGED <<ledgerVars, exlock, bpc, serving, cresp>>

Accept(b, k) ==
    /\ bpc[b] = "idle"
    /\ cst[k] = "queued"
    /\ cto[k] = b
    /\ bpc' = [bpc EXCEPT ![b] = "recv"]
    /\ serving' = [serving EXCEPT ![b] = k]
    /\ cst' = [cst EXCEPT ![k] = "serving"]
    /\ UNCHANGED <<ledgerVars, exlock, cto, cnonce, cresp>>

(* The daemon settles on response r for the connection it serves.           *)
Respond(b, r) ==
    /\ cresp' = [cresp EXCEPT ![serving[b]] = r]
    /\ bpc' = [bpc EXCEPT ![b] = "reply"]

(* _receive_request or _parse_request raised: a late, partial, oversized or *)
(* malformed request is rejected without touching the ledger.               *)
RejectUnread(b) ==
    /\ bpc[b] = "recv"
    /\ Respond(b, "REJECTED")
    /\ UNCHANGED <<ledgerVars, exlock, serving, cst, cto, cnonce>>

(* A health request: validate scans the ledger under LOCK_SH.               *)
AnswerHealth(b) ==
    /\ bpc[b] = "recv"
    /\ cnonce[serving[b]] = NoOne
    /\ exlock = NoOne
    /\ Respond(b, IF ScanOK(ledger) THEN "READY" ELSE "REJECTED")
    /\ UNCHANGED <<ledgerVars, exlock, serving, cst, cto, cnonce>>

(* Mutant: a second daemon enters while the lock is held.                   *)
LockLedgerShared(b) ==
    /\ bpc[b] = "recv"
    /\ cnonce[serving[b]] # NoOne
    /\ exlock' = b
    /\ bpc' = [bpc EXCEPT ![b] = "locked"]
    /\ UNCHANGED <<ledgerVars, serving, connVars>>

(* consume: open the existing ledger, wait for LOCK_EX.                     *)
LockLedger(b) ==
    /\ bpc[b] = "recv"
    /\ cnonce[serving[b]] # NoOne
    /\ exlock = NoOne
    /\ exlock' = b
    /\ bpc' = [bpc EXCEPT ![b] = "locked"]
    /\ UNCHANGED <<ledgerVars, serving, connVars>>

(* Capacity check, scan, and the answer when nothing is appended.           *)
RefuseConsume(b) ==
    /\ bpc[b] = "locked"
    /\ \/ /\ AtCapacity(ledger) \/ ~ScanOK(ledger)
          /\ Respond(b, "REJECTED")
       \/ /\ ~AtCapacity(ledger) /\ ScanOK(ledger)
          /\ cnonce[serving[b]] \in Records(ledger)
          /\ Respond(b, "ALREADY_CONSUMED")
    /\ exlock' = NoOne
    /\ UNCHANGED <<ledgerVars, serving, cst, cto, cnonce>>

(* The nonce is not in the ledger and there is room for its record.         *)
FindFresh(b) ==
    /\ bpc[b] = "locked"
    /\ ~AtCapacity(ledger) /\ ScanOK(ledger)
    /\ cnonce[serving[b]] \notin Records(ledger)
    /\ bpc' = [bpc EXCEPT ![b] = "fresh"]
    /\ UNCHANGED <<ledgerVars, exlock, serving, connVars>>

(* Mutant: the descriptor is left at the start of the file.                 *)
AppendedAtStart(r) == IF ledger = <<>> THEN <<r>> ELSE [ledger EXCEPT ![1] = r]

(* The file with one more record: O_APPEND, lseek(SEEK_END).                *)
Appended(r) == Append(ledger, r)

(* _write_all wrote the complete record into the page cache.                *)
AppendRecord(b) ==
    /\ bpc[b] = "fresh"
    /\ ledger' = Appended(cnonce[serving[b]])
    /\ bpc' = [bpc EXCEPT ![b] = "written"]
    /\ UNCHANGED <<synced, entry, exlock, serving, connVars>>

(* _write_all raised, before the first byte or after some of them.          *)
AppendFails(b) ==
    /\ bpc[b] = "fresh"
    /\ \/ ledger' = Appended(Torn)
       \/ UNCHANGED ledger
    /\ Respond(b, "REJECTED")
    /\ exlock' = NoOne
    /\ UNCHANGED <<synced, entry, serving, cst, cto, cnonce>>

(* Mutant: the answer does not wait for the disk.                           *)
FsyncLedgerSkipped(b) ==
    /\ bpc[b] = "written"
    /\ Respond(b, "CONSUMED")
    /\ exlock' = NoOne
    /\ UNCHANGED <<ledgerVars, serving, cst, cto, cnonce>>

(* os.fsync returned: only now is the answer CONSUMED.                      *)
FsyncLedger(b) ==
    /\ bpc[b] = "written"
    /\ synced' = Len(ledger)
    /\ entry' = IF EntryFollowsFile THEN "durable" ELSE entry
    /\ Respond(b, "CONSUMED")
    /\ exlock' = NoOne
    /\ UNCHANGED <<ledger, serving, cst, cto, cnonce>>

(* os.fsync raised: the record stays in the page cache, the answer is       *)
(* REJECTED.                                                                *)
FsyncFails(b) ==
    /\ bpc[b] = "written"
    /\ Respond(b, "REJECTED")
    /\ exlock' = NoOne
    /\ UNCHANGED <<ledgerVars, serving, cst, cto, cnonce>>

(* sendall and close; a client that is gone does not stop the daemon.       *)
Reply(b) ==
    /\ bpc[b] = "reply"
    /\ cst' = [cst EXCEPT ![serving[b]] = "answered"]
    /\ bpc' = [bpc EXCEPT ![b] = "idle"]
    /\ serving' = [serving EXCEPT ![b] = NoOne]
    /\ UNCHANGED <<ledgerVars, exlock, cto, cnonce, cresp>>

-----------------------------------------------------------------------------
(* Failures                                                                 *)

Reset(S, k) == cst[k] \in {"queued", "serving"} /\ cto[k] \in S

(* The daemon stops or dies anywhere: the kernel drops its flock and resets *)
(* the connections it had accepted or had still in its backlog.             *)
BrokerExit(b) ==
    /\ bpc[b] # "down"
    /\ bpc' = [bpc EXCEPT ![b] = "down"]
    /\ serving' = [serving EXCEPT ![b] = NoOne]
    /\ exlock' = IF exlock = b THEN NoOne ELSE exlock
    /\ cst' = [k \in Conns |-> IF Reset({b}, k) THEN "closed" ELSE cst[k]]
    /\ UNCHANGED <<ledgerVars, cto, cnonce, cresp>>

(* What the disk may hold of the file after the power fails: at least the   *)
(* synced records, perhaps more, perhaps a fragment of the next one.        *)
DiskImages ==
    {SubSeq(ledger, 1, n) : n \in synced .. Len(ledger)}
      \cup {Append(SubSeq(ledger, 1, n), Torn) : n \in {m \in synced .. Len(ledger) : m < Len(ledger)}}

PowerLoss ==
    /\ bpc' = [b \in Brokers |-> "down"]
    /\ serving' = [b \in Brokers |-> NoOne]
    /\ exlock' = NoOne
    /\ cst' = [k \in Conns |-> IF Reset(Brokers, k) THEN "closed" ELSE cst[k]]
    /\ \/ /\ entry # "absent"
          /\ entry' = "durable"
          /\ ledger' \in DiskImages
          /\ synced' = Len(ledger')
       \/ /\ entry # "durable"
          /\ entry' = "absent"
          /\ ledger' = <<>>
          /\ synced' = 0
    /\ UNCHANGED <<cto, cnonce, cresp>>

-----------------------------------------------------------------------------
(* Everything a daemon does by itself; its death is BrokerExit.             *)
Daemon(b) ==
    \/ OpenLedger(b) \/ SyncDirectory(b) \/ ScanAtStart(b)
    \/ \E k \in Conns : Accept(b, k)
    \/ RejectUnread(b) \/ AnswerHealth(b)
    \/ LockLedger(b) \/ RefuseConsume(b) \/ FindFresh(b)
    \/ AppendRecord(b) \/ AppendFails(b)
    \/ FsyncLedger(b) \/ FsyncFails(b)
    \/ Reply(b)

BrokerNext ==
    \/ \E b \in Brokers : Daemon(b) \/ BrokerExit(b)
    \/ \E k \in Conns, b \in Brokers, n \in Nonces \cup {NoOne} : Connect(k, b, n)
    \/ PowerLoss

BrokerSpec == BrokerInit /\ [][BrokerNext]_brokerVars

-----------------------------------------------------------------------------
(* Properties                                                               *)

Won == {k \in Conns : cresp[k] = "CONSUMED"}

(* A nonce is answered CONSUMED to at most one connection, over every       *)
(* daemon, crash, restart and power loss ("atomically consumes an approval  *)
(* nonce once across clones and Agent sessions").                           *)
ConsumedOnce ==
    \A j, k \in Won : cnonce[j] = cnonce[k] => j = k

(* A response CONSUMED stands on a record that has reached the disk in a    *)
(* file whose directory entry has reached it too: consume fsyncs before it  *)
(* returns True, and the creator fsyncs the directory.                      *)
ConsumedIsDurable ==
    \A k \in Won :
        /\ entry = "durable"
        /\ \E i \in 1 .. synced : i <= Len(ledger) /\ ledger[i] = cnonce[k]

(* Damage fails closed: once a fragment is in the file, whichever daemon or *)
(* power loss left it there, nothing is appended behind it and no request   *)
(* is answered CONSUMED, by a daemon that had already been serving either;  *)
(* and an answer CONSUMED always leaves a ledger that the scan of the next  *)
(* start accepts: whole, below the capacity, no nonce twice.                *)
DamageFailsClosed ==
    [][/\ Torn \in Records(ledger) => Won' = Won /\ Len(ledger') <= Len(ledger)
       /\ Won' # Won => ScanOK(ledger')]_brokerVars

(* No step truncates or rewrites what has reached the disk while the file   *)
(* exists durably: the ledger is append-only, even over a power loss.       *)
DurablePrefixKept ==
    [][entry = "durable" =>
         /\ entry' = "durable"
         /\ \A i \in 1 .. synced : i <= Len(ledger') /\ ledger'[i] = ledger[i]]_brokerVars

=============================================================================
