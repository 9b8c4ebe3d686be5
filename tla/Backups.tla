------------------------------ MODULE Backups ------------------------------
(* The jobs that fill the disk beside the database: a backup made, an      *)
(* upload received, a restore applied (storage/backup.py, storage/         *)
(* restore.py, api/restore.py), and the downloads of what was made. Each   *)
(* request is a job; what it leaves on the disk outlives it.               *)
EXTENDS Integers, Sequences, FiniteSets, SequencesExt

CONSTANTS
    Jobs     \* requests, begun in this order: 1..n

None == 0

Kinds == {"backup", "plain", "download", "upload", "restore"}

\* The parts ticked, as far as a step of a restore depends on them.
Ticks == {{"data"}, {"surveys"}, {"data", "surveys"}}

VARIABLES
    disk,     \* DiskClaim._lock: who holds it, who waits for it
    lock,     \* Backups._lock, likewise
    orphan,   \* Backups._orphan: the cancelled request whose copy goes on
    job,      \* where each request stands
    made,     \* every backup made: its snapshot, who reads it
    current,  \* Backups._current
    up,       \* every upload: its file and the flags of Upload
    waiting,  \* Restores._current
    staged,   \* the restore whose unpacked database is on the disk
    unjudged  \* a restore put circuits or recordings back and judged none

vars == <<disk, lock, orphan, job, made, current, up, waiting, staged, unjudged>>

Idle == [kind |-> "none", at |-> "idle", of |-> None, items |-> {}, found |-> FALSE]
Unmade == [snapshot |-> "none", streaming |-> 0, discarded |-> FALSE]
NoUpload ==
    [file |-> "none", applying |-> FALSE, expired |-> FALSE, applied |-> FALSE,
     unwanted |-> FALSE]

Init ==
    /\ disk = [held |-> None, queue |-> <<>>]
    /\ lock = [held |-> None, queue |-> <<>>]
    /\ orphan = None
    /\ job = [j \in Jobs |-> Idle]
    /\ made = [j \in Jobs |-> Unmade]
    /\ current = None
    /\ up = [j \in Jobs |-> NoUpload]
    /\ waiting = None
    /\ staged = None
    /\ unjudged = FALSE

----------------------------------------------------------------------------
(* asyncio.Lock: first come, first served. Between a release and the next  *)
(* waiter's turn it reads as free, though a newcomer still queues.         *)

Join(c, j) ==
    IF c.held = None /\ c.queue = <<>>
    THEN [c EXCEPT !.held = j]
    ELSE [c EXCEPT !.queue = Append(@, j)]

Leave(c, j) ==
    [held  |-> IF c.held = j THEN None ELSE c.held,
     queue |-> SelectSeq(c.queue, LAMBDA k : k # j)]

HasTurn(c) == c.held = None /\ c.queue # <<>>

Turn(c) == [held |-> Head(c.queue), queue |-> Tail(c.queue)]

DiskTurn ==
    /\ HasTurn(disk)
    /\ disk' = Turn(disk)
    /\ UNCHANGED <<lock, orphan, job, made, current, up, waiting, staged, unjudged>>

LockTurn ==
    /\ HasTurn(lock)
    /\ lock' = Turn(lock)
    /\ UNCHANGED <<disk, orphan, job, made, current, up, waiting, staged, unjudged>>

At(j, kinds, where) == job[j].kind \in kinds /\ job[j].at = where
Goes(j, where) == job' = [job EXCEPT ![j].at = where]
Ends(j) == job' = [job EXCEPT ![j] = [Idle EXCEPT !.at = "done"]]
LetsGo(j) == disk' = Leave(disk, j) /\ lock' = Leave(lock, j)

\* Requests begin in the order of their numbers.
Begins(j, kind, where, of, items) ==
    /\ job[j].at = "idle" /\ \A k \in Jobs : k < j => job[k].at # "idle"
    /\ job' = [job EXCEPT ![j] = [Idle EXCEPT !.kind = kind, !.at = where,
                                             !.of = of, !.items = items]]

----------------------------------------------------------------------------
(* Making a backup.                                                        *)

\* Mutant of Discarded: a snapshot being read is removed at once.
DiscardedAtOnce(m, b) ==
    IF b = None THEN m
    ELSE [m EXCEPT ![b].discarded = TRUE, ![b].snapshot = "none"]

\* discard: the snapshot goes with the last download that reads it.
Discarded(m, b) ==
    IF b = None THEN m
    ELSE [m EXCEPT ![b].discarded = TRUE,
                   ![b].snapshot = IF m[b].streaming = 0 /\ @ = "whole"
                                   THEN "none" ELSE @]

\* prepare, with the recordings or without: the disk first, then the lock.
BeginBackup(j, kind) ==
    /\ Begins(j, kind, IF kind = "backup" THEN "disk" ELSE "lock", None, {})
    /\ IF kind = "backup" THEN disk' = Join(disk, j) /\ UNCHANGED lock
                          ELSE lock' = Join(lock, j) /\ UNCHANGED disk
    /\ UNCHANGED <<orphan, made, current, up, waiting, staged, unjudged>>

Claimed(j) ==
    /\ At(j, {"backup"}, "disk") /\ disk.held = j
    /\ lock' = Join(lock, j)
    /\ Goes(j, "lock")
    /\ UNCHANGED <<disk, orphan, made, current, up, waiting, staged, unjudged>>

\* With the lock, and once the copy nobody waits for is over.
MayPrepare(j) == lock.held = j /\ orphan = None

PreparePlain(j) ==
    /\ At(j, {"plain"}, "lock") /\ MayPrepare(j)
    /\ made' = [Discarded(made, current) EXCEPT ![j].snapshot = "empty"]
    /\ current' = j
    /\ LetsGo(j) /\ Ends(j)
    /\ UNCHANGED <<orphan, up, waiting, staged, unjudged>>

\* The backup before goes whether or not there is room for the new one.
Prepare(j) ==
    /\ At(j, {"backup"}, "lock") /\ MayPrepare(j)
    /\ current' = None
    /\ \/ /\ made' = Discarded(made, current)     \* check_space
          /\ LetsGo(j) /\ Ends(j)
       \/ /\ made' = [Discarded(made, current) EXCEPT ![j].snapshot = "writing"]
          /\ Goes(j, "copy")
          /\ UNCHANGED <<disk, lock>>
    /\ UNCHANGED <<orphan, up, waiting, staged, unjudged>>

Copied(j) ==
    /\ At(j, {"backup"}, "copy")
    /\ \/ /\ made' = [made EXCEPT ![j].snapshot = "whole"]
          /\ current' = j
       \/ /\ made' = [made EXCEPT ![j].snapshot = "none"]
          /\ UNCHANGED current
    /\ LetsGo(j) /\ Ends(j)
    /\ UNCHANGED <<orphan, up, waiting, staged, unjudged>>

\* The request is gone while it waited for its turn.
CancelWait(j) ==
    /\ \/ At(j, {"backup", "upload", "restore"}, "disk") \/ At(j, {"backup", "plain"}, "lock")
    /\ LetsGo(j) /\ Ends(j)
    /\ UNCHANGED <<orphan, made, current, up, waiting, staged, unjudged>>

\* Mutant of CancelCopy: without hold_until, the claim goes with the request.
CancelCopyLettingGo(j) ==
    /\ At(j, {"backup"}, "copy")
    /\ orphan' = j
    /\ LetsGo(j)
    /\ Goes(j, "orphan")
    /\ UNCHANGED <<made, current, up, waiting, staged, unjudged>>

\* _snapshot: the copy goes on in its thread and keeps the disk (hold_until).
CancelCopy(j) ==
    /\ At(j, {"backup"}, "copy")
    /\ orphan' = j
    /\ lock' = Leave(lock, j)
    /\ Goes(j, "orphan")
    /\ UNCHANGED <<disk, made, current, up, waiting, staged, unjudged>>

\* _drop_orphan, then the claim's release.
DropOrphan(j) ==
    /\ At(j, {"backup"}, "orphan")
    /\ made' = [made EXCEPT ![j].snapshot = "none"]
    /\ orphan' = None
    /\ disk' = Leave(disk, j)
    /\ Ends(j)
    /\ UNCHANGED <<lock, current, up, waiting, staged, unjudged>>

\* The quarter of an hour is over.
Expiry ==
    /\ current # None
    /\ made' = Discarded(made, current)
    /\ current' = None
    /\ UNCHANGED <<disk, lock, orphan, job, up, waiting, staged, unjudged>>

----------------------------------------------------------------------------
(* Downloading it.                                                         *)

\* download_backup looks the backup up; the file is opened when the answer
\* has begun.
BeginDownload(j) ==
    /\ current # None
    /\ Begins(j, "download", "open", current, {})
    /\ UNCHANGED <<disk, lock, orphan, made, current, up, waiting, staged, unjudged>>

\* stream, up to the first chunk: a snapshot that went meanwhile breaks it.
StartStream(j) ==
    /\ At(j, {"download"}, "open")
    /\ LET b == job[j].of
           there == made[b].snapshot \in {"whole", "empty"}
       IN IF there
          THEN made' = [made EXCEPT ![b].streaming = @ + 1] /\ Goes(j, "sending")
          ELSE Ends(j) /\ UNCHANGED made
    /\ UNCHANGED <<disk, lock, orphan, current, up, waiting, staged, unjudged>>

\* Sent whole, the backup is forgotten at once; broken off, only what was
\* forgotten meanwhile goes.
EndStream(j) ==
    /\ At(j, {"download"}, "sending")
    /\ LET b == job[j].of
           left == [made EXCEPT ![b].streaming = @ - 1]
       IN \/ /\ made' = Discarded(left, b)
             /\ current' = IF current = b THEN None ELSE current
          \/ /\ made' = IF left[b].discarded THEN Discarded(left, b) ELSE left
             /\ UNCHANGED current
    /\ Ends(j)
    /\ UNCHANGED <<disk, lock, orphan, up, waiting, staged, unjudged>>

----------------------------------------------------------------------------
(* Receiving an upload.                                                    *)

\* A claim without waiting is refused while somebody holds the disk.
ClaimOrRefused(j) ==
    /\ IF disk.held # None
       THEN Ends(j) /\ UNCHANGED disk
       ELSE Goes(j, "disk") /\ disk' = Join(disk, j)
    /\ UNCHANGED <<lock, orphan, made, current, up, waiting, staged, unjudged>>

BeginUpload(j) ==
    /\ Begins(j, "upload", "upload", None, {})
    /\ UNCHANGED <<disk, lock, orphan, made, current, up, waiting, staged, unjudged>>

Offered(j) == At(j, {"upload"}, "upload") /\ ClaimOrRefused(j)

\* _receive: too long for the room there is, or spooled chunk by chunk.
Spool(j) ==
    /\ At(j, {"upload"}, "disk") /\ disk.held = j
    /\ \/ /\ LetsGo(j) /\ Ends(j)
          /\ UNCHANGED up
       \/ /\ up' = [up EXCEPT ![j].file = "part"]
          /\ Goes(j, "spool")
          /\ UNCHANGED <<disk, lock>>
    /\ UNCHANGED <<orphan, made, current, waiting, staged, unjudged>>

\* Upload.discard, which an upload being applied ignores.
Forgotten(u, w) ==
    IF w = None \/ u[w].applying THEN u
    ELSE [u EXCEPT ![w] = NoUpload]

\* Outgrown, not a backup, or broken off; else it takes the place of the one
\* before.
Received(j) ==
    /\ At(j, {"upload"}, "spool")
    /\ \/ /\ up' = [up EXCEPT ![j].file = "none"]
          /\ UNCHANGED waiting
       \/ /\ up' = [Forgotten(up, waiting) EXCEPT ![j].file = "zip"]
          /\ waiting' = j
    /\ LetsGo(j) /\ Ends(j)
    /\ UNCHANGED <<orphan, made, current, staged, unjudged>>

\* Its half hour is over, or DELETE forgets it.
Forget(expires) ==
    /\ waiting # None
    /\ up' = Forgotten([up EXCEPT ![waiting].expired = @ \/ expires,
                                  ![waiting].unwanted = @ \/ ~expires], waiting)
    /\ waiting' = IF up[waiting].applying THEN waiting ELSE None
    /\ UNCHANGED <<disk, lock, orphan, job, made, current, staged, unjudged>>

----------------------------------------------------------------------------
(* Restoring it.                                                           *)

\* apply_restore: the upload is looked up, then described (two queries).
BeginRestore(j, items) ==
    /\ waiting # None
    /\ Begins(j, "restore", "describe", waiting, items)
    /\ UNCHANGED <<disk, lock, orphan, made, current, up, waiting, staged, unjudged>>

Described(j) ==
    /\ At(j, {"restore"}, "describe")
    /\ ClaimOrRefused(j)

FirstOf(items) == IF "data" \in items THEN "unpack" ELSE "settings"

\* applying; check_room is the first thing done under it, and may refuse.
Apply(j) ==
    /\ At(j, {"restore"}, "disk") /\ disk.held = j
    /\ LET u == job[j].of IN
       \/ /\ up' = [up EXCEPT ![u].applying = TRUE]
          /\ job' = [job EXCEPT ![j].at = FirstOf(job[j].items),
                                ![j].found = up[u].file = "zip"]
          /\ UNCHANGED disk
       \/ /\ disk' = Leave(disk, j) /\ Ends(j)
          /\ UNCHANGED up
    /\ UNCHANGED <<lock, orphan, made, current, waiting, staged, unjudged>>

\* The end of applying, however it comes: what expired meanwhile goes, and
\* what was applied.
LetsUploadGo(j, applied) ==
    LET u == job[j].of
        over == [up EXCEPT ![u].applying = FALSE, ![u].applied = @ \/ applied]
    IN IF over[u].expired \/ over[u].applied
       THEN up' = Forgotten(over, u) /\ waiting' = IF waiting = u THEN None ELSE waiting
       ELSE up' = over /\ UNCHANGED waiting

\* Mutant of Fails: the lock of the backups is let go on success only.
FailsHoldingOn(j) ==
    /\ job[j].kind = "restore"
    /\ job[j].at \in {"unpack", "verify", "swap", "install", "settings", "surveys"}
    /\ LetsUploadGo(j, FALSE)
    /\ staged' = None
    /\ disk' = Leave(disk, j)
    /\ Ends(j)
    /\ UNCHANGED <<lock, orphan, made, current, unjudged>>

\* A step raises: the staged file goes, the claim and the lock are let go.
\* Past the recordings, and among the circuits, what was put back stays, and
\* nobody judges it.
Fails(j) ==
    /\ job[j].kind = "restore"
    /\ job[j].at \in {"unpack", "verify", "swap", "install", "settings", "surveys"}
    /\ job[j].at = "swap" => lock.held # j
    /\ LetsUploadGo(j, FALSE)
    /\ staged' = None
    /\ unjudged' = \/ unjudged
                   \/ job[j].at \in {"settings", "surveys"} /\ "data" \in job[j].items
                   \/ job[j].at = "surveys"
    /\ LetsGo(j) /\ Ends(j)
    /\ UNCHANGED <<orphan, made, current>>

\* unpack_database
Unpack(j) ==
    /\ At(j, {"restore"}, "unpack") /\ job[j].found
    /\ staged' = j
    /\ Goes(j, "verify")
    /\ UNCHANGED <<disk, lock, orphan, made, current, up, waiting, unjudged>>

\* check_database and upgrade_database, then replace_database as far as the
\* lock of the backups.
Verify(j) ==
    /\ At(j, {"restore"}, "verify")
    /\ lock' = Join(lock, j)
    /\ Goes(j, "swap")
    /\ UNCHANGED <<disk, orphan, made, current, up, waiting, staged, unjudged>>

\* suspended: no backup of the recordings being replaced stays.
Suspend(j) ==
    /\ At(j, {"restore"}, "swap") /\ lock.held = j /\ orphan = None
    /\ made' = Discarded(made, current)
    /\ current' = None
    /\ Goes(j, "install")
    /\ UNCHANGED <<disk, lock, orphan, up, waiting, staged, unjudged>>

\* install_database: the staged file is the database now.
Install(j) ==
    /\ At(j, {"restore"}, "install")
    /\ lock' = Leave(lock, j)
    /\ staged' = None
    /\ Goes(j, "settings")
    /\ UNCHANGED <<disk, orphan, made, current, up, waiting, unjudged>>

\* _restore_config, _restore_layouts and restore_source_id.
Settings(j) ==
    /\ At(j, {"restore"}, "settings")
    /\ Goes(j, IF "surveys" \in job[j].items THEN "surveys" ELSE "judge")
    /\ UNCHANGED <<disk, lock, orphan, made, current, up, waiting, staged, unjudged>>

\* restore_surveys, read from the upload.
Surveys(j) ==
    /\ At(j, {"restore"}, "surveys") /\ job[j].found
    /\ Goes(j, "judge")
    /\ UNCHANGED <<disk, lock, orphan, made, current, up, waiting, staged, unjudged>>

\* Every circuit queued to be re-judged; the upload has been applied.
Judge(j) ==
    /\ At(j, {"restore"}, "judge")
    /\ LetsUploadGo(j, TRUE)
    /\ LetsGo(j) /\ Ends(j)
    /\ UNCHANGED <<orphan, made, current, staged, unjudged>>

----------------------------------------------------------------------------
Making(j) ==
    Claimed(j) \/ PreparePlain(j) \/ Prepare(j) \/ Copied(j) \/ DropOrphan(j)

Sending(j) == StartStream(j) \/ EndStream(j)

Receiving(j) == Offered(j) \/ Spool(j) \/ Received(j)

Restoring(j) ==
    \/ Described(j) \/ Apply(j) \/ Unpack(j) \/ Verify(j) \/ Suspend(j)
    \/ Install(j) \/ Settings(j) \/ Surveys(j) \/ Judge(j) \/ Fails(j)

Works(j) == Making(j) \/ Sending(j) \/ Receiving(j) \/ Restoring(j)

Turns == DiskTurn \/ LockTurn

Begin(j) ==
    \/ \E kind \in {"backup", "plain"} : BeginBackup(j, kind)
    \/ BeginDownload(j)
    \/ BeginUpload(j)
    \/ \E items \in Ticks : BeginRestore(j, items)

Next ==
    \/ Turns
    \/ Expiry
    \/ \E expires \in BOOLEAN : Forget(expires)
    \/ \E j \in Jobs : Begin(j) \/ Works(j) \/ CancelWait(j) \/ CancelCopy(j)

Spec == Init /\ [][Next]_vars

\* Threads end, a client sends or goes away, and the loop runs what is ready.
Fairness == WF_vars(Turns) /\ \A j \in Jobs : WF_vars(Works(j))

FairSpec == Spec /\ Fairness

----------------------------------------------------------------------------
\* Who writes to the disk beside the database, or has a thread that does.
Fillers ==
    {j \in Jobs : \/ job[j].kind = "backup" /\ job[j].at \in {"copy", "orphan"}
                  \/ job[j].kind = "upload" /\ job[j].at = "spool"
                  \/ job[j].kind = "restore" /\ up[job[j].of].applying
                     /\ job[j].at \notin {"describe", "disk", "done"}}

\* Each job measures the free space it needs when it begins to fill the disk:
\* two of them never fill it at once, the copy of a request that went away
\* included (DiskClaim, hold_until, run_to_end).
OneFiller == Cardinality(Fillers) <= 1

\* The snapshots with somebody to remove them: the copy still running, the
\* backup waiting for its download or its expiry, the downloads reading it.
Held(b) ==
    \/ job[b].kind = "backup" /\ job[b].at \in {"copy", "orphan"}
    \/ current = b
    \/ \E d \in Jobs : job[d].of = b /\ At(d, {"download"}, "sending")

\* No file outlives those who would remove it, and none goes from under those
\* who use it: a snapshot is there exactly as long as somebody holds it, an
\* upload as long as it is being received or waits (an applied one waits), the
\* unpacked database as long as its restore works on it (Backups.discard,
\* stream, _drop_orphan; Restores.discard, applying; _restore_data's finally).
FilesHaveOwners ==
    /\ \A b \in Jobs : made[b].snapshot # "empty" =>
          (made[b].snapshot # "none") = Held(b)
    /\ \A j \in Jobs : up[j].file # "none" =>
          waiting = j \/ At(j, {"upload"}, "spool")
    /\ waiting # None => up[waiting].file = "zip"
    /\ staged # None => At(staged, {"restore"}, "verify")
                          \/ At(staged, {"restore"}, "swap")
                          \/ At(staged, {"restore"}, "install")

\* Every request ends: nobody waits for the disk while holding what its holder
\* waits for (prepare: "the disk first, then this lock").
EachEnds == <>[](\A j \in Jobs : job[j].at \in {"idle", "done"})

(* What the documentation says and the code does not do; no run checks it. *)

\* "neither its expiry nor a new upload deletes it underneath" (restore.py,
\* applying): not so for one that went while apply_restore described it.
AppliesWhatIsThere ==
    \A j \in Jobs : At(j, {"restore"}, "settings") => up[job[j].of].file = "zip"

\* "unless it is being applied: then it goes when the restore is done"
\* (restore.py, discard): not so for one deleted during a restore that fails.
UnwantedGoes == waiting # None => (up[waiting].unwanted => up[waiting].applying)

\* "Only the data part can fail the request, and it fails before anything is
\* changed" (api/restore.py, _apply): an error of the disk among the circuits
\* leaves those already merged without a judgement.
AllIsJudged == ~unjudged

\* "An upload or a restore that finds the claim taken is refused at once"
\* (backup.py, DiskClaim): not between a release and the next one's turn.
NeverQueues ==
    \A i \in DOMAIN disk.queue : job[disk.queue[i]].kind = "backup"

\* A link that was valid when the download began delivers the backup: not if
\* the backup goes before its file is opened.
LinkDelivers ==
    \A j \in Jobs : At(j, {"download"}, "open") => made[job[j].of].snapshot # "none"
=============================================================================
