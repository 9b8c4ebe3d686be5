----------------------------- MODULE UpkeepProofs -----------------------------
(***************************************************************************)
(* What looks after the recordings and the installation.                   *)
(*                                                                         *)
(* First the backups, for any number of requests: two jobs never fill the  *)
(* disk beside the database at once, and no file there outlives or leaves  *)
(* its users.  Nothing is needed of the order in which a lock serves those *)
(* who wait: only that it is held by one.  Then the upgrades, which have a *)
(* way back, and the update offered, which is what Quit installs.          *)
(***************************************************************************)
EXTENDS MCUpkeep, FiniteSetTheorems, WellFoundedInduction, TLAPS

Nobody == None \notin Jobs

Places ==
    {"idle", "done", "disk", "lock", "copy", "orphan", "open", "sending", "upload", "spool",
     "describe", "unpack", "verify", "swap", "install", "settings", "surveys", "judge"}

Restored == {"unpack", "verify", "swap", "install", "settings", "surveys", "judge"}

RequestRec ==
    [kind : Kinds \cup {"none"}, at : Places, of : Jobs \cup {None},
     items : SUBSET {"data", "surveys"}, found : BOOLEAN]
BackupRec ==
    [snapshot : {"none", "writing", "whole", "empty"}, streaming : Nat, discarded : BOOLEAN]
UploadRec ==
    [file : {"none", "part", "zip"}, applying : BOOLEAN, expired : BOOLEAN,
     applied : BOOLEAN, unwanted : BOOLEAN]

USE DEF RequestRec, BackupRec, UploadRec

JobsOK == job \in [Jobs -> RequestRec]

MadeOK ==
    /\ made \in [Jobs -> BackupRec]
    /\ current \in Jobs \cup {None}

UpOK ==
    /\ up \in [Jobs -> UploadRec]
    /\ waiting \in Jobs \cup {None} /\ staged \in Jobs \cup {None}

\* Whoever is past the wait for the disk holds it; a copy, and a database being
\* swapped, hold the lock of the backups, a copy that goes on alone its name.
Using(j) ==
    \/ At(j, {"backup"}, "lock") \/ At(j, {"backup"}, "copy") \/ At(j, {"backup"}, "orphan")
    \/ At(j, {"upload"}, "spool")
    \/ job[j].kind = "restore" /\ job[j].at \in Restored

IsLock(c) == c = [held |-> c.held, queue |-> c.queue]

LocksHeld ==
    /\ IsLock(disk) /\ IsLock(lock)
    /\ \A j \in Jobs : Using(j) => disk.held = j
    /\ \A j \in Jobs : At(j, {"backup"}, "copy") => lock.held = j
    /\ \A j \in Jobs : At(j, {"backup"}, "orphan") => orphan = j

Copying(j) == At(j, {"backup"}, "copy") \/ At(j, {"backup"}, "orphan")
Senders(b) == {d \in Jobs : At(d, {"download"}, "sending") /\ job[d].of = b}

\* A restore is where restores go; it and a download are of what a request that
\* has ended left.
Follow ==
    /\ \A j \in Jobs :
        /\ job[j].kind = "restore" => job[j].at \in {"describe", "disk"} \cup Restored
        /\ job[j].kind \in {"download", "restore"} =>
              job[j].of \in Jobs /\ job[job[j].of].at = "done"
    /\ current # None => job[current].at = "done"
    /\ waiting # None => job[waiting].at = "done"

\* A snapshot is written while it is copied, whole while it is offered or read,
\* and once it is not offered its last reader takes it along.
Fits(b, m, offered) ==
    /\ IsFiniteSet(Senders(b)) /\ m.streaming = Cardinality(Senders(b))
    /\ m.snapshot = "writing" <=> Copying(b)
    /\ m.snapshot = "whole" => offered = b \/ Senders(b) # {}
    /\ offered = b \/ Senders(b) # {} => m.snapshot \in {"whole", "empty"}
    /\ offered = b => ~m.discarded
    /\ m.snapshot = "whole" /\ offered # b => m.discarded
    /\ job[b].at # "done" => ~m.discarded /\ m.snapshot \in {"none", "writing"}

Snapshots ==
    /\ \A b \in Jobs : Fits(b, made[b], current)
    /\ (\E j \in Jobs : Copying(j)) => current = None

\* An upload is partial while it is received, and waits once it is whole; what
\* is being applied has a restore that applies it, which has the disk.
Uploads ==
    /\ \A j \in Jobs :
        /\ up[j].file = "part" <=> At(j, {"upload"}, "spool")
        /\ up[j].file = "zip" <=> waiting = j
        /\ up[j].applying =>
              \E r \in Jobs : job[r].kind = "restore" /\ job[r].at \in Restored /\ job[r].of = j
    /\ staged # None => /\ job[staged].kind = "restore"
                        /\ job[staged].at \in {"verify", "swap", "install"}

IInv == JobsOK /\ MadeOK /\ UpOK /\ LocksHeld /\ Follow /\ Snapshots /\ Uploads
-----------------------------------------------------------------------------
(* What the helpers of the model return.                                   *)

LEMMA JoinHolds ==
    ASSUME NEW c, IsLock(c), NEW j
    PROVE  /\ IsLock(Join(c, j))
           /\ c.held # None => Join(c, j).held = c.held
           /\ Join(c, j).held \in {c.held, j}
BY DEF IsLock, Join

LEMMA LeaveHolds ==
    ASSUME NEW c, NEW j
    PROVE  /\ IsLock(Leave(c, j))
           /\ Leave(c, j).held = IF c.held = j THEN None ELSE c.held
BY DEF IsLock, Leave

\* A backup that is discarded is marked, and its snapshot goes unless it is
\* being read.
LEMMA DiscardedHolds ==
    ASSUME NEW m \in [Jobs -> BackupRec],
           NEW b \in Jobs \cup {None}
    PROVE  /\ Discarded(m, b) \in [Jobs -> BackupRec]
           /\ \A k \in Jobs :
                 /\ Discarded(m, b)[k].streaming = m[k].streaming
                 /\ k # b => Discarded(m, b)[k] = m[k]
           /\ b \in Jobs /\ b # None =>
                 /\ Discarded(m, b)[b].discarded
                 /\ Discarded(m, b)[b].snapshot =
                       IF m[b].streaming = 0 /\ m[b].snapshot = "whole"
                       THEN "none" ELSE m[b].snapshot
<1>1. CASE b = None BY <1>1 DEF Discarded
<1>2. CASE b # None BY <1>2 DEF Discarded
<1> QED BY <1>1, <1>2

\* An upload that is forgotten is gone, unless it is being applied.
LEMMA ForgottenHolds ==
    ASSUME Nobody, NEW u \in [Jobs -> UploadRec], NEW w \in Jobs \cup {None}
    PROVE  /\ Forgotten(u, w) \in [Jobs -> UploadRec]
           /\ \A k \in Jobs : k # w => Forgotten(u, w)[k] = u[k]
           /\ w # None /\ u[w].applying => Forgotten(u, w) = u
           /\ w # None /\ ~u[w].applying =>
                 Forgotten(u, w)[w].file = "none" /\ ~Forgotten(u, w)[w].applying
<1>1. NoUpload \in UploadRec /\ NoUpload.file = "none" /\ ~NoUpload.applying
  BY DEF NoUpload
<1>2. CASE w = None \/ u[w].applying BY <1>2 DEF Forgotten
<1>3. CASE w # None /\ ~u[w].applying
  <2>1. Forgotten(u, w) = [u EXCEPT ![w] = NoUpload] BY <1>3 DEF Forgotten
  <2> HIDE DEF UploadRec
  <2> QED BY <1>1, <1>3, <2>1
<1> QED BY <1>2, <1>3

LEMMA InitHolds == ASSUME Nobody PROVE Init => IInv
<1> SUFFICES ASSUME Init PROVE IInv
    OBVIOUS
<1> USE DEF Nobody, Init, Idle, Unmade, NoUpload, None
<1>1. JobsOK BY DEF JobsOK, Places
<1>2. MadeOK BY DEF MadeOK
<1>3. UpOK BY DEF UpOK
<1>4. LocksHeld BY DEF LocksHeld, IsLock, Using, At, Restored
<1>5. Follow BY DEF Follow
<1>6. Snapshots
  <2>1. \A b \in Jobs : Senders(b) = {} BY DEF Senders, At
  <2> QED BY <2>1, FS_EmptySet DEF Snapshots, Fits, Copying, At
<1>7. Uploads BY DEF Uploads, At
<1> QED BY <1>1, <1>2, <1>3, <1>4, <1>5, <1>6, <1>7 DEF IInv
-----------------------------------------------------------------------------
(* What a step leaves true of the parts it has no business with.           *)

\* A request that moves on keeps what it is about; one that ends, nothing.
LEMMA GoesHolds ==
    ASSUME JobsOK, NEW j \in Jobs, NEW where \in Places, Goes(j, where)
    PROVE  /\ JobsOK' /\ \A k \in Jobs \ {j} : job'[k] = job[k]
           /\ job'[j].kind = job[j].kind /\ job'[j].at = where /\ job'[j].of = job[j].of
           /\ job'[j].items = job[j].items /\ job'[j].found = job[j].found
<1> DEFINE J == [job[j] EXCEPT !.at = where]
<1>1. J \in RequestRec
  BY DEF JobsOK
<1>2. job' = [job EXCEPT ![j] = J] BY DEF JobsOK, Goes
<1>3. J.kind = job[j].kind /\ J.at = where /\ J.of = job[j].of /\ J.items = job[j].items
      /\ J.found = job[j].found
  BY DEF JobsOK
<1> HIDE DEF J
<1> QED BY <1>1, <1>2, <1>3 DEF JobsOK

LEMMA EndsHolds ==
    ASSUME JobsOK, NEW j \in Jobs, Ends(j)
    PROVE  /\ JobsOK' /\ \A k \in Jobs \ {j} : job'[k] = job[k]
           /\ job'[j].kind = "none" /\ job'[j].at = "done"
<1> DEFINE J == [Idle EXCEPT !.at = "done"]
<1>1. J \in RequestRec
  BY DEF Idle, Places
<1>2. job' = [job EXCEPT ![j] = J] BY DEF Ends
<1>3. J.kind = "none" /\ J.at = "done" BY DEF Idle
<1> HIDE DEF J
<1> QED BY <1>1, <1>2, <1>3 DEF JobsOK

\* A step of j that leaves a lock, joins its queue or does nothing to it keeps
\* it for whoever has it.
LEMMA LocksStay ==
    ASSUME LocksHeld, NEW j \in Jobs, \A k \in Jobs \ {j} : job'[k] = job[k],
           disk' \in {disk, Join(disk, j), Leave(disk, j)},
           lock' \in {lock, Join(lock, j), Leave(lock, j)},
           orphan' = orphan \/ Copying(j),
           Using(j)' => disk'.held = j,
           At(j, {"backup"}, "copy")' => lock'.held = j,
           At(j, {"backup"}, "orphan")' => orphan' = j,
           None \notin Jobs
    PROVE  LocksHeld'
<1>1. IsLock(disk)' /\ IsLock(lock)'
  <2>1. IsLock(disk') /\ IsLock(lock') BY JoinHolds, LeaveHolds DEF LocksHeld
  <2> QED BY <2>1 DEF IsLock
<1>2. ASSUME NEW k \in Jobs \ {j}
      PROVE  /\ Using(k)' => disk'.held = k
             /\ At(k, {"backup"}, "copy")' => lock'.held = k
             /\ At(k, {"backup"}, "orphan")' => orphan' = k
  <2>1. /\ Using(k)' <=> Using(k)
        /\ At(k, {"backup"}, "copy")' <=> At(k, {"backup"}, "copy")
        /\ At(k, {"backup"}, "orphan")' <=> At(k, {"backup"}, "orphan")
    BY DEF Using, At
  <2>2. disk.held = k => disk'.held = k BY <1>2, JoinHolds, LeaveHolds DEF LocksHeld
  <2>3. lock.held = k => lock'.held = k BY <1>2, JoinHolds, LeaveHolds DEF LocksHeld
  <2>4. At(k, {"backup"}, "orphan") => orphan' = k
    <3>1. At(k, {"backup"}, "orphan") => ~Copying(j)
      BY <1>2 DEF LocksHeld, Using, Copying
    <3> QED BY <3>1 DEF LocksHeld
  <2> QED BY <2>1, <2>2, <2>3, <2>4 DEF LocksHeld
<1>3. /\ \A k \in Jobs : Using(k)' => disk'.held = k
      /\ \A k \in Jobs : At(k, {"backup"}, "copy")' => lock'.held = k
      /\ \A k \in Jobs : At(k, {"backup"}, "orphan")' => orphan' = k
  BY <1>2
<1> QED BY <1>1, <1>3 DEF LocksHeld

\* What a download or a restore is of goes on having ended.
LEMMA FollowStays ==
    ASSUME Follow, NEW j \in Jobs, \A k \in Jobs \ {j} : job'[k] = job[k],
           job[j].at # "done",
           job'[j].kind = "restore" => job'[j].at \in {"describe", "disk"} \cup Restored,
           job'[j].kind \in {"download", "restore"} =>
              \/ job'[j].kind = job[j].kind /\ job'[j].of = job[j].of
              \/ job'[j].of \in Jobs /\ job[job'[j].of].at = "done",
           current' \in {current, None}, waiting' \in {waiting, None},
           MadeOK, UpOK
    PROVE  Follow'
<1>1. \A k \in Jobs : job[k].at = "done" => job'[k].at = "done"
  OBVIOUS
<1>2. ASSUME NEW k \in Jobs, job'[k].kind \in {"download", "restore"}
      PROVE  job'[k].of \in Jobs /\ job'[job'[k].of].at = "done"
  <2>1. job'[k].of \in Jobs /\ job[job'[k].of].at = "done" BY <1>2 DEF Follow
  <2> QED BY <1>1, <2>1
<1>3. current' # None => job'[current'].at = "done" BY <1>1 DEF Follow, MadeOK
<1>4. waiting' # None => job'[waiting'].at = "done" BY <1>1 DEF Follow, UpOK
<1>5. \A k \in Jobs :
         job'[k].kind = "restore" => job'[k].at \in {"describe", "disk"} \cup Restored
  BY DEF Follow
<1> QED BY <1>2, <1>3, <1>4, <1>5 DEF Follow

\* A request that ends may leave a backup or an upload behind.
LEMMA FollowEnds ==
    ASSUME Follow, NEW j \in Jobs, \A k \in Jobs \ {j} : job'[k] = job[k],
           job'[j].kind = "none", job'[j].at = "done",
           current' \in {current, None, j}, waiting' \in {waiting, None, j},
           MadeOK, UpOK
    PROVE  Follow'
<1>1. \A k \in Jobs : job[k].at = "done" => job'[k].at = "done"
  OBVIOUS
<1>2. ASSUME NEW k \in Jobs, job'[k].kind \in {"download", "restore"}
      PROVE  /\ job'[k].of \in Jobs /\ job'[job'[k].of].at = "done"
             /\ job'[k].kind = "restore" => job'[k].at \in {"describe", "disk"} \cup Restored
  <2>1. job'[k] = job[k] BY <1>2
  <2>2. job[k].of \in Jobs /\ job[job[k].of].at = "done" BY <1>2, <2>1 DEF Follow
  <2> QED BY <1>1, <1>2, <2>1, <2>2 DEF Follow
<1>3. current' # None => job'[current'].at = "done" BY <1>1 DEF Follow, MadeOK
<1>4. waiting' # None => job'[waiting'].at = "done" BY <1>1 DEF Follow, UpOK
<1> QED BY <1>2, <1>3, <1>4 DEF Follow

\* The backups stay as they are when no copy and no download begins or ends.
LEMMA SnapshotsStay ==
    ASSUME \A b \in Jobs : Fits(b, made'[b], current'),
           (\E k \in Jobs : Copying(k)) => current' = None,
           \A k \in Jobs :
              /\ Copying(k)' <=> Copying(k)
              /\ At(k, {"download"}, "sending")' <=> At(k, {"download"}, "sending")
              /\ At(k, {"download"}, "sending") => job'[k].of = job[k].of
              /\ job[k].at = "done" => job'[k].at = "done"
    PROVE  Snapshots'
<1>1. \A b \in Jobs : Senders(b)' = Senders(b) BY DEF Senders
<1>2. ASSUME NEW b \in Jobs PROVE Fits(b, made[b], current)'
  <2>1. Fits(b, made'[b], current') BY <1>2
  <2> QED BY <1>1, <2>1 DEF Fits
<1> QED BY <1>2 DEF Snapshots

\* A backup nobody offers any more, once it has been discarded.
LEMMA DiscardedFits ==
    ASSUME Nobody, MadeOK, Follow, Snapshots, NEW b \in Jobs
    PROVE  Fits(b, Discarded(made, current)[b], None)
<1>1. Fits(b, made[b], current) /\ b # None BY DEF Snapshots, Nobody
<1>2. CASE b # current
  <2>1. Discarded(made, current)[b] = made[b] BY <1>2, DiscardedHolds DEF MadeOK
  <2> QED BY <1>1, <1>2, <2>1 DEF Fits
<1>3. CASE b = current
  <2>1. /\ Discarded(made, current)[b].streaming = made[b].streaming
        /\ Discarded(made, current)[b].discarded
        /\ Discarded(made, current)[b].snapshot =
              IF made[b].streaming = 0 /\ made[b].snapshot = "whole"
              THEN "none" ELSE made[b].snapshot
    BY <1>1, <1>3, DiscardedHolds DEF MadeOK
  <2>2. job[b].at = "done" BY <1>1, <1>3 DEF Follow
  <2>3. made[b].streaming = 0 <=> Senders(b) = {} BY <1>1, FS_EmptySet DEF Fits
  <2>4. ~Copying(b) BY <2>2 DEF Copying, At
  <2> QED BY <1>1, <1>3, <2>1, <2>2, <2>3, <2>4 DEF Fits
<1> QED BY <1>2, <1>3

\* The uploads stay as they are when none is received, forgotten or applied.
LEMMA UploadsStay ==
    ASSUME Uploads, UNCHANGED <<up, waiting>>,
           \A k \in Jobs :
              /\ At(k, {"upload"}, "spool")' <=> At(k, {"upload"}, "spool")
              /\ job[k].kind = "restore" /\ job[k].at \in Restored =>
                    job'[k].kind = "restore" /\ job'[k].at \in Restored /\ job'[k].of = job[k].of,
           staged' # None => /\ job'[staged'].kind = "restore"
                             /\ job'[staged'].at \in {"verify", "swap", "install"}
    PROVE  Uploads'
<1>1. ASSUME NEW j \in Jobs, up'[j].applying
      PROVE  \E r \in Jobs : job'[r].kind = "restore" /\ job'[r].at \in Restored /\ job'[r].of = j
  <2>1. PICK r \in Jobs : job[r].kind = "restore" /\ job[r].at \in Restored /\ job[r].of = j
    BY <1>1 DEF Uploads
  <2> QED BY <2>1
<1> QED BY <1>1 DEF Uploads

\* What a step that only moves a request on leaves true.
LEMMA QuietStepsKeep ==
    ASSUME Nobody, IInv, NEW j \in Jobs,
           \/ Claimed(j) \/ CancelWait(j) \/ CancelCopy(j) \/ Offered(j) \/ Described(j)
           \/ Verify(j) \/ Install(j) \/ Unpack(j) \/ Settings(j) \/ Surveys(j)
    PROVE  IInv'
<1> USE DEF IInv, At, Nobody
<1>1. CASE Claimed(j)
  <2>1. JobsOK' /\ \A k \in Jobs \ {j} : job'[k] = job[k]
    BY <1>1, GoesHolds, EndsHolds DEF Claimed, Places, Restored
  <2>2. job'[j].kind = job[j].kind /\ job'[j].of = job[j].of /\ job'[j].at = "lock"
    BY <1>1, GoesHolds, EndsHolds DEF Claimed, Places
  <2>3. MadeOK' /\ UpOK'
    BY <1>1, <2>1 DEF Claimed, MadeOK, UpOK
  <2>4. LocksHeld'
    BY <1>1, <2>1, <2>2, LocksStay, JoinHolds, LeaveHolds DEF Claimed, LetsGo, LocksHeld, Using, Restored
  <2>5. Follow'
    BY <1>1, <2>1, <2>2, FollowStays DEF Claimed, Restored
  <2>6. Snapshots'
    BY <1>1, <2>1, <2>2, SnapshotsStay DEF Claimed, Copying, Snapshots
  <2>7. Uploads'
    BY <1>1, <2>1, <2>2, UploadsStay DEF Claimed, Restored, Uploads, UpOK
  <2> QED BY <2>1, <2>3, <2>4, <2>5, <2>6, <2>7
<1>2. CASE CancelWait(j)
  <2>1. JobsOK' /\ \A k \in Jobs \ {j} : job'[k] = job[k]
    BY <1>2, GoesHolds, EndsHolds DEF CancelWait, Places, Restored
  <2>2. job'[j].kind = "none" /\ job'[j].at = "done"
    BY <1>2, GoesHolds, EndsHolds DEF CancelWait, Places
  <2>3. MadeOK' /\ UpOK'
    BY <1>2, <2>1 DEF CancelWait, MadeOK, UpOK
  <2>4. LocksHeld'
    BY <1>2, <2>1, <2>2, LocksStay, JoinHolds, LeaveHolds DEF CancelWait, LetsGo, LocksHeld, Using, Restored
  <2>5. Follow'
    BY <1>2, <2>1, <2>2, FollowStays DEF CancelWait, Restored
  <2>6. Snapshots'
    BY <1>2, <2>1, <2>2, SnapshotsStay DEF CancelWait, Copying, Snapshots
  <2>7. Uploads'
    BY <1>2, <2>1, <2>2, UploadsStay DEF CancelWait, Restored, Uploads, UpOK
  <2> QED BY <2>1, <2>3, <2>4, <2>5, <2>6, <2>7
<1>3. CASE CancelCopy(j)
  <2>1. JobsOK' /\ \A k \in Jobs \ {j} : job'[k] = job[k]
    BY <1>3, GoesHolds, EndsHolds DEF CancelCopy, Places, Restored
  <2>2. job'[j].kind = job[j].kind /\ job'[j].of = job[j].of /\ job'[j].at = "orphan"
    BY <1>3, GoesHolds, EndsHolds DEF CancelCopy, Places
  <2>3. MadeOK' /\ UpOK'
    BY <1>3, <2>1 DEF CancelCopy, MadeOK, UpOK
  <2>4. LocksHeld'
    BY <1>3, <2>1, <2>2, LocksStay, JoinHolds, LeaveHolds DEF CancelCopy, LetsGo, LocksHeld, Using, Restored
  <2>5. Follow'
    BY <1>3, <2>1, <2>2, FollowStays DEF CancelCopy, Restored
  <2>6. Snapshots'
    BY <1>3, <2>1, <2>2, SnapshotsStay DEF CancelCopy, Copying, Snapshots
  <2>7. Uploads'
    BY <1>3, <2>1, <2>2, UploadsStay DEF CancelCopy, Restored, Uploads, UpOK
  <2> QED BY <2>1, <2>3, <2>4, <2>5, <2>6, <2>7
<1>4. CASE Offered(j)
  <2>1. JobsOK' /\ \A k \in Jobs \ {j} : job'[k] = job[k]
    BY <1>4, GoesHolds, EndsHolds DEF Offered, ClaimOrRefused, Places, Restored
  <2>2. \/ job'[j].kind = "none" /\ job'[j].at = "done"
        \/ job'[j].kind = job[j].kind /\ job'[j].of = job[j].of /\ job'[j].at = "disk" /\ disk.held = None /\ disk' = Join(disk, j)
    BY <1>4, GoesHolds, EndsHolds DEF Offered, ClaimOrRefused, Places
  <2>3. MadeOK' /\ UpOK'
    BY <1>4, <2>1 DEF Offered, ClaimOrRefused, MadeOK, UpOK
  <2>4. LocksHeld'
    BY <1>4, <2>1, <2>2, LocksStay, JoinHolds, LeaveHolds DEF Offered, ClaimOrRefused, LetsGo, LocksHeld, Using, Restored
  <2>5. Follow'
    BY <1>4, <2>1, <2>2, FollowStays DEF Offered, ClaimOrRefused, Restored
  <2>6. Snapshots'
    BY <1>4, <2>1, <2>2, SnapshotsStay DEF Offered, ClaimOrRefused, Copying, Snapshots
  <2>7. Uploads'
    BY <1>4, <2>1, <2>2, UploadsStay DEF Offered, ClaimOrRefused, Restored, Uploads, UpOK
  <2> QED BY <2>1, <2>3, <2>4, <2>5, <2>6, <2>7
<1>5. CASE Described(j)
  <2>1. JobsOK' /\ \A k \in Jobs \ {j} : job'[k] = job[k]
    BY <1>5, GoesHolds, EndsHolds DEF Described, ClaimOrRefused, Places, Restored
  <2>2. \/ job'[j].kind = "none" /\ job'[j].at = "done"
        \/ job'[j].kind = job[j].kind /\ job'[j].of = job[j].of /\ job'[j].at = "disk" /\ disk.held = None /\ disk' = Join(disk, j)
    BY <1>5, GoesHolds, EndsHolds DEF Described, ClaimOrRefused, Places
  <2>3. MadeOK' /\ UpOK'
    BY <1>5, <2>1 DEF Described, ClaimOrRefused, MadeOK, UpOK
  <2>4. LocksHeld'
    BY <1>5, <2>1, <2>2, LocksStay, JoinHolds, LeaveHolds DEF Described, ClaimOrRefused, LetsGo, LocksHeld, Using, Restored
  <2>5. Follow'
    BY <1>5, <2>1, <2>2, FollowStays DEF Described, ClaimOrRefused, Restored
  <2>6. Snapshots'
    BY <1>5, <2>1, <2>2, SnapshotsStay DEF Described, ClaimOrRefused, Copying, Snapshots
  <2>7. Uploads'
    BY <1>5, <2>1, <2>2, UploadsStay DEF Described, ClaimOrRefused, Restored, Uploads, UpOK
  <2> QED BY <2>1, <2>3, <2>4, <2>5, <2>6, <2>7
<1>6. CASE Verify(j)
  <2>1. JobsOK' /\ \A k \in Jobs \ {j} : job'[k] = job[k]
    BY <1>6, GoesHolds, EndsHolds DEF Verify, Places, Restored
  <2>2. job'[j].kind = job[j].kind /\ job'[j].of = job[j].of /\ job'[j].at = "swap"
    BY <1>6, GoesHolds, EndsHolds DEF Verify, Places
  <2>3. MadeOK' /\ UpOK'
    BY <1>6, <2>1 DEF Verify, MadeOK, UpOK
  <2>4. LocksHeld'
    BY <1>6, <2>1, <2>2, LocksStay, JoinHolds, LeaveHolds DEF Verify, LetsGo, LocksHeld, Using, Restored
  <2>5. Follow'
    BY <1>6, <2>1, <2>2, FollowStays DEF Verify, Restored
  <2>6. Snapshots'
    BY <1>6, <2>1, <2>2, SnapshotsStay DEF Verify, Copying, Snapshots
  <2>7. Uploads'
    BY <1>6, <2>1, <2>2, UploadsStay DEF Verify, Restored, Uploads, UpOK
  <2> QED BY <2>1, <2>3, <2>4, <2>5, <2>6, <2>7
<1>7. CASE Install(j)
  <2>1. JobsOK' /\ \A k \in Jobs \ {j} : job'[k] = job[k]
    BY <1>7, GoesHolds, EndsHolds DEF Install, Places, Restored
  <2>2. job'[j].kind = job[j].kind /\ job'[j].of = job[j].of /\ job'[j].at = "settings"
    BY <1>7, GoesHolds, EndsHolds DEF Install, Places
  <2>3. MadeOK' /\ UpOK'
    BY <1>7, <2>1 DEF Install, MadeOK, UpOK
  <2>4. LocksHeld'
    BY <1>7, <2>1, <2>2, LocksStay, JoinHolds, LeaveHolds DEF Install, LetsGo, LocksHeld, Using, Restored
  <2>5. Follow'
    BY <1>7, <2>1, <2>2, FollowStays DEF Install, Restored
  <2>6. Snapshots'
    BY <1>7, <2>1, <2>2, SnapshotsStay DEF Install, Copying, Snapshots
  <2>7. Uploads'
    BY <1>7, <2>1, <2>2, UploadsStay DEF Install, Restored, Uploads, UpOK
  <2> QED BY <2>1, <2>3, <2>4, <2>5, <2>6, <2>7
<1>8. CASE Unpack(j)
  <2>1. JobsOK' /\ \A k \in Jobs \ {j} : job'[k] = job[k]
    BY <1>8, GoesHolds, EndsHolds DEF Unpack, Places, Restored
  <2>2. job'[j].kind = job[j].kind /\ job'[j].of = job[j].of /\ job'[j].at = "verify"
    BY <1>8, GoesHolds, EndsHolds DEF Unpack, Places
  <2>3. MadeOK' /\ UpOK'
    BY <1>8, <2>1 DEF Unpack, MadeOK, UpOK
  <2>4. LocksHeld'
    BY <1>8, <2>1, <2>2, LocksStay, JoinHolds, LeaveHolds DEF Unpack, LetsGo, LocksHeld, Using, Restored
  <2>5. Follow'
    BY <1>8, <2>1, <2>2, FollowStays DEF Unpack, Restored
  <2>6. Snapshots'
    BY <1>8, <2>1, <2>2, SnapshotsStay DEF Unpack, Copying, Snapshots
  <2>7. Uploads'
    BY <1>8, <2>1, <2>2, UploadsStay DEF Unpack, Restored, Uploads, UpOK
  <2> QED BY <2>1, <2>3, <2>4, <2>5, <2>6, <2>7
<1>9. CASE Settings(j)
  <2>1. JobsOK' /\ \A k \in Jobs \ {j} : job'[k] = job[k]
    BY <1>9, GoesHolds, EndsHolds DEF Settings, Places, Restored
  <2>2. /\ job'[j].kind = job[j].kind /\ job'[j].of = job[j].of
        /\ job'[j].at \in {"surveys", "judge"}
    BY <1>9, GoesHolds, EndsHolds DEF Settings, Places
  <2>3. MadeOK' /\ UpOK'
    BY <1>9, <2>1 DEF Settings, MadeOK, UpOK
  <2>4. LocksHeld'
    BY <1>9, <2>1, <2>2, LocksStay, JoinHolds, LeaveHolds DEF Settings, LetsGo, LocksHeld, Using, Restored
  <2>5. Follow'
    BY <1>9, <2>1, <2>2, FollowStays DEF Settings, Restored
  <2>6. Snapshots'
    BY <1>9, <2>1, <2>2, SnapshotsStay DEF Settings, Copying, Snapshots
  <2>7. Uploads'
    BY <1>9, <2>1, <2>2, UploadsStay DEF Settings, Restored, Uploads, UpOK
  <2> QED BY <2>1, <2>3, <2>4, <2>5, <2>6, <2>7
<1>10. CASE Surveys(j)
  <2>1. JobsOK' /\ \A k \in Jobs \ {j} : job'[k] = job[k]
    BY <1>10, GoesHolds, EndsHolds DEF Surveys, Places, Restored
  <2>2. job'[j].kind = job[j].kind /\ job'[j].of = job[j].of /\ job'[j].at = "judge"
    BY <1>10, GoesHolds, EndsHolds DEF Surveys, Places
  <2>3. MadeOK' /\ UpOK'
    BY <1>10, <2>1 DEF Surveys, MadeOK, UpOK
  <2>4. LocksHeld'
    BY <1>10, <2>1, <2>2, LocksStay, JoinHolds, LeaveHolds DEF Surveys, LetsGo, LocksHeld, Using, Restored
  <2>5. Follow'
    BY <1>10, <2>1, <2>2, FollowStays DEF Surveys, Restored
  <2>6. Snapshots'
    BY <1>10, <2>1, <2>2, SnapshotsStay DEF Surveys, Copying, Snapshots
  <2>7. Uploads'
    BY <1>10, <2>1, <2>2, UploadsStay DEF Surveys, Restored, Uploads, UpOK
  <2> QED BY <2>1, <2>3, <2>4, <2>5, <2>6, <2>7
<1> QED BY <1>1, <1>2, <1>3, <1>4, <1>5, <1>6, <1>7, <1>8, <1>9, <1>10

\* A request that begins: it has a kind and a place, and is of what has ended.
LEMMA BeginKeeps ==
    ASSUME Nobody, IInv, NEW j \in Jobs, Begin(j)
    PROVE  IInv'
<1> USE DEF IInv, At, Nobody
<1>1. PICK kind \in Kinds, where \in {"disk", "lock", "open", "upload", "describe"},
           of \in Jobs \cup {None}, items \in SUBSET {"data", "surveys"} :
         /\ Begins(j, kind, where, of, items)
         /\ kind = "backup" => where = "disk"
         /\ kind = "restore" => where = "describe"
         /\ kind \in {"download", "restore"} => of \in Jobs /\ job[of].at = "done"
         /\ kind = "upload" => where = "upload"
         /\ kind \in {"download", "plain"} => where \in {"open", "lock"}
         /\ disk' \in {disk, Join(disk, j)} /\ lock' \in {lock, Join(lock, j)}
         /\ UNCHANGED <<orphan, made, current, up, waiting, staged, unjudged>>
  BY DEF Begin, BeginBackup, BeginDownload, BeginUpload, BeginRestore, Kinds, Ticks, Follow, MadeOK, UpOK
<1> DEFINE J == [Idle EXCEPT !.kind = kind, !.at = where, !.of = of, !.items = items]
<1>2. /\ J \in RequestRec
      /\ J.kind = kind /\ J.at = where /\ J.of = of
  BY DEF Idle, Places
<1>3. job' = [job EXCEPT ![j] = J] /\ job[j].at = "idle" BY <1>1 DEF Begins
<1> HIDE DEF J
<1>4. /\ JobsOK' /\ \A k \in Jobs \ {j} : job'[k] = job[k]
      /\ job'[j].kind = kind /\ job'[j].at = where /\ job'[j].of = of
  BY <1>2, <1>3 DEF JobsOK
<1>5. MadeOK' /\ UpOK' BY <1>1 DEF MadeOK, UpOK
<1>6. LocksHeld' BY <1>1, <1>4, LocksStay DEF Using, Restored
<1>7. Follow' BY <1>1, <1>3, <1>4, FollowStays
<1>8. Snapshots' BY <1>1, <1>3, <1>4, SnapshotsStay DEF Copying, Snapshots
<1>9. Uploads' BY <1>1, <1>3, <1>4, UploadsStay DEF Restored, Uploads, UpOK
<1> QED BY <1>4, <1>5, <1>6, <1>7, <1>8, <1>9

\* A lock that takes its turn was nobody's; what expires is discarded.
LEMMA TurnsKeep ==
    ASSUME Nobody, IInv, Turns \/ Expiry
    PROVE  IInv'
<1> USE DEF IInv, Nobody
<1>1. CASE DiskTurn
  <2>1. JobsOK' /\ MadeOK' /\ UpOK' /\ Follow' /\ Uploads'
    BY <1>1 DEF DiskTurn, JobsOK, MadeOK, UpOK, Follow, Uploads, At
  <2>3. Snapshots' BY <1>1, SnapshotsStay DEF DiskTurn, Snapshots, Copying, At
  <2>2. LocksHeld'
    BY <1>1 DEF DiskTurn, HasTurn, Turn, LocksHeld, IsLock, Using, At
  <2> QED BY <2>1, <2>2, <2>3
<1>2. CASE LockTurn
  <2>1. JobsOK' /\ MadeOK' /\ UpOK' /\ Follow' /\ Uploads'
    BY <1>2 DEF LockTurn, JobsOK, MadeOK, UpOK, Follow, Uploads, At
  <2>3. Snapshots' BY <1>2, SnapshotsStay DEF LockTurn, Snapshots, Copying, At
  <2>2. LocksHeld'
    BY <1>2 DEF LockTurn, HasTurn, Turn, LocksHeld, IsLock, Using, At
  <2> QED BY <2>1, <2>2, <2>3
<1>3. CASE Expiry
  <2>1. MadeOK' BY <1>3, DiscardedHolds DEF Expiry, MadeOK
  <2>2. JobsOK' /\ UpOK' /\ Follow' /\ Uploads'
    BY <1>3 DEF Expiry, JobsOK, UpOK, Follow, Uploads, At
  <2>3. LocksHeld' BY <1>3 DEF Expiry, LocksHeld, IsLock, Using, At
  <2>4. Snapshots' BY <1>3, DiscardedFits, SnapshotsStay DEF Expiry, Copying, At
  <2> QED BY <2>1, <2>2, <2>3, <2>4
<1> QED BY <1>1, <1>2, <1>3 DEF Turns

\* What making a backup leaves true.
LEMMA MakingKeeps ==
    ASSUME Nobody, IInv, NEW j \in Jobs,
           PreparePlain(j) \/ Prepare(j) \/ Copied(j) \/ DropOrphan(j)
    PROVE  IInv'
<1> USE DEF IInv, At, Nobody
<1>1. CASE PreparePlain(j)
  <2>1. JobsOK' /\ \A k \in Jobs \ {j} : job'[k] = job[k]
    BY <1>1, GoesHolds, EndsHolds DEF PreparePlain, MayPrepare, Places, Restored
  <2>2. job'[j].kind = "none" /\ job'[j].at = "done"
    BY <1>1, GoesHolds, EndsHolds DEF PreparePlain, MayPrepare, Places
  <2>3. MadeOK' /\ UpOK'
    <3> DEFINE D == Discarded(made, current)
    <3>1. D \in [Jobs -> BackupRec]
      BY DiscardedHolds DEF MadeOK
    <3>2. made' = [D EXCEPT ![j].snapshot = "empty"]
      BY <1>1, <2>2 DEF PreparePlain
    <3> HIDE DEF D
    <3>3. current' = j /\ UpOK' BY <1>1 DEF PreparePlain, UpOK
    <3>4. made' \in [Jobs -> BackupRec]
      BY <3>1, <3>2
    <3> QED BY <3>3, <3>4 DEF MadeOK
  <2>4. LocksHeld'
    BY <1>1, <2>1, <2>2, LocksStay, JoinHolds, LeaveHolds DEF PreparePlain, MayPrepare, LetsGo, LocksHeld, Using, Restored
  <2>5. Follow'
    BY <1>1, <2>1, <2>2, FollowEnds DEF PreparePlain
  <2>6. Snapshots'
    <3> DEFINE D == Discarded(made, current)
    <3>1. \A b \in Jobs : Fits(b, D[b], None) BY DiscardedFits
    <3>2. ~\E k \in Jobs : Copying(k)
      BY <1>1 DEF PreparePlain, MayPrepare, LocksHeld, Copying
    <3>3. /\ made' \in [Jobs -> BackupRec]
          /\ \A b \in Jobs \ {j} : made'[b] = D[b]
          /\ made'[j].snapshot = "empty" /\ made'[j].streaming = D[j].streaming
          /\ made'[j].discarded = D[j].discarded
      BY <1>1, DiscardedHolds DEF PreparePlain, MadeOK
    <3> HIDE DEF D
    <3>4. \A b \in Jobs : Senders(b)' = Senders(b)
      BY <1>1, <2>1, <2>2 DEF PreparePlain, Senders
    <3>5. \A k \in Jobs : ~Copying(k)'
      BY <1>1, <2>1, <2>2, <3>2 DEF PreparePlain, Copying
    <3>6. current' = j /\ job[j].at = "lock" BY <1>1 DEF PreparePlain
    <3>7. ASSUME NEW b \in Jobs PROVE Fits(b, made[b], current)'
      <4>1. CASE b = j
        BY <2>1, <2>2, <3>1, <3>2, <3>3, <3>4, <3>5, <3>6, <4>1 DEF Fits
      <4>2. CASE b # j
        BY <2>1, <2>2, <3>1, <3>2, <3>3, <3>4, <3>5, <3>6, <4>2 DEF Fits
      <4> QED BY <4>1, <4>2
    <3> QED BY <3>5, <3>7 DEF Snapshots
  <2>7. Uploads'
    BY <1>1, <2>1, <2>2, UploadsStay DEF PreparePlain, MayPrepare, Restored, Uploads, UpOK
  <2> QED BY <2>1, <2>3, <2>4, <2>5, <2>6, <2>7
<1>2. CASE Prepare(j)
  <2>1. JobsOK' /\ \A k \in Jobs \ {j} : job'[k] = job[k]
    BY <1>2, GoesHolds, EndsHolds DEF Prepare, MayPrepare, Places, Restored
  <2>2. \/ job'[j].kind = "none" /\ job'[j].at = "done" /\ made' = Discarded(made, current)
        \/ /\ job'[j].kind = job[j].kind /\ job'[j].of = job[j].of /\ job'[j].at = "copy"
           /\ made' = [Discarded(made, current) EXCEPT ![j].snapshot = "writing"]
    BY <1>2, GoesHolds, EndsHolds DEF Prepare, MayPrepare, Places
  <2>3. MadeOK' /\ UpOK'
    <3> DEFINE D == Discarded(made, current)
    <3>1. D \in [Jobs -> BackupRec]
      BY DiscardedHolds DEF MadeOK
    <3>2. made' = D \/ made' = [D EXCEPT ![j].snapshot = "writing"]
      BY <1>2, <2>2 DEF Prepare
    <3> HIDE DEF D
    <3>3. current' = None /\ UpOK' BY <1>2 DEF Prepare, UpOK
    <3>4. made' \in [Jobs -> BackupRec]
      BY <3>1, <3>2
    <3> QED BY <3>3, <3>4 DEF MadeOK
  <2>4. LocksHeld'
    <3>1. Using(j) /\ lock.held = j /\ disk.held = j
      BY <1>2 DEF Prepare, MayPrepare, LocksHeld, Using
    <3>2. /\ disk' \in {disk, Leave(disk, j)} /\ lock' \in {lock, Leave(lock, j)} /\ orphan' = orphan
          /\ job'[j].at = "copy" => disk' = disk /\ lock' = lock
      BY <1>2, <2>1, <2>2 DEF Prepare, LetsGo, Ends, Goes, JobsOK, Idle
    <3> QED BY <2>1, <2>2, <3>1, <3>2, LocksStay DEF Using, Restored
  <2>5. Follow'
    BY <1>2, <2>1, <2>2, FollowStays DEF Prepare, MayPrepare, Restored
  <2>6. Snapshots'
    <3> DEFINE D == Discarded(made, current)
    <3>1. \A b \in Jobs : Fits(b, D[b], None) BY DiscardedFits
    <3>2. ~\E k \in Jobs : Copying(k)
      BY <1>2 DEF Prepare, MayPrepare, LocksHeld, Copying
    <3>3. /\ \A b \in Jobs \ {j} : made'[b] = D[b]
          /\ job'[j].at = "copy" =>
                /\ made'[j].snapshot = "writing" /\ made'[j].streaming = D[j].streaming
                /\ made'[j].discarded = D[j].discarded
          /\ job'[j].at # "copy" => made'[j] = D[j]
      BY <2>2, DiscardedHolds DEF MadeOK
    <3> HIDE DEF D
    <3>4. \A b \in Jobs : Senders(b)' = Senders(b)
      BY <1>2, <2>1, <2>2 DEF Prepare, Senders
    <3>5. \A k \in Jobs : Copying(k)' <=> k = j /\ job'[j].at = "copy"
      BY <1>2, <2>1, <2>2, <3>2 DEF Prepare, Copying
    <3>6. current' = None /\ job[j].at = "lock" BY <1>2 DEF Prepare
    <3>7. ASSUME NEW b \in Jobs PROVE Fits(b, made[b], current)'
      <4>1. CASE b = j
        BY <2>2, <3>1, <3>2, <3>3, <3>4, <3>5, <3>6, <4>1 DEF Fits
      <4>2. CASE b # j
        BY <2>1, <3>1, <3>2, <3>3, <3>4, <3>5, <3>6, <4>2 DEF Fits
      <4> QED BY <4>1, <4>2
    <3> QED BY <3>6, <3>7 DEF Snapshots
  <2>7. Uploads'
    BY <1>2, <2>1, <2>2, UploadsStay DEF Prepare, MayPrepare, Restored, Uploads, UpOK
  <2> QED BY <2>1, <2>3, <2>4, <2>5, <2>6, <2>7
<1>3. CASE Copied(j)
  <2>1. JobsOK' /\ \A k \in Jobs \ {j} : job'[k] = job[k]
    BY <1>3, GoesHolds, EndsHolds DEF Copied, Places, Restored
  <2>2. job'[j].kind = "none" /\ job'[j].at = "done"
    BY <1>3, GoesHolds, EndsHolds DEF Copied, Places
  <2>3. MadeOK' /\ UpOK'
    BY <1>3, <2>1 DEF Copied, MadeOK, UpOK
  <2>4. LocksHeld'
    BY <1>3, <2>1, <2>2, LocksStay, JoinHolds, LeaveHolds DEF Copied, LetsGo, LocksHeld, Using, Restored
  <2>5. Follow'
    BY <1>3, <2>1, <2>2, FollowEnds DEF Copied
  <2>6. Snapshots'
    <3>1. current = None /\ Copying(j) BY <1>3 DEF Copied, Copying, Snapshots
    <3>2. \A k \in Jobs : Copying(k) => k = j
      BY <3>1 DEF Copying, LocksHeld, Using
    <3>3. \A b \in Jobs : Senders(b)' = Senders(b)
      BY <1>3, <2>1, <2>2 DEF Copied, Senders
    <3>4. \A k \in Jobs : ~Copying(k)' BY <2>1, <2>2, <3>2 DEF Copying
    <3>5. /\ \A b \in Jobs \ {j} : made'[b] = made[b]
          /\ made'[j].streaming = made[j].streaming /\ made'[j].discarded = made[j].discarded
          /\ \/ made'[j].snapshot = "whole" /\ current' = j
             \/ made'[j].snapshot = "none" /\ current' = None
      BY <1>3, <3>1 DEF Copied, MadeOK
    <3>6. ASSUME NEW b \in Jobs PROVE Fits(b, made[b], current)'
      <4>1. Fits(b, made[b], None) BY <3>1 DEF Snapshots
      <4>2. CASE b = j
        BY <1>3, <2>2, <3>1, <3>3, <3>4, <3>5, <4>1, <4>2 DEF Fits, Copied
      <4>3. CASE b # j
        BY <2>1, <3>2, <3>3, <3>4, <3>5, <4>1, <4>3 DEF Fits
      <4> QED BY <4>2, <4>3
    <3> QED BY <3>4, <3>6 DEF Snapshots
  <2>7. Uploads'
    BY <1>3, <2>1, <2>2, UploadsStay DEF Copied, Restored, Uploads, UpOK
  <2> QED BY <2>1, <2>3, <2>4, <2>5, <2>6, <2>7
<1>4. CASE DropOrphan(j)
  <2>1. JobsOK' /\ \A k \in Jobs \ {j} : job'[k] = job[k]
    BY <1>4, GoesHolds, EndsHolds DEF DropOrphan, Places, Restored
  <2>2. job'[j].kind = "none" /\ job'[j].at = "done"
    BY <1>4, GoesHolds, EndsHolds DEF DropOrphan, Places
  <2>3. MadeOK' /\ UpOK'
    BY <1>4, <2>1 DEF DropOrphan, MadeOK, UpOK
  <2>4. LocksHeld'
    BY <1>4, <2>1, <2>2, LocksStay, JoinHolds, LeaveHolds DEF DropOrphan, LetsGo, LocksHeld, Using, Restored
  <2>5. Follow'
    BY <1>4, <2>1, <2>2, FollowStays DEF DropOrphan, Restored
  <2>6. Snapshots'
    <3>1. current = None /\ Copying(j) BY <1>4 DEF DropOrphan, Copying, Snapshots
    <3>2. \A k \in Jobs : Copying(k) => k = j
      BY <3>1 DEF Copying, LocksHeld, Using
    <3>3. \A b \in Jobs : Senders(b)' = Senders(b)
      BY <1>4, <2>1, <2>2 DEF DropOrphan, Senders
    <3>4. \A k \in Jobs : ~Copying(k)' BY <2>1, <2>2, <3>2 DEF Copying
    <3>5. /\ \A b \in Jobs \ {j} : made'[b] = made[b]
          /\ made'[j].streaming = made[j].streaming /\ made'[j].discarded = made[j].discarded
          /\ made'[j].snapshot = "none" /\ current' = None
      BY <1>4, <3>1 DEF DropOrphan, MadeOK
    <3>6. ASSUME NEW b \in Jobs PROVE Fits(b, made[b], current)'
      <4>1. Fits(b, made[b], None) BY <3>1 DEF Snapshots
      <4>2. CASE b = j
        BY <1>4, <2>2, <3>1, <3>3, <3>4, <3>5, <4>1, <4>2 DEF Fits, DropOrphan
      <4>3. CASE b # j
        BY <2>1, <3>2, <3>3, <3>4, <3>5, <4>1, <4>3 DEF Fits
      <4> QED BY <4>2, <4>3
    <3> QED BY <3>4, <3>6 DEF Snapshots
  <2>7. Uploads'
    BY <1>4, <2>1, <2>2, UploadsStay DEF DropOrphan, Restored, Uploads, UpOK
  <2> QED BY <2>1, <2>3, <2>4, <2>5, <2>6, <2>7
<1> QED BY <1>1, <1>2, <1>3, <1>4

\* What a download that begins or ends leaves true.
LEMMA SendingKeeps ==
    ASSUME Nobody, IInv, NEW j \in Jobs,
           StartStream(j) \/ EndStream(j)
    PROVE  IInv'
<1> USE DEF IInv, At, Nobody
<1>1. CASE StartStream(j)
  <2>1. JobsOK' /\ \A k \in Jobs \ {j} : job'[k] = job[k]
    BY <1>1, GoesHolds, EndsHolds DEF StartStream, Places, Restored
  <2>2. \/ job'[j].kind = "none" /\ job'[j].at = "done" /\ made' = made
        \/ /\ job'[j].kind = job[j].kind /\ job'[j].of = job[j].of /\ job'[j].at = "sending"
           /\ made' = [made EXCEPT ![job[j].of].streaming = @ + 1]
           /\ made[job[j].of].snapshot \in {"whole", "empty"}
    BY <1>1, GoesHolds, EndsHolds DEF StartStream, Places
  <2>3. MadeOK' /\ UpOK'
    BY <1>1, <2>1 DEF StartStream, MadeOK, UpOK
  <2>4. LocksHeld'
    BY <1>1, <2>1, <2>2, LocksStay, JoinHolds, LeaveHolds DEF StartStream, LetsGo, LocksHeld, Using, Restored
  <2>5. Follow'
    BY <1>1, <2>1, <2>2, FollowStays DEF StartStream, Restored
  <2>6. Snapshots'
    <3>1. CASE made' = made /\ job'[j].at = "done"
      BY <1>1, <2>1, <2>2, <3>1, SnapshotsStay DEF StartStream, Copying, Snapshots
    <3>2. CASE job'[j].at = "sending"
      <4>0. PICK b \in Jobs : b = job[j].of BY <1>1 DEF StartStream, Follow
      <4>1. job[b].at = "done" BY <1>1, <4>0 DEF StartStream, Follow
      <4>2. Senders(b)' = Senders(b) \cup {j} /\ j \notin Senders(b)
        BY <1>1, <2>1, <2>2, <3>2, <4>0 DEF StartStream, Senders
      <4>3. \A k \in Jobs \ {b} : Senders(k)' = Senders(k)
        BY <1>1, <2>1, <2>2, <3>2, <4>0 DEF StartStream, Senders
      <4>4. \A k \in Jobs : Copying(k)' <=> Copying(k)
        BY <1>1, <2>1, <2>2 DEF StartStream, Copying
      <4>5. /\ \A k \in Jobs \ {b} : made'[k] = made[k]
            /\ made'[b].streaming = made[b].streaming + 1
            /\ made'[b].snapshot = made[b].snapshot /\ made'[b].discarded = made[b].discarded
            /\ made[b].snapshot \in {"whole", "empty"}
        BY <2>2, <3>2, <4>0 DEF MadeOK
      <4>6. current' = current /\ \A k \in Jobs : job'[k].at # "done" => job[k].at # "done"
        BY <1>1, <2>1, <3>2 DEF StartStream
      <4>7. ASSUME NEW k \in Jobs PROVE Fits(k, made[k], current)'
        <5>1. Fits(k, made[k], current) BY DEF Snapshots
        <5>2. CASE k = b
          <6>1. /\ IsFiniteSet(Senders(b))'
                /\ Cardinality(Senders(b))' = Cardinality(Senders(b)) + 1
            BY <4>2, <5>1, <5>2, FS_AddElement DEF Fits
          <6>2. made'[b].streaming = Cardinality(Senders(b)')
            BY <4>5, <5>1, <5>2, <6>1 DEF Fits
          <6>3. Senders(b)' # {} BY <4>2
          <6> QED BY <4>1, <4>4, <4>5, <4>6, <5>1, <5>2, <6>1, <6>2, <6>3 DEF Fits
        <5>3. CASE k # b BY <4>3, <4>4, <4>5, <4>6, <5>1, <5>3 DEF Fits
        <5> QED BY <5>2, <5>3
      <4> QED BY <4>4, <4>6, <4>7 DEF Snapshots
    <3> QED BY <2>2, <3>1, <3>2
  <2>7. Uploads'
    BY <1>1, <2>1, <2>2, UploadsStay DEF StartStream, Restored, Uploads, UpOK
  <2> QED BY <2>1, <2>3, <2>4, <2>5, <2>6, <2>7
<1>2. CASE EndStream(j)
  <2>1. JobsOK' /\ \A k \in Jobs \ {j} : job'[k] = job[k]
    BY <1>2, GoesHolds, EndsHolds DEF EndStream, Places, Restored
  <2>2. job'[j].kind = "none" /\ job'[j].at = "done"
    BY <1>2, GoesHolds, EndsHolds DEF EndStream, Places
  <2>3. MadeOK' /\ UpOK'
    <3>0. PICK b \in Jobs : b = job[j].of BY <1>2 DEF EndStream, Follow
    <3> DEFINE left == [made EXCEPT ![b].streaming = @ - 1]
    <3>1. b # None /\ made[b].streaming \in Nat \ {0}
      <4>1. j \in Senders(b) BY <1>2, <3>0 DEF EndStream, Senders
      <4> QED BY <4>1, FS_EmptySet DEF Snapshots, Fits, MadeOK
    <3>2. left \in [Jobs -> BackupRec] BY <3>1 DEF MadeOK
    <3>3. made' \in {left, Discarded(left, b)} /\ current' \in {current, None} /\ UpOK'
      BY <1>2, <3>0 DEF EndStream, UpOK
    <3> HIDE DEF left, BackupRec
    <3>4. Discarded(left, b) \in [Jobs -> BackupRec] BY <3>2, DiscardedHolds
    <3> QED BY <3>2, <3>3, <3>4 DEF MadeOK
  <2>4. LocksHeld'
    BY <1>2, <2>1, <2>2, LocksStay, JoinHolds, LeaveHolds DEF EndStream, LetsGo, LocksHeld, Using, Restored
  <2>5. Follow'
    BY <1>2, <2>1, <2>2, FollowStays DEF EndStream, Restored
  <2>6. Snapshots'
    <3>0. PICK b \in Jobs : b = job[j].of BY <1>2 DEF EndStream, Follow
    <3> DEFINE left == [made EXCEPT ![b].streaming = @ - 1]
    <3>1. b # None /\ job[b].at = "done" BY <1>2, <3>0 DEF EndStream, Follow
    <3>2. Senders(b)' = Senders(b) \ {j} /\ j \in Senders(b)
      BY <1>2, <2>1, <2>2, <3>0 DEF EndStream, Senders
    <3>3. \A k \in Jobs \ {b} : Senders(k)' = Senders(k)
      BY <1>2, <2>1, <2>2, <3>0 DEF EndStream, Senders
    <3>4. \A k \in Jobs : Copying(k)' <=> Copying(k)
      BY <1>2, <2>1, <2>2 DEF EndStream, Copying
    <3>5. /\ IsFiniteSet(Senders(b))'
          /\ Cardinality(Senders(b))' = Cardinality(Senders(b)) - 1
          /\ Cardinality(Senders(b)) \in Nat \ {0}
      BY <3>1, <3>2, FS_RemoveElement, FS_EmptySet, FS_CardinalityType DEF Snapshots, Fits
    <3>6. made[b].streaming = Cardinality(Senders(b)) BY <3>1 DEF Snapshots, Fits
    <3>7. /\ left \in [Jobs -> BackupRec] /\ \A k \in Jobs \ {b} : left[k] = made[k]
          /\ left[b].streaming = made[b].streaming - 1
          /\ left[b].snapshot = made[b].snapshot /\ left[b].discarded = made[b].discarded
      BY <3>1, <3>5, <3>6 DEF MadeOK
    <3>8. \/ /\ made' = Discarded(left, b)
             /\ current' = IF current = b THEN None ELSE current
          \/ left[b].discarded /\ made' = Discarded(left, b) /\ current' = current
          \/ ~left[b].discarded /\ made' = left /\ current' = current
      BY <1>2, <3>0 DEF EndStream
    <3>9. \A k \in Jobs : job'[k].at # "done" => job[k].at # "done" BY <2>1, <2>2
    <3> HIDE DEF left
    <3>10. /\ \A k \in Jobs \ {b} : made'[k] = made[k]
           /\ made'[b].streaming = left[b].streaming
           /\ \/ /\ made'[b].discarded
                 /\ made'[b].snapshot =
                       IF left[b].streaming = 0 /\ left[b].snapshot = "whole"
                       THEN "none" ELSE left[b].snapshot
                 /\ current' = None \/ current' # b
              \/ made'[b] = left[b] /\ ~left[b].discarded /\ current' = current
           /\ current' = current \/ (current = b /\ current' = None)
      <4>1. left[b].discarded => current # b BY <3>1, <3>7 DEF Snapshots, Fits
      <4> DEFINE D == Discarded(left, b)
      <4> HIDE DEF BackupRec, RequestRec, UploadRec
      <4>2. /\ \A k \in Jobs \ {b} : D[k] = left[k]
            /\ D[b].streaming = left[b].streaming /\ D[b].discarded
            /\ D[b].snapshot = IF left[b].streaming = 0 /\ left[b].snapshot = "whole"
                               THEN "none" ELSE left[b].snapshot
        <5>1. left \in [Jobs -> BackupRec] /\ b \in Jobs \cup {None} BY <3>7
        <5>2. /\ \A k \in Jobs : k # b => D[k] = left[k] /\ D[k].streaming = left[k].streaming
              /\ D[b].streaming = left[b].streaming
          BY <5>1, DiscardedHolds
        <5>3. b \in Jobs /\ b # None BY <3>1
        <5> QED BY <5>1, <5>2, <5>3, DiscardedHolds
      <4> HIDE DEF D
      <4>3. CASE made' = D /\ current' = IF current = b THEN None ELSE current
        BY <3>1, <3>7, <4>2, <4>3
      <4>4. CASE left[b].discarded /\ made' = D /\ current' = current
        BY <3>1, <3>7, <4>1, <4>2, <4>4
      <4>5. CASE ~left[b].discarded /\ made' = left /\ current' = current
        BY <3>1, <3>7, <4>5
      <4> QED BY <3>8, <4>3, <4>4, <4>5 DEF D
    <3>11. ASSUME NEW k \in Jobs PROVE Fits(k, made[k], current)'
      <4>1. Fits(k, made[k], current) /\ k # None BY DEF Snapshots
      <4>2. CASE k = b
        <5>1. Senders(b)' = {} <=> left[b].streaming = 0
          BY <3>2, <3>5, <3>6, <3>7, FS_EmptySet
        <5>2. made'[b].streaming = Cardinality(Senders(b)')
          BY <3>5, <3>6, <3>7, <3>10
        <5>3. made[b].snapshot \in {"whole", "empty"} /\ ~Copying(b)
          BY <3>1, <3>2, <4>1, <4>2 DEF Fits, Copying, At
        <5>4. job'[b].at = "done" BY <3>1, <3>9
        <5>5. IsFiniteSet(Senders(b)') /\ ~Copying(b)' BY <3>4, <3>5, <5>3
        <5> QED BY <3>1, <3>7, <3>10, <4>1, <4>2, <5>1, <5>2, <5>3, <5>4, <5>5 DEF Fits
      <4>3. CASE k # b BY <3>3, <3>4, <3>9, <3>10, <4>1, <4>3 DEF Fits
      <4> QED BY <4>2, <4>3
    <3>12. (\E k \in Jobs : Copying(k)') => current' = None
      BY <3>4, <3>10 DEF Snapshots
    <3> QED BY <3>11, <3>12 DEF Snapshots
  <2>7. Uploads'
    BY <1>2, <2>1, <2>2, UploadsStay DEF EndStream, Restored, Uploads, UpOK
  <2> QED BY <2>1, <2>3, <2>4, <2>5, <2>6, <2>7
<1> QED BY <1>1, <1>2

\* A file of an upload that changes.
LEMMA FileSets ==
    ASSUME NEW u \in [Jobs -> UploadRec], NEW j \in Jobs, NEW f \in {"none", "part", "zip"}
    PROVE  /\ [u EXCEPT ![j].file = f] \in [Jobs -> UploadRec]
           /\ \A k \in Jobs \ {j} : [u EXCEPT ![j].file = f][k] = u[k]
           /\ [u EXCEPT ![j].file = f][j].file = f
           /\ [u EXCEPT ![j].file = f][j].applying = u[j].applying
OBVIOUS

\* What is being applied is being applied by whoever has the disk.
LEMMA AppliedByTheHolder ==
    ASSUME IInv, NEW u \in Jobs, up[u].applying
    PROVE  \E r \in Jobs : /\ job[r].kind = "restore" /\ job[r].at \in Restored
                           /\ job[r].of = u /\ disk.held = r
<1>1. PICK r \in Jobs : job[r].kind = "restore" /\ job[r].at \in Restored /\ job[r].of = u
  BY DEF IInv, Uploads
<1>2. disk.held = r BY <1>1 DEF IInv, LocksHeld, Using
<1> QED BY <1>1, <1>2

\* What an upload that is received leaves true.
LEMMA ReceivingKeeps ==
    ASSUME Nobody, IInv, NEW j \in Jobs,
           Spool(j) \/ Received(j)
    PROVE  IInv'
<1> USE DEF IInv, At, Nobody
<1>1. CASE Spool(j)
  <2>1. JobsOK' /\ \A k \in Jobs \ {j} : job'[k] = job[k]
    BY <1>1, GoesHolds, EndsHolds DEF Spool, Places, Restored
  <2>2. \/ job'[j].kind = "none" /\ job'[j].at = "done" /\ up' = up
        \/ /\ job'[j].kind = job[j].kind /\ job'[j].of = job[j].of /\ job'[j].at = "spool"
           /\ up' = [up EXCEPT ![j].file = "part"]
    BY <1>1, GoesHolds, EndsHolds DEF Spool, Places
  <2>3. MadeOK' /\ UpOK'
    <3> HIDE DEF UploadRec, BackupRec
    <3>1. [up EXCEPT ![j].file = "part"] \in [Jobs -> UploadRec] BY FileSets DEF UpOK
    <3> QED BY <1>1, <2>2, <3>1 DEF Spool, MadeOK, UpOK
  <2>4. LocksHeld'
    <3>1. /\ disk' \in {disk, Leave(disk, j)} /\ lock' \in {lock, Leave(lock, j)}
          /\ orphan' = orphan /\ disk.held = j
          /\ job'[j].at = "spool" => disk' = disk /\ lock' = lock
      BY <1>1, <2>2 DEF Spool, LetsGo, Ends, Goes, JobsOK, Idle
    <3> QED BY <1>1, <2>1, <2>2, <3>1, LocksStay DEF Spool, Using, Restored
  <2>5. Follow'
    BY <1>1, <2>1, <2>2, FollowStays DEF Spool, Restored
  <2>6. Snapshots'
    BY <1>1, <2>1, <2>2, SnapshotsStay DEF Spool, Copying, Snapshots
  <2>7. Uploads'
    <3>1. CASE up' = up /\ job'[j].at = "done"
      BY <1>1, <2>1, <2>2, <3>1, UploadsStay DEF Spool, Restored, Uploads, UpOK
    <3>2. CASE job'[j].at = "spool"
      <4>1. /\ \A k \in Jobs \ {j} : up'[k] = up[k]
            /\ up'[j].file = "part" /\ up'[j].applying = up[j].applying
        BY <2>2, <3>2, FileSets DEF UpOK
      <4>2. waiting # j /\ UNCHANGED <<waiting, staged>> BY <1>1 DEF Spool, Follow
      <4>3. job'[j].kind = "upload" BY <1>1, <2>2, <3>2 DEF Spool
      <4>4. ASSUME NEW k \in Jobs, up'[k].applying
            PROVE  \E r \in Jobs : job'[r].kind = "restore" /\ job'[r].at \in Restored /\ job'[r].of = k
        <5>1. PICK r \in Jobs : job[r].kind = "restore" /\ job[r].at \in Restored /\ job[r].of = k
          BY <4>1, <4>4 DEF Uploads
        <5> QED BY <1>1, <2>1, <5>1 DEF Spool
      <4>5. staged' # None => staged \in Jobs \ {j} BY <1>1, <4>2 DEF Spool, Uploads, UpOK
      <4> QED BY <2>1, <3>2, <4>1, <4>2, <4>3, <4>4, <4>5 DEF Uploads
    <3> QED BY <2>2, <3>1, <3>2
  <2> QED BY <2>1, <2>3, <2>4, <2>5, <2>6, <2>7
<1>2. CASE Received(j)
  <2>1. JobsOK' /\ \A k \in Jobs \ {j} : job'[k] = job[k]
    BY <1>2, GoesHolds, EndsHolds DEF Received, Places, Restored
  <2>2. job'[j].kind = "none" /\ job'[j].at = "done"
    BY <1>2, GoesHolds, EndsHolds DEF Received, Places
  <2>3. MadeOK' /\ UpOK'
    <3>1. Forgotten(up, waiting) \in [Jobs -> UploadRec] BY ForgottenHolds DEF UpOK
    <3> HIDE DEF UploadRec, BackupRec
    <3>2. /\ [Forgotten(up, waiting) EXCEPT ![j].file = "zip"] \in [Jobs -> UploadRec]
          /\ [up EXCEPT ![j].file = "none"] \in [Jobs -> UploadRec]
      BY <3>1, FileSets DEF UpOK
    <3> QED BY <1>2, <3>2 DEF Received, MadeOK, UpOK
  <2>4. LocksHeld'
    BY <1>2, <2>1, <2>2, LocksStay, JoinHolds, LeaveHolds DEF Received, LetsGo, LocksHeld, Using, Restored
  <2>5. Follow'
    BY <1>2, <2>1, <2>2, FollowEnds DEF Received, UpOK
  <2>6. Snapshots'
    BY <1>2, <2>1, <2>2, SnapshotsStay DEF Received, Copying, Snapshots
  <2>7. Uploads'
    <3> DEFINE U == Forgotten(up, waiting)
    <3>1. disk.held = j /\ waiting # j /\ staged # j /\ job[j].kind = "upload"
      BY <1>2 DEF Received, LocksHeld, Using, Follow, Uploads
    <3>2. waiting # None => ~up[waiting].applying
      BY <3>1, AppliedByTheHolder DEF UpOK
    <3>3. /\ U \in [Jobs -> UploadRec] /\ \A k \in Jobs : k # waiting => U[k] = up[k]
          /\ waiting # None => U[waiting].file = "none" /\ ~U[waiting].applying
      BY <3>2, ForgottenHolds DEF UpOK
    <3>4. \/ /\ \A k \in Jobs \ {j} : up'[k] = up[k]
             /\ up'[j].file = "none" /\ up'[j].applying = up[j].applying /\ waiting' = waiting
          \/ /\ \A k \in Jobs \ {j} : up'[k] = U[k]
             /\ up'[j].file = "zip" /\ up'[j].applying = U[j].applying /\ waiting' = j
      <4> HIDE DEF U
      <4>1. CASE up' = [up EXCEPT ![j].file = "none"] /\ waiting' = waiting
        BY <4>1, FileSets DEF UpOK
      <4>2. CASE up' = [U EXCEPT ![j].file = "zip"] /\ waiting' = j
        BY <3>3, <4>2, FileSets
      <4> QED BY <1>2, <4>1, <4>2 DEF Received, U
    <3> HIDE DEF U
    <3>5. \A k \in Jobs : (up'[k].file = "part") <=> At(k, {"upload"}, "spool")'
      <4>1. \A k \in Jobs : (up[k].file = "part") <=> At(k, {"upload"}, "spool")
        BY DEF Uploads
      <4>2. \A k \in Jobs : At(k, {"upload"}, "spool")' <=> k # j /\ At(k, {"upload"}, "spool")
        BY <2>1, <2>2
      <4>3. waiting # None => ~At(waiting, {"upload"}, "spool") BY DEF Follow
      <4>4. /\ \A k \in Jobs \ {j} : up'[k] = up[k] \/ (k = waiting /\ up'[k].file = "none")
            /\ up'[j].file # "part"
        BY <3>1, <3>3, <3>4
      <4> HIDE DEF At
      <4> QED BY <4>1, <4>2, <4>3, <4>4, <3>1 DEF UpOK, Nobody
    <3>6. \A k \in Jobs : (up'[k].file = "zip") <=> waiting' = k
      <4>1. \A k \in Jobs : (up[k].file = "zip") <=> waiting = k BY DEF Uploads
      <4> QED BY <3>1, <3>3, <3>4, <4>1 DEF UpOK
    <3>7. ASSUME NEW k \in Jobs, up'[k].applying
          PROVE  \E r \in Jobs : job'[r].kind = "restore" /\ job'[r].at \in Restored /\ job'[r].of = k
      <4>1. up[k].applying BY <3>1, <3>3, <3>4, <3>7 DEF UpOK
      <4>2. PICK r \in Jobs : job[r].kind = "restore" /\ job[r].at \in Restored /\ job[r].of = k
        BY <4>1 DEF Uploads
      <4> QED BY <2>1, <3>1, <4>2
    <3>8. staged' # None => /\ job'[staged'].kind = "restore"
                            /\ job'[staged'].at \in {"verify", "swap", "install"}
      BY <1>2, <2>1, <3>1 DEF Received, Uploads, UpOK
    <3> QED BY <3>5, <3>6, <3>7, <3>8 DEF Uploads
  <2> QED BY <2>1, <2>3, <2>4, <2>5, <2>6, <2>7
<1> QED BY <1>1, <1>2

\* An upload that is let go at the end of a restore is applied by nobody: it
\* stays as it was, or it is gone and waits no more.
LEMMA LetsUploadGoHolds ==
    ASSUME Nobody, UpOK, NEW j \in Jobs, job[j].of \in Jobs, NEW applied \in BOOLEAN,
           LetsUploadGo(j, applied)
    PROVE  /\ up' \in [Jobs -> UploadRec]
           /\ \A k \in Jobs : k # job[j].of => up'[k] = up[k]
           /\ ~up'[job[j].of].applying
           /\ \/ waiting' = waiting /\ up'[job[j].of].file = up[job[j].of].file
              \/ /\ up'[job[j].of].file = "none"
                 /\ waiting' = IF waiting = job[j].of THEN None ELSE waiting
<1> DEFINE u == job[j].of
           over == [up EXCEPT ![u].applying = FALSE, ![u].applied = @ \/ applied]
<1>1. /\ over \in [Jobs -> UploadRec] /\ \A k \in Jobs : k # u => over[k] = up[k]
      /\ ~over[u].applying /\ over[u].file = up[u].file
  <2> DEFINE a == up[u].applied \/ applied
             U == [up[u] EXCEPT !.applying = FALSE, !.applied = a]
  <2>1. up[u] \in UploadRec /\ a \in BOOLEAN BY DEF UpOK
  <2>2. over = [up EXCEPT ![u] = U] BY DEF UpOK
  <2> HIDE DEF a
  <2>3. U \in UploadRec /\ ~U.applying /\ U.file = up[u].file BY <2>1
  <2> HIDE DEF U, over, UploadRec
  <2> QED BY <2>2, <2>3 DEF UpOK
<1>2. \/ up' = over /\ waiting' = waiting
      \/ up' = Forgotten(over, u) /\ waiting' = IF waiting = u THEN None ELSE waiting
  BY DEF LetsUploadGo
<1> HIDE DEF over, UploadRec
<1>3. CASE up' = over /\ waiting' = waiting BY <1>1, <1>3
<1>4. CASE up' = Forgotten(over, u) /\ waiting' = IF waiting = u THEN None ELSE waiting
  <2> DEFINE F == Forgotten(over, u)
  <2>1. u \in Jobs /\ u # None BY DEF Nobody
  <2>2. /\ F \in [Jobs -> UploadRec] /\ \A k \in Jobs : k # u => F[k] = over[k]
        /\ F[u].file = "none" /\ ~F[u].applying
    BY <1>1, <2>1, ForgottenHolds
  <2> HIDE DEF F
  <2> QED BY <1>1, <1>4, <2>2 DEF F
<1> QED BY <1>2, <1>3, <1>4

\* The end of a restore, however it comes.
LEMMA RestoreEnds ==
    ASSUME Nobody, IInv, NEW j \in Jobs, NEW applied \in BOOLEAN,
           job[j].kind = "restore" /\ job[j].at \in Restored,
           LetsUploadGo(j, applied), Ends(j),
           staged' # None => staged' = staged /\ staged # j,
           staged' \in Jobs \cup {None}
    PROVE  UpOK' /\ Uploads' /\ waiting' \in {waiting, None}
<1>1. job[j].of \in Jobs /\ job[job[j].of].at = "done" BY DEF IInv, Follow
<1> PICK u \in Jobs : u = job[j].of BY <1>1
<1>2. /\ up' \in [Jobs -> UploadRec]
      /\ \A k \in Jobs : k # u => up'[k] = up[k]
      /\ ~up'[u].applying
      /\ \/ waiting' = waiting /\ up'[u].file = up[u].file
         \/ up'[u].file = "none" /\ waiting' = IF waiting = u THEN None ELSE waiting
  BY LetsUploadGoHolds DEF IInv
<1>3. JobsOK' /\ (\A k \in Jobs \ {j} : job'[k] = job[k]) /\ job'[j].kind = "none"
  BY EndsHolds DEF IInv
<1>4. UpOK' /\ waiting' \in {waiting, None}
  <2> HIDE DEF UploadRec
  <2> QED BY <1>2 DEF UpOK, IInv
<1>5. \A k \in Jobs : At(k, {"upload"}, "spool")' <=> At(k, {"upload"}, "spool")
  BY <1>3 DEF At
<1>6. up[u].file # "part" BY <1>1 DEF IInv, Uploads, At
<1>7. \A k \in Jobs : /\ up'[k].file = "part" <=> At(k, {"upload"}, "spool")'
                      /\ up'[k].file = "zip" <=> waiting' = k
  BY <1>2, <1>5, <1>6 DEF IInv, Uploads, UpOK, Nobody
<1>8. ASSUME NEW k \in Jobs, up'[k].applying
      PROVE  \E r \in Jobs : job'[r].kind = "restore" /\ job'[r].at \in Restored /\ job'[r].of = k
  <2>1. k # u /\ up[k].applying BY <1>2, <1>8
  <2>2. PICK r \in Jobs : job[r].kind = "restore" /\ job[r].at \in Restored /\ job[r].of = k
    BY <2>1 DEF IInv, Uploads
  <2> QED BY <1>3, <2>1, <2>2
<1>9. staged' # None => /\ job'[staged'].kind = "restore"
                        /\ job'[staged'].at \in {"verify", "swap", "install"}
  BY <1>3 DEF IInv, Uploads, UpOK
<1> QED BY <1>4, <1>7, <1>8, <1>9 DEF Uploads

\* What a restore that applies its upload leaves true.
LEMMA RestoringKeeps ==
    ASSUME Nobody, IInv, NEW j \in Jobs,
           Apply(j) \/ Suspend(j) \/ Judge(j) \/ Fails(j)
    PROVE  IInv'
<1> USE DEF IInv, At, Nobody
<1>1. CASE Apply(j)
  <2>1. JobsOK' /\ \A k \in Jobs \ {j} : job'[k] = job[k]
    <3>1. CASE Ends(j) BY <3>1, EndsHolds
    <3>2. CASE job' = [job EXCEPT ![j].at = FirstOf(job[j].items),
                                  ![j].found = up[job[j].of].file = "zip"]
      <4> DEFINE f == up[job[j].of].file = "zip"
                 J == [job[j] EXCEPT !.at = FirstOf(job[j].items), !.found = f]
      <4>1. job' = [job EXCEPT ![j] = J] BY <3>2 DEF JobsOK
      <4>2. f \in BOOLEAN /\ FirstOf(job[j].items) \in Places BY DEF FirstOf, Places
      <4> HIDE DEF f
      <4>3. J \in RequestRec BY <4>2 DEF JobsOK
      <4> HIDE DEF J, RequestRec
      <4> QED BY <4>1, <4>3 DEF JobsOK
    <3> QED BY <1>1, <3>1, <3>2 DEF Apply
  <2>2. \/ job'[j].kind = "none" /\ job'[j].at = "done" /\ up' = up
        \/ /\ job'[j].kind = job[j].kind /\ job'[j].of = job[j].of
           /\ job'[j].at \in {"unpack", "settings"} /\ disk' = disk
           /\ up' = [up EXCEPT ![job[j].of].applying = TRUE]
    <3>1. CASE Ends(j) /\ up' = up BY <3>1, EndsHolds
    <3>2. CASE /\ job' = [job EXCEPT ![j].at = FirstOf(job[j].items),
                                     ![j].found = up[job[j].of].file = "zip"]
               /\ up' = [up EXCEPT ![job[j].of].applying = TRUE] /\ disk' = disk
      BY <3>2 DEF JobsOK, FirstOf
    <3> QED BY <1>1, <3>1, <3>2 DEF Apply
  <2>3. MadeOK' /\ UpOK'
    <3>1. job[j].of \in Jobs BY <1>1 DEF Apply, Follow
    <3>2. [up EXCEPT ![job[j].of].applying = TRUE] \in [Jobs -> UploadRec] BY <3>1 DEF UpOK
    <3> HIDE DEF UploadRec
    <3> QED BY <1>1, <2>2, <3>2 DEF Apply, MadeOK, UpOK
  <2>4. LocksHeld'
    <3>1. /\ disk' \in {disk, Leave(disk, j)} /\ lock' = lock /\ orphan' = orphan /\ disk.held = j
          /\ job'[j].at # "done" => disk' = disk
      BY <1>1, <2>2 DEF Apply
    <3> QED BY <1>1, <2>1, <2>2, <3>1, LocksStay DEF Apply, Using, Restored
  <2>5. Follow'
    BY <1>1, <2>1, <2>2, FollowStays DEF Apply, Restored
  <2>6. Snapshots'
    BY <1>1, <2>1, <2>2, SnapshotsStay DEF Apply, Copying, Snapshots
  <2>7. Uploads'
    <3>1. CASE up' = up /\ job'[j].at = "done"
      BY <1>1, <2>1, <2>2, <3>1, UploadsStay DEF Apply, Restored, Uploads, UpOK
    <3>2. CASE job'[j].at # "done"
      <4>0. PICK u \in Jobs : u = job[j].of BY <1>1 DEF Apply, Follow
      <4>1. /\ \A k \in Jobs \ {u} : up'[k] = up[k]
            /\ up'[u].file = up[u].file
            /\ job'[j].kind = "restore" /\ job'[j].at \in Restored /\ job'[j].of = u
        BY <1>1, <2>2, <3>2, <4>0 DEF Apply, UpOK, Restored
      <4>2. \A k \in Jobs : At(k, {"upload"}, "spool")' <=> At(k, {"upload"}, "spool")
        BY <1>1, <2>1, <4>1 DEF Apply
      <4>3. \A k \in Jobs : /\ up'[k].file = "part" <=> At(k, {"upload"}, "spool")'
                            /\ up'[k].file = "zip" <=> waiting' = k
        <5> HIDE DEF At
        <5> QED BY <1>1, <4>1, <4>2 DEF Apply, Uploads
      <4>4. ASSUME NEW k \in Jobs, up'[k].applying
            PROVE  \E r \in Jobs : job'[r].kind = "restore" /\ job'[r].at \in Restored /\ job'[r].of = k
        <5>1. CASE k = u BY <4>1, <5>1
        <5>2. CASE k # u
          <6>1. PICK r \in Jobs : job[r].kind = "restore" /\ job[r].at \in Restored /\ job[r].of = k
            BY <4>1, <4>4, <5>2 DEF Uploads
          <6>2. r # j BY <1>1, <6>1 DEF Apply, Restored
          <6> QED BY <2>1, <6>1, <6>2
        <5> QED BY <5>1, <5>2
      <4>5. staged' # None => /\ job'[staged'].kind = "restore"
                              /\ job'[staged'].at \in {"verify", "swap", "install"}
        BY <1>1, <2>1 DEF Apply, Uploads, UpOK
      <4> QED BY <4>3, <4>4, <4>5 DEF Uploads
    <3> QED BY <2>2, <3>1, <3>2
  <2> QED BY <2>1, <2>3, <2>4, <2>5, <2>6, <2>7
<1>2. CASE Suspend(j)
  <2>1. JobsOK' /\ \A k \in Jobs \ {j} : job'[k] = job[k]
    BY <1>2, GoesHolds, EndsHolds DEF Suspend, Places, Restored
  <2>2. job'[j].kind = job[j].kind /\ job'[j].of = job[j].of /\ job'[j].at = "install"
    BY <1>2, GoesHolds, EndsHolds DEF Suspend, Places
  <2>3. MadeOK' /\ UpOK'
    BY <1>2, DiscardedHolds DEF Suspend, MadeOK, UpOK
  <2>4. LocksHeld'
    BY <1>2, <2>1, <2>2, LocksStay, JoinHolds, LeaveHolds DEF Suspend, LetsGo, LocksHeld, Using, Restored
  <2>5. Follow'
    BY <1>2, <2>1, <2>2, FollowStays DEF Suspend, Restored
  <2>6. Snapshots'
    BY <1>2, <2>1, <2>2, DiscardedFits, SnapshotsStay DEF Suspend, Copying
  <2>7. Uploads'
    BY <1>2, <2>1, <2>2, UploadsStay DEF Suspend, Restored, Uploads, UpOK
  <2> QED BY <2>1, <2>3, <2>4, <2>5, <2>6, <2>7
<1>3. CASE Judge(j)
  <2>1. JobsOK' /\ \A k \in Jobs \ {j} : job'[k] = job[k]
    BY <1>3, GoesHolds, EndsHolds DEF Judge, Places, Restored
  <2>2. job'[j].kind = "none" /\ job'[j].at = "done"
    BY <1>3, GoesHolds, EndsHolds DEF Judge, Places
  <2>3. MadeOK' /\ UpOK'
    BY <1>3, RestoreEnds DEF Judge, MadeOK, Restored, Uploads, UpOK
  <2>4. LocksHeld'
    BY <1>3, <2>1, <2>2, LocksStay, JoinHolds, LeaveHolds DEF Judge, LetsGo, LocksHeld, Using, Restored
  <2>5. Follow'
    <3>1. waiting' \in {waiting, None}
      BY <1>3, RestoreEnds DEF Judge, Restored, Uploads, UpOK
    <3> QED BY <1>3, <2>1, <2>2, <3>1, FollowStays DEF Judge
  <2>6. Snapshots'
    BY <1>3, <2>1, <2>2, SnapshotsStay DEF Judge, Copying, Snapshots
  <2>7. Uploads'
    BY <1>3, RestoreEnds DEF Judge, Restored, Uploads, UpOK
  <2> QED BY <2>1, <2>3, <2>4, <2>5, <2>6, <2>7
<1>4. CASE Fails(j)
  <2>1. JobsOK' /\ \A k \in Jobs \ {j} : job'[k] = job[k]
    BY <1>4, GoesHolds, EndsHolds DEF Fails, Places, Restored
  <2>2. job'[j].kind = "none" /\ job'[j].at = "done"
    BY <1>4, GoesHolds, EndsHolds DEF Fails, Places
  <2>3. MadeOK' /\ UpOK'
    BY <1>4, RestoreEnds DEF Fails, MadeOK, Restored
  <2>4. LocksHeld'
    BY <1>4, <2>1, <2>2, LocksStay, JoinHolds, LeaveHolds DEF Fails, LetsGo, LocksHeld, Using, Restored
  <2>5. Follow'
    BY <1>4, <2>1, <2>2, RestoreEnds, FollowStays DEF Fails, Restored
  <2>6. Snapshots'
    BY <1>4, <2>1, <2>2, SnapshotsStay DEF Fails, Copying, Snapshots
  <2>7. Uploads'
    BY <1>4, RestoreEnds DEF Fails, Restored
  <2> QED BY <2>1, <2>3, <2>4, <2>5, <2>6, <2>7
<1> QED BY <1>1, <1>2, <1>3, <1>4

\* An upload that is forgotten, by its half hour or its client.
LEMMA ForgetKeeps ==
    ASSUME Nobody, IInv, NEW expires \in BOOLEAN, Forget(expires)
    PROVE  IInv'
<1> USE DEF IInv, Nobody
<1> PICK w \in Jobs : w = waiting BY DEF Forget, UpOK
<1> DEFINE V == [up EXCEPT ![w].expired = @ \/ expires, ![w].unwanted = @ \/ ~expires]
<1>1. /\ V \in [Jobs -> UploadRec] /\ \A k \in Jobs : k # w => V[k] = up[k]
      /\ V[w].file = up[w].file /\ V[w].applying = up[w].applying
  <2> DEFINE a == up[w].expired \/ expires
             c == up[w].unwanted \/ ~expires
             U == [up[w] EXCEPT !.expired = a, !.unwanted = c]
  <2>1. up[w] \in UploadRec /\ a \in BOOLEAN /\ c \in BOOLEAN BY DEF UpOK
  <2>2. V = [up EXCEPT ![w] = U] BY DEF UpOK
  <2> HIDE DEF a, c
  <2>3. U \in UploadRec /\ U.applying = up[w].applying /\ U.file = up[w].file BY <2>1
  <2> HIDE DEF U, V, UploadRec
  <2> QED BY <2>2, <2>3 DEF UpOK
<1>2. up' = Forgotten(V, w) /\ waiting' = IF up[w].applying THEN w ELSE None
  BY DEF Forget
<1> HIDE DEF V
<1>3. /\ up' \in [Jobs -> UploadRec] /\ \A k \in Jobs : k # w => up'[k] = up[k]
      /\ \/ up'[w].file = up[w].file /\ up'[w].applying = up[w].applying /\ waiting' = w
         \/ up'[w].file = "none" /\ ~up'[w].applying /\ waiting' = None
  <2> DEFINE F == Forgotten(V, w)
  <2>1. w \in Jobs \cup {None} /\ w # None OBVIOUS
  <2>2. /\ F \in [Jobs -> UploadRec] /\ \A k \in Jobs : k # w => F[k] = V[k]
        /\ V[w].applying => F = V
        /\ ~V[w].applying => F[w].file = "none" /\ ~F[w].applying
    BY <1>1, <2>1, ForgottenHolds
  <2> HIDE DEF F, UploadRec
  <2>3. CASE V[w].applying BY <1>1, <1>2, <2>2, <2>3 DEF F
  <2>4. CASE ~V[w].applying BY <1>1, <1>2, <2>2, <2>4 DEF F
  <2> QED BY <2>3, <2>4
<1>4. UNCHANGED <<disk, lock, orphan, job, made, current, staged>> BY DEF Forget
<1>5. JobsOK' /\ MadeOK' /\ UpOK'
  <2> HIDE DEF UploadRec, BackupRec, RequestRec
  <2> QED BY <1>3, <1>4 DEF JobsOK, MadeOK, UpOK
<1>6. LocksHeld' BY <1>4 DEF LocksHeld, IsLock, Using, At
<1>7. Follow' BY <1>3, <1>4 DEF Follow
<1>8. Snapshots' BY <1>4, SnapshotsStay DEF Snapshots, Copying, At
<1>9. Uploads'
  <2>1. up[w].file = "zip" /\ ~At(w, {"upload"}, "spool") BY DEF Uploads, Follow, At
  <2>2. \A k \in Jobs : /\ up'[k].file = "part" <=> At(k, {"upload"}, "spool")'
                        /\ up'[k].file = "zip" <=> waiting' = k
    BY <1>3, <1>4, <2>1 DEF Uploads, At
  <2>3. \A k \in Jobs : up'[k].applying => up[k].applying BY <1>3
  <2> QED BY <1>4, <2>2, <2>3 DEF Uploads
<1> QED BY <1>5, <1>6, <1>7, <1>8, <1>9

LEMMA NextKeeps == ASSUME Nobody, IInv, [Next]_vars PROVE IInv'
<1>1. CASE UNCHANGED vars
  <2>1. UNCHANGED <<disk, lock, orphan, job, made, current, up, waiting, staged>>
    BY <1>1 DEF vars
  <2>2. JobsOK' /\ MadeOK' /\ UpOK' BY <2>1 DEF IInv, JobsOK, MadeOK, UpOK
  <2>3. LocksHeld' BY <2>1 DEF IInv, LocksHeld, IsLock, Using, At
  <2>4. Follow' BY <2>1 DEF IInv, Follow
  <2>5. Snapshots' BY <2>1, SnapshotsStay DEF IInv, Snapshots, Copying, At
  <2>6. Uploads' BY <2>1 DEF IInv, Uploads, At
  <2> QED BY <2>2, <2>3, <2>4, <2>5, <2>6 DEF IInv
<1>2. CASE Turns \/ Expiry BY <1>2, TurnsKeep
<1>3. CASE \E expires \in BOOLEAN : Forget(expires) BY <1>3, ForgetKeeps
<1>4. ASSUME NEW j \in Jobs, Begin(j) \/ Works(j) \/ CancelWait(j) \/ CancelCopy(j)
      PROVE  IInv'
  <2>1. CASE Begin(j) BY <2>1, BeginKeeps
  <2>2. CASE CancelWait(j) \/ CancelCopy(j) BY <2>2, QuietStepsKeep
  <2>3. CASE Making(j) BY <2>3, MakingKeeps, QuietStepsKeep DEF Making
  <2>4. CASE Sending(j) BY <2>4, SendingKeeps DEF Sending
  <2>5. CASE Receiving(j) BY <2>5, ReceivingKeeps, QuietStepsKeep DEF Receiving
  <2>6. CASE Restoring(j) BY <2>6, RestoringKeeps, QuietStepsKeep DEF Restoring
  <2> QED BY <1>4, <2>1, <2>2, <2>3, <2>4, <2>5, <2>6 DEF Works
<1> QED BY <1>1, <1>2, <1>3, <1>4 DEF Next

LEMMA Invariant == ASSUME Nobody PROVE Spec => []IInv
<1>1. Init => IInv BY InitHolds
<1>2. IInv /\ [Next]_vars => IInv' BY NextKeeps
<1> QED BY <1>1, <1>2, PTL DEF Spec
-----------------------------------------------------------------------------
(* What follows for every behaviour.                                       *)

\* The requests, the backups and the uploads keep their types, and what is
\* offered, waits or is staged is a request's or nobody's.
THEOREM TypeCorrect ==
    ASSUME Nobody
    PROVE  Spec => [](JobsOK /\ MadeOK /\ UpOK)
<1>1. IInv => JobsOK /\ MadeOK /\ UpOK BY DEF IInv
<1> QED BY <1>1, Invariant, PTL

\* Two jobs never fill the disk at once, however many there are: whoever writes
\* there has the claim, the copy of a request that went away included
\* (DiskClaim, hold_until, run_to_end).
THEOREM NeverTwoFillers ==
    ASSUME Nobody
    PROVE  Spec => []OneFiller
<1>1. ASSUME IInv PROVE OneFiller
  <2>1. ASSUME NEW j \in Fillers PROVE j = disk.held
    <3>1. j \in Jobs BY DEF Fillers
    <3>2. Using(j)
      BY <1>1, <2>1 DEF Fillers, Using, At, IInv, Follow
    <3> QED BY <1>1, <3>1, <3>2 DEF IInv, LocksHeld
  <2>2. Fillers \subseteq {disk.held} BY <2>1
  <2>3. IsFiniteSet({disk.held}) /\ Cardinality({disk.held}) = 1 BY FS_Singleton
  <2>4. Cardinality(Fillers) <= Cardinality({disk.held}) BY <2>2, <2>3, FS_Subset
  <2> QED BY <2>3, <2>4 DEF OneFiller
<1> QED BY <1>1, Invariant, PTL

\* Every file beside the database has somebody to remove it, and nobody's goes
\* while it is used: snapshots, uploads and the unpacked database (Backups.discard,
\* stream and _drop_orphan; Restores.discard and applying; _restore_data).
THEOREM NoFileIsLeft ==
    ASSUME Nobody
    PROVE  Spec => []FilesHaveOwners
<1>1. ASSUME IInv PROVE FilesHaveOwners
  <2>1. ASSUME NEW b \in Jobs, made[b].snapshot # "empty"
        PROVE  (made[b].snapshot # "none") = Held(b)
    <3>1. Held(b) <=> Copying(b) \/ current = b \/ Senders(b) # {}
      BY DEF Held, Copying, Senders, At
    <3>2. Fits(b, made[b], current) /\ made[b].snapshot \in {"none", "writing", "whole", "empty"}
      BY <1>1 DEF IInv, Snapshots, MadeOK
    <3>3. (made[b].snapshot # "none") <=> Held(b) BY <2>1, <3>1, <3>2 DEF Fits
    <3>4. Held(b) \in BOOLEAN BY DEF Held, At
    <3> QED BY <3>3, <3>4
  <2>2. \A j \in Jobs : up[j].file # "none" => waiting = j \/ At(j, {"upload"}, "spool")
    <3> HIDE DEF At
    <3> QED BY <1>1 DEF IInv, Uploads, UpOK
  <2>3. waiting # None => up[waiting].file = "zip" BY <1>1 DEF IInv, Uploads, UpOK
  <2>4. staged # None => At(staged, {"restore"}, "verify") \/ At(staged, {"restore"}, "swap")
                            \/ At(staged, {"restore"}, "install")
    BY <1>1 DEF IInv, Uploads, At
  <2> QED BY <2>1, <2>2, <2>3, <2>4 DEF FilesHaveOwners
<1> QED BY <1>1, Invariant, PTL

-----------------------------------------------------------------------------
(* The upgrades: the copy a migration has a way back to.                   *)

Copies == [stamp : Nat, rev : Nat, n : Nat, edits : Nat]

\* A set of numbers that is not empty has a least one.
LEMMA Smallest ==
    ASSUME NEW S, S \subseteq Nat, S # {}
    PROVE  \E m \in S : \A k \in S : m <= k
<1> DEFINE R == OpToRel(<, Nat)
<1>1. IsWellFoundedOn(R, Nat) BY NatLessThanWellFounded
<1>2. \A x, y \in Nat : x < y => <<x, y>> \in R BY DEF OpToRel
<1> HIDE DEF R
<1>3. PICK m \in S : \A k \in S : <<k, m>> \notin R BY <1>1, WFMin
<1>4. \A k \in S : ~(k < m) BY <1>2, <1>3
<1>5. m \in Nat /\ \A k \in S : k \in Nat OBVIOUS
<1> QED BY <1>4, <1>5

\* Of the numbers from 1 on, one more than there are taken, one is free, and
\* all before it are not.
LEMMA FirstFree ==
    ASSUME NEW T, IsFiniteSet(T), T \subseteq Nat
    PROVE  \E i \in 1..(Cardinality(T) + 1) : i \notin T /\ \A k \in 1..(i - 1) : k \in T
<1> DEFINE free == {i \in Nat : i >= 1 /\ i \notin T}
<1>1. Cardinality(T) \in Nat BY FS_CardinalityType
<1>2. PICK j \in 1..(Cardinality(T) + 1) : j \notin T
  <2>1. SUFFICES ASSUME 1..(Cardinality(T) + 1) \subseteq T PROVE FALSE OBVIOUS
  <2>2. Cardinality(1..(Cardinality(T) + 1)) <= Cardinality(T) BY <2>1, FS_Subset
  <2>3. Cardinality(1..(Cardinality(T) + 1)) = Cardinality(T) + 1 BY <1>1, FS_Interval
  <2> QED BY <2>2, <2>3, <1>1
<1>3. j \in free BY <1>1, <1>2
<1>4. PICK m \in free : \A k \in free : m <= k BY <1>3, Smallest
<1>5. m \in 1..(Cardinality(T) + 1) /\ m \notin T BY <1>1, <1>3, <1>4
<1>6. \A k \in 1..(m - 1) : k \in T BY <1>4
<1> QED BY <1>5, <1>6

\* What a finite set's members have in common fields is finite too.
LEMMA NumbersFinite ==
    ASSUME NEW C, IsFiniteSet(C)
    PROVE  IsFiniteSet({c.n : c \in C})
<1> DEFINE T == {c.n : c \in C}
           f == [c \in C |-> c.n]
<1>1. f \in [C -> T] OBVIOUS
<1>2. \A t \in T : \E c \in C : f[c] = t OBVIOUS
<1> HIDE DEF f, T
<1>3. f \in Surjection(C, T) BY <1>1, <1>2 DEF Surjection
<1>4. IsFiniteSet(T) BY <1>3, FS_Surjection
<1> QED BY <1>4 DEF T

LEMMA SameCount == \A S : Upgrading!Cardinality(S) = Cardinality(S)
BY DEF Cardinality, Upgrading!Cardinality

\* back_up: a folder leads with the second it was made in.
LEMMA NameType ==
    ASSUME NEW stamp \in Nat, NEW rev \in Nat, copies \subseteq Copies, IsFiniteSet(copies)
    PROVE  /\ Upgrading!Name(stamp, rev) \in [stamp : Nat, rev : Nat, n : Nat]
           /\ Upgrading!Name(stamp, rev).stamp = stamp /\ Upgrading!Name(stamp, rev).rev = rev
<1> DEFINE same == {k \in copies : k.stamp = stamp /\ k.rev = rev}
           used == {c.n : c \in same}
           free(i) == i \notin used /\ \A k \in 1..(i - 1) : k \in used
<1>1. IsFiniteSet(same) BY FS_Subset
<1>2. used \subseteq Nat BY DEF Copies
<1>3. IsFiniteSet(used) BY <1>1, NumbersFinite
<1>4. \E i \in 1..(Cardinality(used) + 1) : free(i) BY <1>2, <1>3, FirstFree
<1>5. Cardinality(used) \in Nat BY <1>3, FS_CardinalityType
<1>6. (CHOOSE i \in 1..(Cardinality(used) + 1) : free(i)) \in 1..(Cardinality(used) + 1)
  BY <1>4
<1>7. PICK n \in Nat : Upgrading!Name(stamp, rev) = [stamp |-> stamp, rev |-> rev, n |-> n]
  <2> DEFINE n == CHOOSE i \in 1..(Cardinality(used) + 1) : free(i)
  <2>1. Upgrading!Name(stamp, rev) = [stamp |-> stamp, rev |-> rev, n |-> n] BY SameCount, Zenon DEF Upgrading!Name
  <2>2. n \in Nat BY <1>5, <1>6
  <2> QED BY <2>1, <2>2
<1> QED BY <1>7

UpgradeTypes ==
    /\ build \in Builds /\ clock \in Nat
    /\ db \in [rev : Nat, edits : Nat]
    /\ copies \subseteq Copies /\ IsFiniteSet(copies)

\* The migration that is about to begin has its way back.
CopiesSound ==
    /\ UpgradeTypes
    /\ Upgrading!WayBack

LEMMA CopiesBegin == Upgrading!Init => CopiesSound
<1> SUFFICES ASSUME Upgrading!Init PROVE CopiesSound OBVIOUS
<1>1. Heads[1] \in Nat BY HeadsAssumption
<1>2. db \in [rev : Nat, edits : Nat] BY <1>1 DEF Upgrading!Init, Upgrading!Legacy
<1>3. IsFiniteSet(copies) BY FS_EmptySet DEF Upgrading!Init
<1> QED BY <1>2, <1>3 DEF Upgrading!Init, CopiesSound, UpgradeTypes, Upgrading!WayBack

\* The step that makes a copy, prunes, and lets the migration begin: what was
\* just made goes only if Keep copies come after it by name.
LEMMA CopyIsMade == CopiesSound /\ Upgrading!NameFolder => CopiesSound'
<1> SUFFICES ASSUME CopiesSound, Upgrading!NameFolder PROVE CopiesSound' OBVIOUS
<1> DEFINE name == Upgrading!Name(clock, db.rev)
           new == [stamp |-> name.stamp, rev |-> name.rev, n |-> name.n, edits |-> db.edits]
           all == copies \cup {new}
<1>1. /\ copies' = Upgrading!Kept(all) /\ UNCHANGED <<build, db, plan, clock>>
      /\ rivals' = {c \in copies : Upgrading!Before(new, c)}
  BY DEF Upgrading!NameFolder
<1>2. /\ copies \subseteq Copies /\ IsFiniteSet(copies) /\ clock \in Nat /\ db \in [rev : Nat, edits : Nat]
  BY DEF CopiesSound, UpgradeTypes
<1>3. /\ name \in [stamp : Nat, rev : Nat, n : Nat]
      /\ name.stamp = clock /\ name.rev = db.rev
  BY <1>2, NameType
<1>4. /\ new \in Copies /\ new.rev = db.rev /\ new.edits = db.edits
  <2> HIDE DEF name
  <2> QED BY <1>2, <1>3 DEF Copies
<1> HIDE DEF new, name
<1>5. {d \in all : Upgrading!Before(new, d)} = rivals'
  <2>1. ~Upgrading!Before(new, new) BY <1>4 DEF Upgrading!Before, Copies
  <2> QED BY <1>1, <2>1
<1>6. new \in copies' \/ Upgrading!Cardinality(rivals') >= Keep
  <2>1. IsFiniteSet(rivals')
    <3>1. rivals' \in SUBSET copies BY <1>1
    <3> QED BY <1>2, <3>1, FS_Subset
  <2>2. Cardinality(rivals') \in Nat BY <2>1, FS_CardinalityType
  <2>3. Upgrading!Cardinality(rivals') = Cardinality(rivals') BY SameCount
  <2>4. CASE Upgrading!Cardinality(rivals') < Keep
    <3>1. Upgrading!Cardinality({d \in all : Upgrading!Before(new, d)}) < Keep BY <1>5, <2>4
    <3>2. new \in all OBVIOUS
    <3> HIDE DEF all
    <3>3. new \in Upgrading!Kept(all) BY <3>1, <3>2 DEF Upgrading!Kept
    <3> QED BY <1>1, <3>3
  <2>5. CASE ~(Upgrading!Cardinality(rivals') < Keep) BY <2>2, <2>3, <2>5, KeepAssumption
  <2> QED BY <2>4, <2>5
<1>7. copies' \subseteq Copies BY <1>1, <1>2, <1>4 DEF Upgrading!Kept
<1>8. IsFiniteSet(copies')
  <2>1. IsFiniteSet(all) BY <1>2, FS_AddElement
  <2>2. copies' \in SUBSET all BY <1>1 DEF Upgrading!Kept
  <2> QED BY <2>1, <2>2, FS_Subset
<1>9. UpgradeTypes' BY <1>1, <1>7, <1>8 DEF UpgradeTypes, CopiesSound
<1>10. Upgrading!WayBack' BY <1>1, <1>4, <1>6 DEF Upgrading!WayBack
<1> QED BY <1>9, <1>10 DEF CopiesSound

LEMMA CopiesKept == CopiesSound /\ [Upgrading!Next]_Upgrading!vars => CopiesSound'
<1> SUFFICES ASSUME CopiesSound, [Upgrading!Next]_Upgrading!vars PROVE CopiesSound' OBVIOUS
<1> USE DEF CopiesSound, UpgradeTypes, Upgrading!WayBack, Upgrading!Mishap
<1>1. CASE Upgrading!Start BY <1>1 DEF Upgrading!Start
<1>2. CASE Upgrading!NoRoom BY <1>2 DEF Upgrading!NoRoom
<1>3. CASE Upgrading!OpenFolder BY <1>3 DEF Upgrading!OpenFolder
<1>4. CASE Upgrading!NameFolder BY <1>4, CopyIsMade
<1>5. CASE Upgrading!CopyFails BY <1>5 DEF Upgrading!CopyFails
<1>6. CASE Upgrading!Upgrade
  <2>1. Heads[build] \in Nat BY HeadsAssumption
  <2>2. db' \in [rev : Nat, edits : Nat] BY <1>6, <2>1 DEF Upgrading!Upgrade
  <2> QED BY <1>6, <2>2 DEF Upgrading!Upgrade
<1>7. CASE Upgrading!UpgradeFails BY <1>7 DEF Upgrading!UpgradeFails
<1>8. CASE Upgrading!Record
  <2>1. db' \in [rev : Nat, edits : Nat] BY <1>8 DEF Upgrading!Record
  <2> QED BY <1>8, <2>1 DEF Upgrading!Record
<1>9. CASE Upgrading!Stop BY <1>9 DEF Upgrading!Stop
<1>10. CASE Upgrading!SlipBack BY <1>10 DEF Upgrading!SlipBack
<1>11. ASSUME NEW b \in Builds, Upgrading!Install(b) PROVE CopiesSound' BY <1>11 DEF Upgrading!Install
<1>12. ASSUME NEW c \in copies, Upgrading!PutBack(c) PROVE CopiesSound'
  <2>1. c \in Copies OBVIOUS
  <2>2. db' \in [rev : Nat, edits : Nat] BY <1>12, <2>1 DEF Upgrading!PutBack, Copies
  <2> QED BY <1>12, <2>2 DEF Upgrading!PutBack
<1>13. CASE UNCHANGED Upgrading!vars BY <1>13 DEF Upgrading!vars
<1> QED
  BY <1>1, <1>2, <1>3, <1>4, <1>5, <1>6, <1>7, <1>8, <1>9, <1>10, <1>11, <1>12, <1>13
  DEF Upgrading!Next

\* When a migration begins, a copy of the database as it is, at its revision
\* and with what it holds, lies under backups/, whatever was pruned to make
\* room and however often the start was tried, unless Keep copies were there
\* that claimed to be later (upgrade_backup.py, back_up and prune; db.py,
\* init_db).
THEOREM MigrationHasAWayBack == Upgrading!Spec => []WayBack
<1>1. Upgrading!Init => CopiesSound BY CopiesBegin
<1>2. CopiesSound /\ [Upgrading!Next]_Upgrading!vars => CopiesSound' BY CopiesKept
<1>3. CopiesSound => WayBack BY DEF CopiesSound, WayBack
<1> QED BY <1>1, <1>2, <1>3, PTL DEF Upgrading!Spec
-----------------------------------------------------------------------------
(* The offer: what Quit installs.                                          *)

\* A set of numbers is empty or has a greatest member.
Bounded(S) == S \subseteq Nat /\ (S = {} \/ \E m \in S : \A s \in S : m >= s)

LEMMA HighestType ==
    ASSUME NEW S, Bounded(S)
    PROVE  Offer!Highest(S) = Offer!None \/ Offer!Highest(S) \in S
<1>1. CASE S = {} BY <1>1 DEF Offer!Highest
<1>2. CASE S # {}
  <2>1. PICK m \in S : \A s \in S : m >= s BY <1>2 DEF Bounded
  <2>2. Offer!Max(S) \in S BY <2>1 DEF Offer!Max
  <2> QED BY <1>2, <2>2 DEF Offer!Highest
<1> QED BY <1>1, <1>2

\* Releases come out in the order of their versions.
PublishedInOrder ==
    /\ published \subseteq Tags
    /\ \A t \in published : \A s \in Tags : s < t => s \in published
    /\ Bounded(published) /\ Bounded(published \ Candidates)

AtMostOne(S) == \A s, t \in S : s = t

\* While the server is up and has loaded: a fetch is under way for what is
\* newer than what runs, with nothing to install on Quit; what is ready lies
\* there whole; on-quit.json names what it should, or the loop is about to look.
OfferSound ==
    /\ PublishedInOrder
    /\ result.tag \in Nat /\ stored.tag \in Nat
    /\ tag \in Nat /\ running \in Nat /\ setup \in Nat /\ onQuit \in Nat /\ request \in Nat
    /\ folders \subseteq Nat /\ AtMostOne(folders)
    /\ life = "down" => at = "load"
    /\ life = "up" /\ at # "load" =>
          /\ at \in {"look", "fetch", "wait"}
          /\ at = "fetch" => tag > running /\ state = "downloading" /\ onQuit = Offer!None
          /\ state \in {"ready", "installing"} => tag \in folders /\ tag > running
          /\ at # "look" /\ onQuit # Offer!None => onQuit \in folders /\ onQuit > running
          /\ at = "wait" /\ ~wake /\ state # "installing" /\ asking # "saving" =>
                onQuit = Offer!OnQuitFor(state, tag, quitWanted, Offer!Offered)

LEMMA AnswerType ==
    ASSUME PublishedInOrder, NEW c
    PROVE  Offer!Answer(c) \in Nat
<1>1. CASE c = "stable"
  <2>1. Offer!Answer(c) = Offer!Highest(published \ Candidates) BY <1>1 DEF Offer!Answer
  <2>2. Bounded(published \ Candidates) BY DEF PublishedInOrder
  <2>3. published \ Candidates \subseteq Nat BY <2>2 DEF Bounded
  <2> DEFINE stable == published \ Candidates
  <2> HIDE DEF stable
  <2>4. Offer!Highest(stable) = Offer!None \/ Offer!Highest(stable) \in stable
    BY <2>2, HighestType DEF stable
  <2> QED BY <2>1, <2>3, <2>4 DEF Offer!None, stable
<1>2. CASE c # "stable"
  <2>1. Offer!Answer(c) = Offer!Highest(published) BY <1>2 DEF Offer!Answer
  <2>2. Bounded(published) BY DEF PublishedInOrder
  <2>3. published \subseteq Nat BY <2>2 DEF Bounded
  <2>4. CASE Offer!Highest(published) = Offer!None BY <2>1, <2>4 DEF Offer!None
  <2>5. CASE Offer!Highest(published) \in published BY <2>1, <2>3, <2>5
  <2> QED BY <2>2, <2>4, <2>5, HighestType
<1> QED BY <1>1, <1>2

LEMMA OfferBegins == Offer!Init => OfferSound
BY DEF Offer!Init, OfferSound, PublishedInOrder, Bounded, AtMostOne, Offer!None

LEMMA PublishedKept ==
    ASSUME PublishedInOrder, NEW t \in Tags, Offer!Publish(t)
    PROVE  PublishedInOrder'
<1>1. /\ t \notin published /\ \A s \in Tags : s < t => s \in published
      /\ published' = published \cup {t}
  BY DEF Offer!Publish
<1>2. published \subseteq Nat /\ Tags \subseteq Nat BY TagsAssumption DEF PublishedInOrder
<1>3. \A s \in published : s < t BY <1>1, <1>2 DEF PublishedInOrder
<1>4. /\ published' \subseteq Tags
      /\ \A u \in published' : \A s \in Tags : s < u => s \in published'
  BY <1>1 DEF PublishedInOrder
<1>5. Bounded(published') BY <1>1, <1>2, <1>3 DEF Bounded
<1>6. Bounded(published' \ Candidates)
  <2>1. CASE t \in Candidates
    <3>1. published' \ Candidates = published \ Candidates BY <1>1, <2>1
    <3> QED BY <3>1 DEF PublishedInOrder
  <2>2. CASE t \notin Candidates
    <3>1. t \in published' \ Candidates BY <1>1, <2>2
    <3>2. \A s \in published' \ Candidates : s \in Nat /\ t >= s BY <1>1, <1>2, <1>3
    <3> QED BY <3>1, <3>2 DEF Bounded
  <2> QED BY <2>1, <2>2
<1> QED BY <1>4, <1>5, <1>6 DEF PublishedInOrder

\* Nothing of what OfferSound says is touched.
LEMMA OfferUntouched ==
    ASSUME OfferSound, PublishedInOrder',
           UNCHANGED <<result, stored, asking, tag, running, setup, folders, request, life, at, state,
                       onQuit, wake, quitWanted, checkOn, channel>>
    PROVE  OfferSound'
BY DEF OfferSound, Offer!Offered, Offer!OfferedBy, Offer!OnQuitFor, AtMostOne

\* The server is not up, or has not loaded.
LEMMA OfferAtRest ==
    ASSUME OfferSound, published' = published,
           result'.tag \in Nat, stored'.tag \in Nat, tag' \in Nat, running' \in Nat, setup' \in Nat,
           onQuit' \in Nat, request' \in Nat,
           folders' = folders, life' = "down" => at' = "load",
           life' # "up" \/ at' = "load"
    PROVE  OfferSound'
BY DEF OfferSound, PublishedInOrder

\* The next server has the answer as stored, or as it was being stored.
LEMMA EndsType ==
    ASSUME OfferSound, Offer!ServerEnds
    PROVE  result'.tag \in Nat /\ stored'.tag \in Nat
<1>1. stored' \in {stored, result} /\ result' = stored' BY DEF Offer!ServerEnds
<1> QED BY <1>1 DEF OfferSound

LEMMA DownAtRest ==
    ASSUME OfferSound, NEW t \in Nat, Offer!Down(t)
    PROVE  OfferSound'
<1>1. /\ published' = published /\ running' = running
      /\ tag' = 0 /\ folders' = folders /\ life' = "down" /\ at' = "load"
      /\ setup' = (IF t = Offer!None THEN setup ELSE t)
      /\ onQuit' = onQuit /\ request' = 0
      /\ Offer!ServerEnds
  BY DEF Offer!Down, Offer!ServerEnds, Offer!github, Offer!None
<1>2. result'.tag \in Nat /\ stored'.tag \in Nat BY <1>1, EndsType
<1> QED BY <1>1, <1>2, OfferAtRest DEF OfferSound

LEMMA OfferedType ==
    ASSUME OfferSound
    PROVE  Offer!Offered \in Nat /\ (Offer!Offered # Offer!None => Offer!Offered > running)
BY DEF OfferSound, Offer!Offered, Offer!OfferedBy, Offer!None

LEMMA AskKept ==
    ASSUME OfferSound, Offer!Asks(TRUE) \/ Offer!Asks(FALSE)
    PROVE  OfferSound'
<1>1. /\ asking = "no"
      /\ UNCHANGED <<published, result, stored, tag, running, setup, folders, request, life, at,
                     state, onQuit, wake, quitWanted, checkOn, channel>>
  BY DEF Offer!Asks, Offer!github, Offer!settings, Offer!updater, Offer!files
<1> QED BY <1>1 DEF OfferSound, Offer!Offered, Offer!OfferedBy, Offer!OnQuitFor, AtMostOne, PublishedInOrder

\* However the check ends: its answer is saved before the loop hears of it.
LEMMA CheckKept ==
    ASSUME OfferSound, Offer!Answered \/ Offer!RateLimited \/ Offer!CheckFails
    PROVE  OfferSound'
<1>1. /\ asking' = "saving" /\ life = "up"
      /\ UNCHANGED <<published, running, checkOn, channel, quitWanted, stored, at, state, tag,
                     folders, onQuit, request, setup, life>>
  BY DEF Offer!Answered, Offer!RateLimited, Offer!CheckFails, Offer!CheckOver, Offer!github, Offer!settings,
         Offer!updater, Offer!files
<1>2. result'.tag \in Nat
  <2>1. CASE Offer!Answered
    <3>1. Offer!Answer(asking) \in Nat BY AnswerType DEF OfferSound
    <3>2. result'.tag = Offer!Answer(asking) BY <2>1 DEF Offer!Answered
    <3> QED BY <3>1, <3>2
  <2>2. CASE Offer!RateLimited \/ Offer!CheckFails BY <2>2 DEF OfferSound, Offer!RateLimited, Offer!CheckFails
  <2> QED BY <2>1, <2>2
<1> QED BY <1>1, <1>2 DEF OfferSound, PublishedInOrder, AtMostOne

\* It is saved: the loop will look at what it said.
LEMMA SavedKept ==
    ASSUME OfferSound, Offer!CheckSaved
    PROVE  OfferSound'
<1>1. /\ wake' = TRUE /\ stored' \in {stored, result}
      /\ UNCHANGED <<published, running, checkOn, channel, quitWanted, result, at, state, tag,
                     folders, onQuit, request, setup, life>>
  BY DEF Offer!CheckSaved, Offer!github, Offer!settings, Offer!files
<1>2. stored'.tag \in Nat BY <1>1 DEF OfferSound
<1> QED BY <1>1, <1>2 DEF OfferSound, PublishedInOrder, AtMostOne

LEMMA DayKept ==
    ASSUME OfferSound, Offer!DayPasses
    PROVE  OfferSound'
BY OfferUntouched
DEF Offer!DayPasses, Offer!github, Offer!settings, Offer!updater, Offer!files, OfferSound, PublishedInOrder

\* A setting of the check changed: the loop will look again.
LEMMA ChangeCheckKept ==
    ASSUME OfferSound, Offer!ChangeCheck
    PROVE  OfferSound'
<1>1. /\ wake' = TRUE /\ life = "up"
      /\ UNCHANGED <<published, running, result, stored, asking, quitWanted, at, state, tag, folders,
                     onQuit, request, setup, life>>
  BY DEF Offer!ChangeCheck, Offer!github, Offer!files
<1> QED BY <1>1 DEF OfferSound, PublishedInOrder, AtMostOne

\* The switch brings on-quit.json into line on the spot.
LEMMA ChangeOnQuitKept ==
    ASSUME OfferSound, Offer!ChangeOnQuit
    PROVE  OfferSound'
<1>1. /\ life = "up" /\ at # "load"
      /\ onQuit' = Offer!OnQuitFor(state, tag, quitWanted', Offer!Offered)
      /\ UNCHANGED <<published, running, result, stored, asking, checkOn, channel, at, state, tag, wake,
                     folders, request, setup, life>>
  BY DEF Offer!ChangeOnQuit, Offer!github, Offer!checker, Offer!updater
<1>2. Offer!Offered' = Offer!Offered BY <1>1 DEF Offer!Offered, Offer!OfferedBy
<1>3. onQuit' = Offer!None \/ (onQuit' = tag /\ state = "ready") BY <1>1 DEF Offer!OnQuitFor
<1>4. state = "ready" => tag \in folders /\ tag > running BY <1>1 DEF OfferSound
<1>5. onQuit' \in Nat BY <1>3 DEF OfferSound, Offer!None
<1> QED BY <1>1, <1>2, <1>3, <1>4, <1>5 DEF OfferSound, PublishedInOrder, AtMostOne

\* _load: at most one folder is newer than what runs.
LEMMA LoadKept ==
    ASSUME OfferSound, Offer!Load
    PROVE  OfferSound'
<1> DEFINE newer == {t \in folders : t > running}
           best == Offer!Highest(newer)
<1>1. Bounded(newer)
  <2>1. folders \subseteq Nat /\ AtMostOne(folders) BY DEF OfferSound
  <2>2. newer \subseteq Nat /\ AtMostOne(newer) BY <2>1 DEF AtMostOne
  <2> HIDE DEF newer
  <2>3. \A m \in newer : \A s \in newer : m >= s BY <2>2 DEF AtMostOne
  <2> QED BY <2>2, <2>3 DEF Bounded
<1>2. best = Offer!None \/ (best \in folders /\ best > running)
  BY <1>1, HighestType
<1>3. /\ folders' = {t \in folders : t = best} /\ tag' = best /\ request' = Offer!None
      /\ best = Offer!None => state' = "idle"
      /\ at' = "look" /\ life = "up"
      /\ UNCHANGED <<published, running, checkOn, channel, quitWanted, result, stored, asking, onQuit, setup, life>>
  BY DEF Offer!Load, Offer!github, Offer!settings, Offer!checker
<1> HIDE DEF best, newer
<1>4. best \in Nat
  <2>1. folders \subseteq Nat BY DEF OfferSound
  <2>2. CASE best = Offer!None BY <2>2 DEF Offer!None
  <2>3. CASE best \in folders BY <2>1, <2>3
  <2> QED BY <1>2, <2>2, <2>3
<1> QED BY <1>2, <1>3, <1>4 DEF OfferSound, PublishedInOrder, AtMostOne, Offer!None

LEMMA LookKept ==
    ASSUME OfferSound, Offer!Look
    PROVE  OfferSound'
<1>1. /\ life = "up" /\ at = "look"
      /\ UNCHANGED <<published, running, checkOn, channel, quitWanted, result, stored, asking, folders, request,
                     setup, life>>
  BY DEF Offer!Look, Offer!github, Offer!settings, Offer!checker
<1>2. Offer!Offered' = Offer!Offered BY <1>1 DEF Offer!Offered, Offer!OfferedBy
<1>3. Offer!Offered \in Nat /\ (Offer!Offered # Offer!None => Offer!Offered > running) BY OfferedType
<1>4. CASE Offer!Fetches
  <2>1. /\ tag' = Offer!Offered /\ state' = "downloading" /\ onQuit' = Offer!None /\ at' = "fetch"
        /\ Offer!Offered # Offer!None
    BY <1>4 DEF Offer!Look, Offer!Fetches
  <2> HIDE DEF Offer!Offered
  <2> QED BY <1>1, <1>2, <1>3, <2>1 DEF OfferSound, PublishedInOrder, AtMostOne, Offer!None
<1>5. CASE ~Offer!Fetches
  <2>1. /\ onQuit' = Offer!OnQuitFor(state, tag, quitWanted, Offer!Offered) /\ at' = "wait"
        /\ UNCHANGED <<tag, state>>
    BY <1>5 DEF Offer!Look
  <2>2. onQuit' = Offer!None \/ (onQuit' = tag /\ state = "ready") BY <2>1 DEF Offer!OnQuitFor
  <2>3. onQuit' \in Nat BY <2>2 DEF OfferSound, Offer!None
  <2>4. state \in {"ready", "installing"} => tag \in folders /\ tag > running
    BY <1>1 DEF OfferSound
  <2> QED BY <1>1, <1>2, <2>1, <2>2, <2>3, <2>4 DEF OfferSound, PublishedInOrder, AtMostOne
<1> QED BY <1>4, <1>5

LEMMA LookAgainKept ==
    ASSUME OfferSound, Offer!LookAgain
    PROVE  OfferSound'
<1>1. /\ life = "up" /\ at = "wait" /\ at' = "look"
      /\ UNCHANGED <<published, running, checkOn, channel, quitWanted, result, stored, asking, folders, request,
                     setup, life, state, tag, wake, onQuit>>
  BY DEF Offer!LookAgain, Offer!github, Offer!settings, Offer!checker, Offer!files
<1> QED BY <1>1 DEF OfferSound, PublishedInOrder, AtMostOne

LEMMA FetchedKept ==
    ASSUME OfferSound, Offer!Fetched
    PROVE  OfferSound'
<1>1. /\ life = "up" /\ at = "fetch" /\ state' = "ready" /\ at' = "look" /\ folders' = {tag}
      /\ onQuit' = Offer!OnQuitFor("ready", tag, quitWanted, Offer!Offered)
      /\ UNCHANGED <<published, running, checkOn, channel, quitWanted, result, stored, asking, tag, request,
                     setup, life>>
  BY DEF Offer!Fetched, Offer!github, Offer!settings, Offer!checker
<1>2. onQuit' \in Nat BY <1>1 DEF Offer!OnQuitFor, OfferSound, Offer!None
<1> QED BY <1>1, <1>2 DEF OfferSound, PublishedInOrder, AtMostOne

LEMMA FetchFailsKept ==
    ASSUME OfferSound, Offer!FetchFails
    PROVE  OfferSound'
<1>1. /\ life = "up" /\ at = "fetch" /\ state' = "failed" /\ at' = "look" /\ onQuit' = Offer!None
      /\ UNCHANGED <<published, running, checkOn, channel, quitWanted, result, stored, asking, tag, folders,
                     request, setup, life>>
  BY DEF Offer!FetchFails, Offer!github, Offer!settings, Offer!checker
<1> QED BY <1>1 DEF OfferSound, PublishedInOrder, AtMostOne, Offer!None

\* A failure taken in: nothing is left for Quit.
LEMMA TakeFailureKept ==
    ASSUME OfferSound, Offer!TakeFailure
    PROVE  OfferSound'
<1>1. /\ life = "up" /\ state \in {"ready", "installing"} /\ state' = "failed" /\ onQuit' = Offer!None
      /\ UNCHANGED <<published, running, checkOn, channel, quitWanted, result, stored, asking, at, tag, wake,
                     folders, request, setup, life>>
  BY DEF Offer!TakeFailure, Offer!github, Offer!settings, Offer!checker
<1>2. Offer!OnQuitFor(state', tag', quitWanted', Offer!Offered') = Offer!None BY <1>1 DEF Offer!OnQuitFor
<1>3. at # "fetch" \/ at = "load" BY <1>1 DEF OfferSound
<1> QED BY <1>1, <1>2, <1>3 DEF OfferSound, PublishedInOrder, AtMostOne, Offer!None

LEMMA InstallationKept ==
    ASSUME OfferSound, Offer!Installed \/ Offer!InstallFails
    PROVE  OfferSound'
<1>1. CASE Offer!Installed
  <2>1. /\ published' = published /\ running' = setup /\ tag' = Offer!None
        /\ setup' = Offer!None /\ folders' = folders /\ life' = "down" /\ at' = "load"
        /\ UNCHANGED <<onQuit, request>>
        /\ Offer!ServerEnds
    BY <1>1 DEF Offer!Installed, Offer!ServerEnds, Offer!files
  <2>2. result'.tag \in Nat /\ stored'.tag \in Nat BY <2>1, EndsType
  <2> QED BY <2>1, <2>2, OfferAtRest DEF OfferSound, Offer!None
<1>2. CASE Offer!InstallFails
  <2>1. /\ setup' = Offer!None
        /\ UNCHANGED <<published, result, stored, asking, tag, running, folders, request, life, at,
                       state, onQuit, wake, quitWanted, checkOn, channel>>
    BY <1>2 DEF Offer!InstallFails, Offer!github, Offer!settings, Offer!checker, Offer!updater
  <2> QED BY <2>1
      DEF OfferSound, Offer!Offered, Offer!OfferedBy, Offer!OnQuitFor, AtMostOne, Offer!None, PublishedInOrder
<1> QED BY <1>1, <1>2

LEMMA OfferKept == OfferSound /\ [Offer!Next]_Offer!vars => OfferSound'
<1> SUFFICES ASSUME OfferSound, [Offer!Next]_Offer!vars PROVE OfferSound' OBVIOUS
<1>1. CASE Offer!Checks \/ Offer!Asks(TRUE) \/ Offer!RateLimited \/ Offer!CheckFails
  BY <1>1, AskKept, CheckKept, SavedKept DEF Offer!Checks
<1>2. CASE Offer!DayPasses BY <1>2, DayKept
<1>3. CASE Offer!Downloads
  BY <1>3, LoadKept, LookKept, LookAgainKept, FetchedKept, TakeFailureKept DEF Offer!Downloads
<1>4. CASE Offer!FetchFails BY <1>4, FetchFailsKept
<1>5. CASE Offer!Exits
  <2>1. Offer!Down(request) BY <1>5 DEF Offer!Exits
  <2> QED BY <2>1, DownAtRest DEF OfferSound
<1>6. CASE Offer!Starts
  <2>1. /\ life' = "up" /\ at = "load" /\ at' = at
        /\ UNCHANGED <<published, result, stored, asking, tag, running, setup, folders, request, onQuit>>
    BY <1>6 DEF Offer!Starts, Offer!github, Offer!checker, Offer!updater, Offer!files, OfferSound
  <2> QED BY <2>1, OfferAtRest DEF OfferSound
<1>7. CASE Offer!Setup BY <1>7, InstallationKept DEF Offer!Setup
<1>8. ASSUME NEW t \in Tags, Offer!Publish(t) PROVE OfferSound'
  <2>1. PublishedInOrder' BY <1>8, PublishedKept DEF OfferSound
  <2> QED BY <1>8, <2>1, OfferUntouched
      DEF Offer!Publish, Offer!settings, Offer!checker, Offer!updater, Offer!files
<1>9. CASE Offer!ChangeCheck BY <1>9, ChangeCheckKept
<1>10. CASE Offer!ChangeOnQuit BY <1>10, ChangeOnQuitKept
<1>11. CASE Offer!UpdateDownload
  <2>1. /\ wake' = TRUE
        /\ UNCHANGED <<published, result, stored, asking, tag, running, setup, folders, request, life, at, state,
                       onQuit, quitWanted, checkOn, channel>>
    BY <1>11 DEF Offer!UpdateDownload, Offer!github, Offer!settings, Offer!checker, Offer!files
  <2> QED BY <2>1 DEF OfferSound, AtMostOne, PublishedInOrder
<1>12. CASE Offer!RequestInstall
  <2>1. /\ life' = "exiting" /\ request' = tag
        /\ UNCHANGED <<published, result, stored, asking, tag, running, setup, folders, onQuit>>
    BY <1>12 DEF Offer!RequestInstall, Offer!github, Offer!checker
  <2> QED BY <2>1, OfferAtRest DEF OfferSound
<1>13. CASE Offer!Quits
  <2>1. Offer!Down(onQuit) BY <1>13 DEF Offer!Quits
  <2> QED BY <2>1, DownAtRest DEF OfferSound
<1>14. CASE Offer!Dies
  <2>1. Offer!Down(Offer!None) BY <1>14 DEF Offer!Dies
  <2> QED BY <2>1, DownAtRest DEF Offer!None
<1>15. CASE UNCHANGED Offer!vars
  BY <1>15, OfferUntouched
  DEF Offer!vars, Offer!github, Offer!settings, Offer!checker, Offer!updater, Offer!files, OfferSound, PublishedInOrder
<1> QED
  BY <1>1, <1>2, <1>3, <1>4, <1>5, <1>6, <1>7, <1>8, <1>9, <1>10, <1>11, <1>12, <1>13,
     <1>14, <1>15
  DEF Offer!Next, Offer!Handover

\* While the loop rests and no answer is being saved, Quit installs what is
\* ready and still offered, if it should, and nothing else; what on-quit.json
\* names is there and newer than what runs, an answer on its way or not
\* (self_update.py, sync_on_quit and its callers; updates.py, check).
THEOREM QuitInstallsWhatIsOffered == Offer!Spec => []QuitInstallsTheOffer
<1>1. OfferSound => QuitInstallsTheOffer
  BY DEF OfferSound, QuitInstallsTheOffer, Offer!QuitInstallsTheOffer
<1> QED BY <1>1, OfferBegins, OfferKept, PTL DEF Offer!Spec
===============================================================================
