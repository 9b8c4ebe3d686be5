------------------------------ MODULE Upgrades ------------------------------
(* A start that finds the database behind its build: the copy taken first  *)
(* (storage/upgrade_backup.py) and the migration (init_db in storage/      *)
(* db.py), over starts, kills, failures and other builds put in its place. *)
EXTENDS Integers, FiniteSets

CONSTANTS
    Builds,     \* versions of the app, by age: 1..n
    Heads,      \* Builds -> the schema revision each ends at
    Keep,       \* keep_count(): copies kept
    MaxEdits, MaxClock, MaxMishaps

VARIABLES
    build,      \* the version installed
    stage,      \* how far its start has come
    db,         \* the file: its revision, its contents
    plan,       \* _plan: an upgrade is due on a database that holds something
    copies,     \* the finished folders under backups/
    partial,    \* a folder that never got its name is lying there
    rivals,     \* history: the copies that came after the one last made, by name
    clock,      \* what datetime.now says
    mishaps

vars == <<build, stage, db, plan, copies, partial, rivals, clock, mishaps>>

\* A database from before Alembic has tables and no revision: 0.
Legacy == 0

Init ==
    /\ build \in Builds
    /\ stage = "down"
    /\ db \in [rev : {Legacy, Heads[1]}, edits : {0}]
    /\ plan = FALSE
    /\ copies = {} /\ partial = FALSE /\ rivals = {}
    /\ clock = 0 /\ mishaps = 0

Mishap == mishaps < MaxMishaps /\ mishaps' = mishaps + 1

\* _known_revisions: every revision up to the build's own head.
Known(rev) == rev <= Heads[build]

----------------------------------------------------------------------------
(* One start.                                                              *)

\* _plan reads only. A revision the build never heard of is DatabaseTooNew:
\* the file stays as it is and the start is over.
Start ==
    /\ stage = "down" /\ Known(db.rev) /\ clock < MaxClock
    /\ clock' = clock + 1
    /\ plan' = (db.rev # Heads[build])
    /\ stage' = IF plan' THEN "room" ELSE "upgrade"
    /\ UNCHANGED <<build, db, copies, partial, rivals, mishaps>>

\* room_problem: NoRoomForBackup, nothing is upgraded.
NoRoom ==
    /\ stage = "room" /\ Mishap
    /\ stage' = "down"
    /\ UNCHANGED <<build, db, plan, copies, partial, rivals, clock>>

\* back_up clears what an earlier start left and opens a folder of its own.
OpenFolder ==
    /\ stage = "room"
    /\ partial' = TRUE
    /\ stage' = "copy"
    /\ UNCHANGED <<build, db, plan, copies, rivals, clock, mishaps>>

\* The folder's name leads with the clock; a name taken is numbered.
Name(stamp, rev) ==
    LET taken == {c.n : c \in {k \in copies : k.stamp = stamp /\ k.rev = rev}}
    IN [stamp |-> stamp, rev |-> rev, n |-> CHOOSE i \in 1..(Cardinality(taken) + 1) :
                                               i \notin taken /\ \A k \in 1..(i - 1) : k \in taken]

\* Sorted by name, the stamp first.
Before(a, b) ==
    \/ a.stamp < b.stamp
    \/ a.stamp = b.stamp /\ a.rev < b.rev
    \/ a.stamp = b.stamp /\ a.rev = b.rev /\ a.n < b.n

\* prune: all but the last Keep of them in that order.
Kept(all) == {c \in all : Cardinality({d \in all : Before(c, d)}) < Keep}

\* Mutant of NameFolder: one copy of a revision is thought to be enough.
NameFolderOnce ==
    /\ stage = "copy"
    /\ LET name == Name(clock, db.rev)
           copy == [stamp |-> name.stamp, rev |-> name.rev, n |-> name.n, edits |-> db.edits]
       IN /\ copies' = IF \E c \in copies : c.rev = db.rev THEN copies ELSE Kept(copies \cup {copy})
          /\ rivals' = {c \in copies : Before(copy, c)}
    /\ partial' = FALSE
    /\ stage' = "upgrade"
    /\ UNCHANGED <<build, db, plan, clock, mishaps>>

\* The manifest is in it: it takes its name, and the older copies go.
NameFolder ==
    /\ stage = "copy"
    /\ LET name == Name(clock, db.rev)
           copy == [stamp |-> name.stamp, rev |-> name.rev, n |-> name.n, edits |-> db.edits]
       IN /\ copies' = Kept(copies \cup {copy})
          /\ rivals' = {c \in copies : Before(copy, c)}
    /\ partial' = FALSE
    /\ stage' = "upgrade"
    /\ UNCHANGED <<build, db, plan, clock, mishaps>>

\* The copy fails: the folder goes, the start is over.
CopyFails ==
    /\ stage = "copy" /\ Mishap
    /\ partial' = FALSE
    /\ stage' = "down"
    /\ UNCHANGED <<build, db, plan, copies, rivals, clock>>

\* _upgrade, in one transaction: the legacy shape caught up and stamped, every
\* migration to the head.
Upgrade ==
    /\ stage = "upgrade"
    /\ db' = [db EXCEPT !.rev = Heads[build]]
    /\ stage' = "up"
    /\ UNCHANGED <<build, plan, copies, partial, rivals, clock, mishaps>>

UpgradeFails ==
    /\ stage = "upgrade" /\ plan /\ Mishap
    /\ stage' = "down"
    /\ UNCHANGED <<build, db, plan, copies, partial, rivals, clock>>

----------------------------------------------------------------------------
(* Around it.                                                              *)

\* What is recorded while the app runs.
Record ==
    /\ stage = "up" /\ db.edits < MaxEdits
    /\ db' = [db EXCEPT !.edits = @ + 1]
    /\ UNCHANGED <<build, stage, plan, copies, partial, rivals, clock, mishaps>>

\* Killed, or stopped: a folder without its name stays where it is.
Stop ==
    /\ stage # "down"
    /\ IF stage = "up" THEN UNCHANGED mishaps ELSE Mishap
    /\ stage' = "down"
    /\ UNCHANGED <<build, db, plan, copies, partial, rivals, clock>>

\* Another version, newer or older, is installed in its place.
Install(b) ==
    /\ stage = "down" /\ b # build
    /\ build' = b
    /\ UNCHANGED <<stage, db, plan, copies, partial, rivals, clock, mishaps>>

\* By hand, with the app stopped: a copy's file over the database.
PutBack(c) ==
    /\ stage = "down" /\ Mishap
    /\ db' = [rev |-> c.rev, edits |-> c.edits]
    /\ UNCHANGED <<build, stage, plan, copies, partial, rivals, clock>>

\* A machine without a clock of its own starts in the past.
SlipBack ==
    /\ stage = "down" /\ Mishap
    /\ clock' \in 0..(clock - 1)
    /\ UNCHANGED <<build, stage, db, plan, copies, partial, rivals>>

Next ==
    \/ Start \/ NoRoom \/ OpenFolder \/ NameFolder \/ CopyFails
    \/ Upgrade \/ UpgradeFails \/ Record \/ Stop \/ SlipBack
    \/ \E b \in Builds : Install(b)
    \/ \E c \in copies : PutBack(c)

Spec == Init /\ [][Next]_vars

----------------------------------------------------------------------------
\* When the migration begins, a finished copy of the database as it is lies
\* under backups/: a migration that turns out wrong has a way back, whatever
\* was pruned to make room, however often the start was tried, and whichever
\* build was tried before (#182).  All this unless Keep copies were there that
\* claimed to be later than the one just made.
WayBack ==
    stage = "upgrade" /\ plan =>
        \/ \E c \in copies : c.rev = db.rev /\ c.edits = db.edits
        \/ Cardinality(rivals) >= Keep

----------------------------------------------------------------------------
(* What the documentation says and the code does not do; no run checks it. *)

\* "The UTC stamp leads every name, so name order is age order"
\* (upgrade_backup.py, prune): after the clock went back the copy just made
\* is the one pruned, and the migration runs without it.
AlwaysWayBack ==
    stage = "upgrade" /\ plan =>
        \E c \in copies : c.rev = db.rev /\ c.edits = db.edits

\* The desktop keeps three, "where a user is likelier to try an older build
\* and want the data it last saw" (upgrade_backup.py): starts that fail in
\* the migration copy one and the same database again and push those out.
EachItsOwn ==
    \A c, d \in copies : c.rev = d.rev /\ c.edits = d.edits => c = d
=============================================================================
