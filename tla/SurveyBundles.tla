---------------------------- MODULE SurveyBundles ----------------------------
(***************************************************************************)
(* The evidence a survey leaves in its circuit's bundle, and how bundles   *)
(* meet: backend/app/processing/track_bundle.py (votes, merges, ordinals), *)
(* survey.py (a run resumes, saves, changes circuit, discards), the log    *)
(* it leaves behind (survey_log.py) and what the API does with bundles     *)
(* (api/tracks.py, storage/restore.py, shared_pull.py).                    *)
(*                                                                         *)
(* A reading is a metre of border as one kind, which is what a vote is     *)
(* for.  A vote is [n, last]: how many runs of one installation read it,   *)
(* and the ordinal of the latest.  A run is one survey, from its start to  *)
(* its stop; each document carries, as history, the runs it should count.  *)
(* Every write holds WRITE_LOCK and is one step.  A circuit not surveyed   *)
(* and a document without records are the same.                            *)
(*                                                                         *)
(* Left out: where a point lies and its road level, authored corners,      *)
(* finish crossings, the cap on points, documents of before version 4.     *)
(***************************************************************************)
EXTENDS Integers, FiniteSets, FiniteSetsExt

CONSTANTS
    Installs,    \* installations, each its own source id
    Drivers,     \* those on which surveys are driven
    Circuits,
    Readings,
    None,        \* no label
    MaxSurveys,  \* bound: surveys on one installation
    MaxCopies,   \* bound: documents copied
    MaxEvents    \* bound: discards, crashes, deletions, renames, rescues, relabellings

ASSUME SetsAssumption == Drivers \subseteq Installs /\ None \notin Circuits
ASSUME BoundsAssumption == {MaxSurveys, MaxCopies, MaxEvents} \subseteq Nat

VARIABLES
    store,   \* the bundle of each circuit on each installation
    live,    \* SurfaceSurvey of each installation
    logs,    \* the logs of surveys that are over, on their installation
    copy,    \* a document on its way: an export, an upload, the shared repo
    begun, copies, events

vars == <<store, live, logs, copy, begun, copies, events>>

NoVote == [n |-> 0, last |-> 0]

\* seen: the runs that read each reading, as the document should know them.
\* flaws: what has kept the counts of a reading from following, see Flaws.
NoBundle ==
    [runs    |-> [s \in Installs |-> 0],
     votes   |-> [r \in Readings |-> [s \in Installs |-> NoVote]],
     seen    |-> [r \in Readings |-> {}],
     flaws   |-> {}]

\* k numbers the surveys of an installation; run is _run_no; edges is what
\* the survey holds of the circuit, its own votes and all it started from.
\* lap, laps: what was read in the current segment and in earlier ones;
\* marks, logged: what the log holds, and its latest label.
NoSurvey ==
    [on |-> FALSE, k |-> 0, label |-> None, locked |-> FALSE, run |-> 1, edges |-> NoBundle,
     lap |-> {}, laps |-> {}, marks |-> {}, logged |-> None]

Init ==
    /\ store = [i \in Installs |-> [c \in Circuits |-> NoBundle]]
    /\ live = [i \in Installs |-> NoSurvey]
    /\ logs = {} /\ copy = NoBundle
    /\ begun = [i \in Installs |-> 0] /\ copies = 0 /\ events = 0

Happens == events < MaxEvents /\ events' = events + 1

-----------------------------------------------------------------------------
(* Votes.                                                                  *)

\* cast_vote.
Cast(v, run) == IF run > v.last THEN [n |-> v.n + 1, last |-> run] ELSE v

\* retract_vote: the run before is not recorded, so the mark steps back one.
Retracted(v, run) ==
    IF v.last # run THEN v
    ELSE IF v.n <= 1 THEN NoVote ELSE [n |-> v.n - 1, last |-> run - 1]

\* _merge_votes.
Merged(v, w) ==
    IF w.last > v.last THEN [n |-> Max({v.n + 1, w.n}), last |-> w.last] ELSE v

\* watermarks.
Watermark(votes, s) == Max({votes[r][s].last : r \in Readings} \cup {0})

\* reconcile_runs.
Reconciled(runs, votes) == [s \in Installs |-> Max({runs[s], Watermark(votes, s)})]

\* Mutant of NextRun: the counter alone, not what a killed run left.
NextRunCounted(doc, s) == doc.runs[s] + 1

\* next_run, and the same sum in _load_bundle and assign.
NextRun(doc, s) == Max({doc.runs[s], Watermark(doc.votes, s)}) + 1

Runs(seen, s) == {o \in seen : o[1] = s}

\* Where the code's ordinals fail to tell runs apart: a run has two of them;
\* a run is given one that is taken; of two documents, each counts a run the
\* other does not; a retraction leaves an ordinal of no run.
Flaws == {"again", "overtaken", "apart", "ahead"}

Marked(flaw, rs) == rs \X {flaw}

\* What a merge of e into d gets wrong.
Confused(d, e) ==
    LET mine(r, s) == Runs(d.seen[r], s)
        theirs(r, s) == Runs(e.seen[r], s)
    IN Marked("apart", {r \in Readings : \E s \in Installs :
            ~(mine(r, s) \subseteq theirs(r, s)) /\ ~(theirs(r, s) \subseteq mine(r, s))})
       \cup Marked("ahead", {r \in Readings : \E s \in Installs :
            theirs(r, s) \subseteq mine(r, s) /\ e.votes[r][s].last > d.votes[r][s].last})

\* merge_edges.
MergedEdges(d, e) ==
    [d EXCEPT
        !.votes = [r \in Readings |-> [s \in Installs |-> Merged(d.votes[r][s], e.votes[r][s])]],
        !.seen = [r \in Readings |-> d.seen[r] \cup e.seen[r]],
        !.flaws = @ \cup e.flaws]

Met(d, e) == [MergedEdges(d, e) EXCEPT !.flaws = @ \cup Confused(d, e)]

\* merge_document.
MergedDocument(d, e) ==
    [Met(d, e) EXCEPT
        !.runs = Reconciled([s \in Installs |-> Max({d.runs[s], e.runs[s]})], Met(d, e).votes)]

\* save.
Saved(d, edges, s, counted) ==
    [Met(d, edges) EXCEPT !.runs[s] = IF counted THEN @ + 1 ELSE @]

\* retract_run, of what `o` cast as run `run` of `s`, from those readings.
WithoutRun(d, s, run, o, rs) ==
    LET hit == {r \in rs : d.votes[r][s].last = run}
    IN [d EXCEPT
        !.votes = [r \in Readings |->
            IF r \in hit THEN [@[r] EXCEPT ![s] = Retracted(@, run)] ELSE @[r]],
        !.seen = [r \in Readings |-> IF r \in hit THEN @[r] \ {o} ELSE @[r]]]

\* own_evidence: the votes of `s` alone.
OwnEvidence(d, s) ==
    [runs    |-> [t \in Installs |-> IF t = s THEN Reconciled(d.runs, d.votes)[s] ELSE 0],
     votes   |-> [r \in Readings |-> [t \in Installs |-> IF t = s THEN d.votes[r][s] ELSE NoVote]],
     seen    |-> [r \in Readings |-> Runs(d.seen[r], s)],
     flaws   |-> d.flaws]

-----------------------------------------------------------------------------
(* The survey.                                                             *)

Run(i) == <<i, live[i].k>>

HasEdges(edges) == \E r \in Readings, s \in Installs : edges.votes[r][s].n > 0

\* _load_bundle: the run takes its ordinal from the bundle, and what was read
\* before the circuit was known is stamped with it.
Loaded(s, i, docs) ==
    IF s.label = None THEN s
    ELSE LET doc == docs[s.label]
             run == NextRun(doc, i)
             own == [s.edges EXCEPT !.votes = [r \in Readings |->
                        [@[r] EXCEPT ![i] = IF @.n = 0 THEN @ ELSE [@ EXCEPT !.last = run]]]]
             again == {r \in Readings : own.votes[r][i].n > 0 /\ <<i, s.k>> \in doc.seen[r]}
         IN [s EXCEPT !.run = run,
                      !.edges = [MergedEdges(doc, own) EXCEPT !.flaws = @ \cup Marked("again", again)]]

\* _save_bundle.
SavedTo(docs, s, i, counted) ==
    IF s.label = None \/ ~HasEdges(s.edges) THEN docs
    ELSE [docs EXCEPT ![s.label] = Saved(@, s.edges, i, counted)]

\* start.
Start(i) ==
    /\ ~live[i].on /\ begun[i] < MaxSurveys
    /\ begun' = [begun EXCEPT ![i] = @ + 1]
    /\ \E name \in Circuits \cup {None}, locked \in BOOLEAN :
          /\ locked => name # None
          /\ LET s == [NoSurvey EXCEPT !.on = TRUE, !.k = begun[i] + 1, !.label = name,
                                       !.locked = locked, !.logged = name]
             IN live' = [live EXCEPT ![i] = Loaded(s, i, store[i])]
    /\ UNCHANGED <<store, logs, copy, copies, events>>

\* feed, down to _append_edge: a vote the run has not cast here yet.
Reads(i, r) ==
    /\ live[i].on /\ live[i].run > live[i].edges.votes[r][i].last
    /\ live' = [live EXCEPT
          ![i].edges.votes[r][i] = Cast(@, live[i].run),
          ![i].edges.seen[r] = @ \cup {Run(i)},
          ![i].edges.flaws = IF Run(i) \in live[i].edges.seen[r] THEN @ \cup Marked("again", {r}) ELSE @,
          ![i].lap = @ \cup {r}, ![i].marks = @ \cup {r}]
    /\ UNCHANGED <<store, logs, copy, begun, copies, events>>

\* _track_lap.
NewLap(i) ==
    /\ live[i].lap # {}
    /\ live' = [live EXCEPT ![i].laps = @ \cup live[i].lap, ![i].lap = {}]
    /\ UNCHANGED <<store, logs, copy, begun, copies, events>>

\* feed, once in AUTOSAVE_PACKETS.
Autosave(i) ==
    /\ live[i].on
    /\ store' = [store EXCEPT ![i] = SavedTo(@, live[i], i, FALSE)]
    /\ UNCHANGED <<live, logs, copy, begun, copies, events>>

\* set_track.
Relabelled(i, name, locked) ==
    LET s == live[i]
        docs == SavedTo(store[i], s, i, FALSE)
        kept == IF s.label = None THEN s ELSE [s EXCEPT !.edges = NoBundle, !.run = 1]
        named == [kept EXCEPT !.label = name, !.locked = locked,
                              !.logged = IF name = None THEN @ ELSE name]
    IN /\ name # s.label
       /\ store' = [store EXCEPT ![i] = docs]
       /\ live' = [live EXCEPT ![i] = Loaded(named, i, docs)]
       /\ UNCHANGED <<logs, copy, begun, copies>>

\* The session restarts, and a lap identifies the circuit, unless the driver
\* has typed a label.
SessionRestarts(i) ==
    /\ live[i].on /\ ~live[i].locked /\ Happens
    /\ Relabelled(i, None, FALSE)

Identified(i) ==
    /\ live[i].on /\ ~live[i].locked
    /\ IF live[i].label = None THEN UNCHANGED events ELSE Happens
    /\ \E c \in Circuits : Relabelled(i, c, FALSE)

\* survey_set_track.
Named(i) ==
    /\ live[i].on
    /\ IF live[i].label = None THEN UNCHANGED events ELSE Happens
    /\ \E c \in Circuits : Relabelled(i, c, TRUE)

\* discard, with save_replacing_run: the lap so far, or the run.  The log
\* forgets what it names.
Discard(i) ==
    /\ live[i].on /\ Happens
    /\ \E scope \in {"lap", "run"} :
          LET s == live[i]
              tagged == IF scope = "lap" THEN s.lap ELSE s.lap \cup s.laps
              hit == {r \in tagged : s.edges.votes[r][i].last = s.run}
              edges == WithoutRun(s.edges, i, s.run, Run(i), hit)
          IN /\ tagged # {}
             /\ live' = [live EXCEPT
                   ![i].edges = edges, ![i].lap = {},
                   ![i].laps = IF scope = "lap" THEN @ ELSE {},
                   ![i].marks = CASE hit = {} -> @
                                  [] scope = "lap" -> @ \ (s.lap \ s.laps)
                                  [] OTHER -> {}]
             /\ store' = IF hit = {} \/ s.label = None THEN store
                         ELSE [store EXCEPT ![i][s.label] =
                                 Saved(WithoutRun(@, i, s.run, Run(i), Readings), edges, i, FALSE)]
    /\ UNCHANGED <<logs, copy, begun, copies>>

\* What is left of a survey.
Log(i) == [run |-> Run(i), marks |-> live[i].marks, label |-> live[i].logged]

\* stop.
Stop(i) ==
    /\ live[i].on
    /\ store' = [store EXCEPT ![i] = SavedTo(@, live[i], i, TRUE)]
    /\ live' = [live EXCEPT ![i] = NoSurvey]
    /\ logs' = logs \cup {Log(i)}
    /\ UNCHANGED <<copy, begun, copies, events>>

\* The process dies.
Crash(i) ==
    /\ live[i].on /\ Happens
    /\ live' = [live EXCEPT ![i] = NoSurvey]
    /\ logs' = logs \cup {Log(i)}
    /\ UNCHANGED <<store, copy, begun, copies>>

-----------------------------------------------------------------------------
(* The API.                                                                *)

\* Evidence of this installation comes to the circuit it is surveying, at or
\* past the ordinal the survey holds: what the survey reads there goes in as
\* counted already.
Overtaken(i, c, d) ==
    IF ~live[i].on \/ live[i].label # c THEN {}
    ELSE Marked("overtaken", {r \in Readings :
             d.votes[r][i].last >= live[i].run /\ Run(i) \notin d.seen[r]})

Replaced(i, c, d) ==
    store' = [store EXCEPT ![i][c] = [d EXCEPT !.flaws = @ \cup Overtaken(i, c, d)]]

\* assign_log: a run from its log, into a circuit it is not labelled with.
Assign(i) ==
    /\ Happens
    /\ \E log \in logs, c \in Circuits :
          LET doc == store[i][c]
              run == NextRun(doc, i)
              fresh == [NoBundle EXCEPT
                  !.votes = [r \in Readings |->
                      IF r \in log.marks THEN [@[r] EXCEPT ![i] = [n |-> 1, last |-> run]] ELSE @[r]],
                  !.seen = [r \in Readings |-> IF r \in log.marks THEN {log.run} ELSE {}],
                  !.flaws = Marked("again", {r \in log.marks : log.run \in doc.seen[r]})]
          IN /\ log.run[1] = i /\ log.label # c /\ log.marks # {}
             /\ logs' = (logs \ {log}) \cup {[log EXCEPT !.label = c]}
             /\ Replaced(i, c, [MergedEdges(doc, fresh) EXCEPT !.runs[i] = @ + 1])
    /\ UNCHANGED <<live, copy, begun, copies>>

\* download, or what the tracks adapter sends of it.
Export(i) ==
    /\ copies < MaxCopies /\ copies' = copies + 1
    /\ \E c \in Circuits :
          copy' \in {store[i][c], OwnEvidence(store[i][c], i)} /\ HasEdges(copy')
    /\ UNCHANGED <<store, live, logs, begun, events>>

\* import_bundle, a pull, and a restore.
Import(i) ==
    /\ HasEdges(copy)
    /\ \E c \in Circuits : Replaced(i, c, MergedDocument(store[i][c], copy))
    /\ UNCHANGED <<live, logs, copy, begun, copies, events>>

\* rename, refused for the circuit under survey, not for the one it becomes.
Rename(i) ==
    /\ Happens
    /\ \E c, d \in Circuits :
          /\ c # d /\ HasEdges(store[i][c]) /\ ~(live[i].on /\ live[i].label = c)
          /\ LET doc == MergedDocument(store[i][d], store[i][c])
             IN store' = [store EXCEPT ![i][c] = NoBundle,
                            ![i][d] = [doc EXCEPT !.flaws = @ \cup Overtaken(i, d, doc)]]
    /\ UNCHANGED <<live, logs, copy, begun, copies>>

\* delete.
Delete(i) ==
    /\ Happens
    /\ \E c \in Circuits :
          /\ store[i][c] # NoBundle /\ ~(live[i].on /\ live[i].label = c)
          /\ store' = [store EXCEPT ![i][c] = NoBundle]
    /\ UNCHANGED <<live, logs, copy, begun, copies>>

-----------------------------------------------------------------------------
Drives(i) ==
    \/ Start(i) \/ NewLap(i) \/ Autosave(i) \/ SessionRestarts(i) \/ Identified(i) \/ Named(i)
    \/ Discard(i) \/ Stop(i) \/ Crash(i) \/ \E r \in Readings : Reads(i, r)

Keeps(i) == Assign(i) \/ Export(i) \/ Import(i) \/ Rename(i) \/ Delete(i)

Next == (\E i \in Drivers : Drives(i)) \/ \E i \in Installs : Keeps(i)

Spec == Init /\ [][Next]_vars

-----------------------------------------------------------------------------
(* Properties.                                                             *)

Docs == {store[i][c] : i \in Installs, c \in Circuits} \cup {copy} \cup {live[i].edges : i \in Installs}

Vote == [n : Nat, last : Nat]

\* The shape of the state.
TypeOK ==
    /\ \A d \in Docs :
          /\ d.runs \in [Installs -> Nat] /\ d.votes \in [Readings -> [Installs -> Vote]]
          /\ DOMAIN d.seen = Readings /\ d.flaws \subseteq Readings \X Flaws
    /\ \A i \in Installs :
          /\ live[i].label \in Circuits \cup {None} /\ live[i].run \in Nat \ {0}
          /\ live[i].lap \cup live[i].laps \cup live[i].marks \subseteq Readings
    /\ {copies, events} \subseteq Nat

\* A bundle can always be given to somebody: no source has more votes than
\* runs, which is what validate_document refuses a document for.
CanBeImported ==
    \A d \in Docs : \A r \in Readings, s \in Installs :
        LET v == d.votes[r][s] IN v.n <= v.last /\ (v.last > 0 => v.n > 0)

FlawsOf(d, r) == {flaw \in Flaws : <<r, flaw>> \in d.flaws}

\* The counts are a census of independent runs: every document counts each run
\* that read a metre once, however often it was saved, resumed, exported and
\* merged, and none that was discarded.  Documents that have grown apart may
\* count less, never more.  And any of them can be imported.
Census ==
    /\ CanBeImported
    /\ \A d \in Docs : \A r \in Readings, s \in Installs :
          LET n == d.votes[r][s].n
              runs == Cardinality(Runs(d.seen[r], s))
          IN /\ FlawsOf(d, r) = {} => n = runs
             /\ FlawsOf(d, r) \subseteq {"apart", "overtaken"} => n <= runs

\* What survey.discard and track_bundle.retract_vote say of a reading taken
\* back: it is not counted, here or in any document merged with this one.
NeverInflated ==
    \A d \in Docs : \A r \in Readings, s \in Installs :
        "again" \in FlawsOf(d, r) \/ d.votes[r][s].n <= Cardinality(Runs(d.seen[r], s))

=============================================================================
