---------------------------- MODULE CalloutGate ----------------------------
(* Whether the driver hears what a detector asks for: the categories,      *)
(* cooldowns, severities and dedupe keys of race_engineer/manager.py       *)
(* (_emit, _prune). Times are the packet clock's, in ticks; keys are of    *)
(* one session, whose start forgets them all.                              *)
EXTENDS Integers, FiniteSetsExt, SequencesExt

CONSTANTS
    Cooldown,  \* SPECS: of each type of callout, 0: none
    Retention, \* DEDUPE_RETENTION_S
    Crowd      \* how many keys before the old ones are dropped

\* The emitted keys with their last time and highest severity.
NewGate == [last |-> <<>>, worst |-> <<>>]

Request(type, key, severity) == [type |-> type, key |-> key, severity |-> severity]

Severity(gate, key) == IF key \in DOMAIN gate.worst THEN gate.worst[key] ELSE 0

\* Mutant of Passes: a worse condition waits out the cooldown too.
PassesCooled(gate, r, now) ==
    \/ r.key \notin DOMAIN gate.last
    \/ Cooldown[r.type] > 0 /\ now - gate.last[r.key] >= Cooldown[r.type]

\* A repeat is said when it is worse than ever, or after its cooldown; one
\* without a cooldown is a duplicate.
Passes(gate, r, now) ==
    \/ r.key \notin DOMAIN gate.last
    \/ r.severity > Severity(gate, r.key)
    \/ Cooldown[r.type] > 0 /\ now - gate.last[r.key] >= Cooldown[r.type]

\* _prune.
Pruned(gate, now) ==
    LET kept == {k \in DOMAIN gate.last : now - gate.last[k] <= Retention}
    IN IF Cardinality(DOMAIN gate.last) < Crowd THEN gate
       ELSE [last |-> Restrict(gate.last, kept), worst |-> Restrict(gate.worst, kept)]

Entered(gate, r, now) ==
    Pruned([last |-> [k \in DOMAIN gate.last \cup {r.key} |->
                         IF k = r.key THEN now ELSE gate.last[k]],
            worst |-> [k \in DOMAIN gate.worst \cup {r.key} |->
                          IF k = r.key THEN Max({Severity(gate, k), r.severity})
                          ELSE gate.worst[k]]], now)

\* _emit for each request in turn, `on` the types whose category is spoken:
\* the gate it leaves and the requests that are said.
Judged(gate, requests, now, on) ==
    FoldLeft(LAMBDA a, r :
                 IF r.type \in on /\ Passes(a.gate, r, now)
                 THEN [gate |-> Entered(a.gate, r, now), said |-> Append(a.said, r)]
                 ELSE a,
             [gate |-> gate, said |-> <<>>], requests)

=============================================================================
