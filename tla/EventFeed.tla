------------------------------ MODULE EventFeed ------------------------------
(***************************************************************************)
(* What the live stream promises a browser (docs/internals/race-engineer.md *)
(* and service.py, _ClientStream): events arrive in the order they were    *)
(* published, and one that matters is never skipped for a reader that is   *)
(* still connected; a reader that cannot keep up is cut off instead.       *)
(***************************************************************************)
EXTENDS Naturals, SequencesExt

CONSTANTS
    Readers,
    Kinds,       \* kinds of events
    Recoverable  \* kinds a reader can fetch again

VARIABLES
    open,   \* the readers connected
    wants,  \* the kinds each asked for
    owed    \* what was published to each and has not reached it yet

vars == <<open, wants, owed>>

Init ==
    /\ open = {}
    /\ wants = [r \in Readers |-> Kinds]
    /\ owed = [r \in Readers |-> <<>>]

\* Nothing is owed to a reader that has been cut off, and it starts again
\* with every kind.
CutOff ==
    /\ open' \subseteq open
    /\ \A r \in open \ open' : owed'[r] = <<>> /\ wants'[r] = Kinds

Stays(r) == owed'[r] = owed[r] /\ wants'[r] = wants[r]

\* A reader comes, and is told how things stand.
Greet ==
    \E r \in Readers \ open :
        /\ open' = open \cup {r}
        /\ Len(owed'[r]) = 1 /\ wants'[r] = Kinds
        /\ \A q \in Readers \ {r} : Stays(q)

\* One event, owed to every reader that stays, except one that did not ask
\* for it, or could fetch it again.
Publish ==
    \E kind \in Kinds, to \in SUBSET open' :
        /\ CutOff
        /\ \A r \in open' \ to : Stays(r) /\ (kind \notin wants[r] \/ kind \in Recoverable)
        /\ \A r \in to :
              /\ owed'[r] # <<>> /\ Front(owed'[r]) = owed[r] /\ Last(owed'[r]).kind = kind
              /\ wants'[r] = wants[r]

Subscribe == wants' \in [Readers -> SUBSET Kinds] /\ UNCHANGED <<open, owed>>

Deliver(r) ==
    /\ owed[r] # <<>> /\ owed' = [owed EXCEPT ![r] = Tail(@)]
    /\ UNCHANGED <<open, wants>>

Cut == CutOff /\ \A r \in open' : Stays(r)

Next == Greet \/ Publish \/ Subscribe \/ Cut \/ \E r \in Readers : Deliver(r)

Spec == Init /\ [][Next]_vars

=============================================================================
