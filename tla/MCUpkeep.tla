------------------------------ MODULE MCUpkeep ------------------------------
(* Model checking of Backups, Upgrades and UpdateOffer, which keep the     *)
(* installation and its recordings and share no state: a behaviour is one  *)
(* of the three.                                                           *)
EXTENDS Backups, FiniteSets

CONSTANTS
    Builds, Heads, Keep, MaxEdits, MaxClock, MaxMishaps,
    Tags, Candidates, MaxChanges, MaxSetbacks

ASSUME HeadsAssumption ==
    /\ Builds \subseteq Nat /\ 1 \in Builds
    /\ Heads \in [Builds -> Nat \ {0}]
    /\ \A a, b \in Builds : a < b => Heads[a] <= Heads[b]
ASSUME KeepAssumption == Keep \in Nat \ {0}
ASSUME TagsAssumption == Tags \subseteq Nat \ {0}

TheHeads == <<1, 2, 3>>

VARIABLES
    part,
    build, stage, db, plan, copies, partial, rivals, clock, mishaps,
    published, running, checkOn, channel, quitWanted, result, next, stored, blocked,
    asking, failedNow, at, state, tag, retry, wake, folders, onQuit, request,
    failed, setup, life, changes, setbacks

ofUpgrades == <<build, stage, db, plan, copies, partial, rivals, clock, mishaps>>
ofOffer ==
    <<published, running, checkOn, channel, quitWanted, result, next, stored, blocked,
      asking, failedNow, at, state, tag, retry, wake, folders, onQuit, request,
      failed, setup, life, changes, setbacks>>
upkeepVars == <<part, vars, ofUpgrades, ofOffer>>

Upgrading == INSTANCE Upgrades
Offer == INSTANCE UpdateOffer

\* A behaviour of another part keeps the upgrades at one of their states.
UpkeepInit ==
    /\ part \in {"backups", "upgrades", "offer"}
    /\ Init /\ Upgrading!Init /\ Offer!Init
    /\ part # "upgrades" => build = 1 /\ db.rev = Heads[1]

OfBackups(A) == part = "backups" /\ A /\ UNCHANGED <<part, ofUpgrades, ofOffer>>
OfUpgrades(A) == part = "upgrades" /\ A /\ UNCHANGED <<part, vars, ofOffer>>
OfOffer(A) == part = "offer" /\ A /\ UNCHANGED <<part, vars, ofUpgrades>>

UpkeepNext == OfBackups(Next) \/ OfUpgrades(Upgrading!Next) \/ OfOffer(Offer!Next)

\* The fairness of either, about the behaviours that are its own.
UpkeepFairness ==
    /\ WF_upkeepVars(OfBackups(Turns))
    /\ \A j \in Jobs : WF_upkeepVars(OfBackups(Works(j)))
    /\ WF_upkeepVars(OfOffer(Offer!Checks)) /\ WF_upkeepVars(OfOffer(Offer!Downloads))
    /\ WF_upkeepVars(OfOffer(Offer!Handover)) /\ WF_upkeepVars(OfOffer(Offer!Setup))
    /\ WF_upkeepVars(OfOffer(Offer!DayPasses))

UpkeepSpec == UpkeepInit /\ [][UpkeepNext]_upkeepVars /\ UpkeepFairness

\* What each promises; a behaviour of the others owes it nothing.
WayBack == Upgrading!WayBack
QuitInstallsTheOffer == Offer!QuitInstallsTheOffer
GetsReady == Offer!GetsReady
=============================================================================
