---------------------------- MODULE MCVoiceQueue ----------------------------
(* Model checking of VoiceQueue: an alarm that interrupts, a warning about *)
(* the same thing, and a gap.                                              *)
EXTENDS Integers, TLC

CONSTANTS
    alarm, fuel, gap,
    Callouts, Priority, Interrupts, DedupeKey, None, Test, MaxQueue, MaxFailures,
    Fallback, MaxArrivals, MaxPosted, MaxDisturbances

ASSUME CalloutsAssumption ==
    /\ Priority \in [Callouts -> Nat] /\ DOMAIN DedupeKey = Callouts
    /\ Interrupts \subseteq Callouts /\ {None, Test} \cap Callouts = {}
ASSUME LimitsAssumption ==
    /\ {MaxQueue, MaxFailures} \subseteq Nat \ {0} /\ Fallback \in BOOLEAN
    /\ {MaxArrivals, MaxPosted, MaxDisturbances} \subseteq Nat

PriorityOf == alarm :> 90 @@ fuel :> 75 @@ gap :> 60
KeyOf == alarm :> "fuel" @@ fuel :> "fuel" @@ gap :> "gap"

VARIABLES tab, enabled, muted, strayed, arrivals, disturbances

Speech == INSTANCE VoiceQueue WITH MaxFaults <- MaxDisturbances, faults <- disturbances

SpeechSpec == Speech!Spec

Answered == Speech!Answered
Moves == Speech!Moves
=============================================================================
