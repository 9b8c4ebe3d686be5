----------------------------- MODULE BrowserProofs -----------------------------
(***************************************************************************)
(* What a browser gets from the logger, and what its tab says aloud.       *)
(*                                                                         *)
(* First, for any number of browsers, sockets, events and faults: what is  *)
(* owed to a browser is exactly what its sender has in hand and its queue  *)
(* holds, a socket that is out of the service's hands is owed nothing, and *)
(* so the service implements EventFeed.  Then the speech queue of a tab:   *)
(* every callout handed to the engine is being spoken or was answered.     *)
(***************************************************************************)
EXTENDS ClientStreams, MCVoiceQueue, SequenceTheorems, TLAPS

Events == [kind : Kinds, n : Nat]

Clients ==
    [queue : Seq(Events), frame : BOOLEAN, wakeup : BOOLEAN,
     at : {"waiting", "sending", "framing", "ended"}, sending : Seq(Events),
     wants : SUBSET Kinds, ident : Pages \cup {Nobody}]

\* The sender has one event in hand while it sends one, and none otherwise.
InHand(c) == IF c.at = "sending" THEN Len(c.sending) = 1 ELSE c.sending = <<>>

\* A socket s, its client c and what it is owed, o: nothing is owed that is not
\* in hand or queued, and nothing is in hand or queued that is not owed.  One
\* the service has in _clients is being served; of another no more is kept than
\* the page it is from.
Kept(s, c, o, in, e) ==
    /\ c \in Clients /\ InHand(c)
    /\ Len(c.queue) <= QueueSize
    /\ c.ident \in {Nobody, Owner[s]}
    /\ o = c.sending \o c.queue
    /\ in => e = "receiving" /\ c.at # "ended"
    /\ ~in => c = [NoClient EXCEPT !.ident = c.ident]

Ends == {"none", "receiving", "leaving", "done"}
Links == {"none", "up", "stalled", "lost", "closed"}

Typed ==
    /\ tracked \subseteq Sockets /\ closing \subseteq Sockets
    /\ DOMAIN client = Sockets /\ DOMAIN owed = Sockets
    /\ client = [s \in Sockets |-> client[s]] /\ owed = [s \in Sockets |-> owed[s]]
    /\ endpoint \in [Sockets -> Ends] /\ link \in [Sockets -> Links]
    /\ active \in Pages \cup {Nobody} /\ last \in Pages \cup {Nobody}
    /\ published \in Nat /\ faults \in Nat

IInv ==
    /\ Typed
    /\ \A s \in Sockets : Kept(s, client[s], owed[s], s \in tracked, endpoint[s])
-----------------------------------------------------------------------------
(* Sequences of events.                                                    *)

LEMMA AppendEnds ==
    ASSUME NEW S, NEW q \in Seq(S), NEW x \in S
    PROVE  /\ Append(q, x) \in Seq(S) /\ Len(Append(q, x)) = Len(q) + 1
           /\ Append(q, x) # <<>>
           /\ Front(Append(q, x)) = q /\ Last(Append(q, x)) = x
<1> DEFINE z == Append(q, x)
<1>1. /\ z \in Seq(S) /\ Len(z) = Len(q) + 1 /\ z[Len(q) + 1] = x
      /\ \A i \in 1 .. Len(q) : z[i] = q[i]
  BY AppendProperties
<1>2. Len(q) \in Nat BY LenProperties
<1> HIDE DEF z
<1>3. \A i \in 1 .. Len(q) : z[i] \in S BY <1>1, ElementOfSeq
<1>4. /\ SubSeq(z, 1, Len(q)) \in Seq(S) /\ Len(SubSeq(z, 1, Len(q))) = Len(q)
      /\ \A i \in 1 .. Len(q) : SubSeq(z, 1, Len(q))[i] = z[i]
  <2>1. 1 \in Int /\ Len(q) \in Int BY <1>2
  <2>2. /\ SubSeq(z, 1, Len(q)) \in Seq(S)
        /\ Len(SubSeq(z, 1, Len(q))) = IF 1 <= Len(q) THEN Len(q) - 1 + 1 ELSE 0
        /\ \A i \in 1 .. Len(q) - 1 + 1 : SubSeq(z, 1, Len(q))[i] = z[1 + i - 1]
    BY <1>3, <2>1, SubSeqProperties
  <2> QED BY <1>2, <2>2
<1>5. SubSeq(z, 1, Len(q)) = q BY <1>1, <1>4, SeqEqual
<1>6. Len(z) - 1 = Len(q) BY <1>1, <1>2
<1>7. Front(z) = q BY <1>5, <1>6 DEF Front
<1>8. Last(z) = x BY <1>1 DEF Last
<1>9. z # <<>> BY <1>1, <1>2, EmptySeq
<1> QED BY <1>1, <1>7, <1>8, <1>9 DEF z

\* What is queued goes behind what is in hand.
LEMMA AppendBehind ==
    ASSUME NEW S, NEW p \in Seq(S), NEW q \in Seq(S), NEW x \in S
    PROVE  p \o Append(q, x) = Append(p \o q, x)
<1>1. <<x>> \in Seq(S) /\ p \o q \in Seq(S) BY ConcatProperties
<1>2. Append(q, x) = q \o <<x>> /\ Append(p \o q, x) = (p \o q) \o <<x>>
  BY <1>1, AppendIsConcat
<1> QED BY <1>1, <1>2, ConcatAssociative

\* One in hand is the next one owed, and what is queued comes after it.
LEMMA OneInHand ==
    ASSUME NEW S, NEW p \in Seq(S), NEW q \in Seq(S), Len(p) = 1
    PROVE  /\ p[1] \in S /\ p \o q \in Seq(S) /\ p \o q # <<>>
           /\ Head(p \o q) = p[1] /\ Tail(p \o q) = q
<1>1. Len(q) \in Nat BY LenProperties
<1>2. /\ p \o q \in Seq(S) /\ Len(p \o q) = 1 + Len(q)
      /\ \A i \in 1 .. 1 + Len(q) : (p \o q)[i] = IF i <= 1 THEN p[i] ELSE q[i - 1]
  <2>1. /\ p \o q \in Seq(S) /\ Len(p \o q) = Len(p) + Len(q)
        /\ \A i \in 1 .. Len(p) + Len(q) :
              (p \o q)[i] = IF i <= Len(p) THEN p[i] ELSE q[i - Len(p)]
    BY ConcatProperties
  <2> QED BY <2>1
<1>3. p[1] \in S /\ p \o q # <<>> BY <1>1, <1>2, EmptySeq, ElementOfSeq
<1>4. (p \o q)[1] = p[1] BY <1>1, <1>2
<1>5. Head(p \o q) = p[1] BY <1>2, <1>3, <1>4
<1>6. /\ Tail(p \o q) \in Seq(S) /\ Len(Tail(p \o q)) = Len(q)
      /\ \A i \in 1 .. Len(q) : Tail(p \o q)[i] = (p \o q)[i + 1]
  <2>1. /\ Tail(p \o q) \in Seq(S) /\ Len(Tail(p \o q)) = Len(p \o q) - 1
        /\ \A i \in 1 .. Len(Tail(p \o q)) : Tail(p \o q)[i] = (p \o q)[i + 1]
    BY <1>2, <1>3, HeadTailProperties
  <2> QED BY <1>1, <1>2, <2>1
<1>7. \A i \in 1 .. Len(q) : (p \o q)[i + 1] = q[i]
  <2>1. ASSUME NEW i \in 1 .. Len(q) PROVE (p \o q)[i + 1] = q[i]
    <3>1. i + 1 \in 1 .. 1 + Len(q) /\ ~(i + 1 <= 1) /\ (i + 1) - 1 = i BY <1>1
    <3> QED BY <1>2, <3>1
  <2> QED BY <2>1
<1>8. Tail(p \o q) = q BY <1>6, <1>7, SeqEqual
<1> QED BY <1>2, <1>3, <1>5, <1>8

\* The next event taken in hand, nothing is lost of the queue.
LEMMA TakenInHand ==
    ASSUME NEW S, NEW q \in Seq(S), q # <<>>
    PROVE  /\ Head(q) \in S /\ Tail(q) \in Seq(S) /\ Len(Tail(q)) = Len(q) - 1
           /\ <<Head(q)>> \in Seq(S) /\ <<Head(q)>> \o Tail(q) = q
<1>1. /\ Head(q) \in S /\ Tail(q) \in Seq(S) /\ Len(Tail(q)) = Len(q) - 1
      /\ \A i \in 1 .. Len(Tail(q)) : Tail(q)[i] = q[i + 1]
  BY HeadTailProperties
<1>2. Len(q) \in Nat \ {0} BY EmptySeq
<1> DEFINE h == <<Head(q)>>
           z == h \o Tail(q)
<1>3. h \in Seq(S) /\ Len(h) = 1 /\ h[1] = q[1] BY <1>1
<1> HIDE DEF h
<1>4. /\ z \in Seq(S) /\ Len(z) = 1 + Len(Tail(q))
      /\ \A i \in 1 .. 1 + Len(Tail(q)) : z[i] = IF i <= 1 THEN h[i] ELSE Tail(q)[i - 1]
  <2>1. /\ z \in Seq(S) /\ Len(z) = Len(h) + Len(Tail(q))
        /\ \A i \in 1 .. Len(h) + Len(Tail(q)) :
              z[i] = IF i <= Len(h) THEN h[i] ELSE Tail(q)[i - Len(h)]
    <3>1. h \in Seq(S) /\ Tail(q) \in Seq(S) BY <1>1, <1>3
    <3> QED BY <3>1, ConcatProperties
  <2> HIDE DEF z
  <2> QED BY <1>3, <2>1
<1> HIDE DEF z
<1>5. ASSUME NEW i \in 1 .. Len(z) PROVE z[i] = q[i]
  <2>1. CASE i = 1 BY <1>1, <1>2, <1>3, <1>4, <2>1
  <2>2. CASE i # 1
    <3>1. i - 1 \in 1 .. Len(Tail(q)) /\ ~(i <= 1) /\ (i - 1) + 1 = i
          /\ i \in 1 .. 1 + Len(Tail(q))
      BY <1>1, <1>2, <1>4, <2>2
    <3> QED BY <1>1, <1>4, <3>1
  <2> QED BY <2>1, <2>2
<1>6. Len(z) = Len(q) BY <1>1, <1>2, <1>4
<1>7. z = q BY <1>4, <1>5, <1>6, SeqEqual
<1> QED BY <1>1, <1>3, <1>7 DEF h, z
-----------------------------------------------------------------------------
(* One client.                                                             *)

LEMMA NoClientKept ==
    ASSUME NEW s \in Sockets, NEW e, NEW i \in {Nobody, Owner[s]}
    PROVE  /\ Kept(s, [NoClient EXCEPT !.ident = i], <<>>, FALSE, e)
           /\ Kept(s, NoClient, <<>>, FALSE, e)
           /\ Kinds \cup AlwaysSent = Kinds
<1>1. i \in Pages \cup {Nobody} BY OwnerAssumption
<1>2. <<>> \in Seq(Events) /\ Len(<<>>) = 0 /\ <<>> \o <<>> = <<>> BY EmptySeq, ConcatEmptySeq
<1> DEFINE c == [NoClient EXCEPT !.ident = i]
<1>3. /\ c.queue = <<>> /\ c.frame = FALSE /\ c.wakeup = FALSE /\ c.at = "ended"
      /\ c.sending = <<>> /\ c.wants = Kinds /\ c.ident = i
      /\ NoClient.ident = Nobody /\ c \in Clients
  BY <1>1, <1>2 DEF NoClient, Clients
<1>4. NoClient \in Clients /\ NoClient = [NoClient EXCEPT !.ident = NoClient.ident]
  BY <1>2 DEF NoClient, Clients
<1>5. c = [NoClient EXCEPT !.ident = c.ident] BY <1>3
<1>6. QueueSize \in Nat /\ 0 <= QueueSize BY BoundsAssumption
<1>7. Kept(s, c, <<>>, FALSE, e)
  <2> HIDE DEF c
  <2> QED BY <1>2, <1>3, <1>5, <1>6 DEF Kept, InHand
<1>8. Kept(s, NoClient, <<>>, FALSE, e)
  BY <1>2, <1>4, <1>6 DEF Kept, InHand, NoClient
<1>9. Kinds \cup AlwaysSent = Kinds BY DEF Kinds, AlwaysSent
<1> QED BY <1>7, <1>8, <1>9 DEF c

LEMMA QueuedKept ==
    ASSUME NEW s \in Sockets, NEW c, NEW o, NEW x \in Events,
           Kept(s, c, o, TRUE, "receiving"), Len(c.queue) < QueueSize
    PROVE  /\ Kept(s, Queued(c, x), Append(o, x), TRUE, "receiving")
           /\ Queued(c, x).wants = c.wants /\ Queued(c, x).ident = c.ident
<1> DEFINE d == Queued(c, x)
<1>1. c \in Clients /\ c.queue \in Seq(Events) /\ c.sending \in Seq(Events) BY DEF Kept, Clients
<1>2. Append(c.queue, x) \in Seq(Events) /\ Len(Append(c.queue, x)) = Len(c.queue) + 1
  BY <1>1, AppendEnds
<1>3. /\ d \in Clients /\ d.queue = Append(c.queue, x) /\ d.sending = c.sending
      /\ d.at = c.at /\ d.wants = c.wants /\ d.ident = c.ident
  BY <1>1, <1>2 DEF Queued, Clients
<1>4. c.sending \o Append(c.queue, x) = Append(o, x)
  <2>1. c.sending \o Append(c.queue, x) = Append(c.sending \o c.queue, x)
    <3> DEFINE p == c.sending
               q == c.queue
    <3>1. p \in Seq(Events) /\ q \in Seq(Events) BY <1>1
    <3> HIDE DEF p, q
    <3>2. p \o Append(q, x) = Append(p \o q, x) BY <3>1, AppendBehind
    <3> QED BY <3>2 DEF p, q
  <2> QED BY <2>1 DEF Kept
<1>5. Len(c.queue) + 1 <= QueueSize
  <2>1. Len(c.queue) \in Nat BY <1>1, LenProperties
  <2> QED BY <2>1, BoundsAssumption
<1> HIDE DEF d
<1>6. Kept(s, d, Append(o, x), TRUE, "receiving")
  BY <1>2, <1>3, <1>4, <1>5 DEF Kept, InHand
<1> QED BY <1>3, <1>6 DEF d

\* What else befalls a client leaves what it holds as it is.
LEMMA OtherwiseKept ==
    ASSUME NEW s \in Sockets, NEW c, NEW o, NEW in \in BOOLEAN, NEW e,
           Kept(s, c, o, in, e)
    PROVE  /\ in => Kept(s, Framed(c), o, in, e) /\ Framed(c).wants = c.wants
           /\ in => \A kinds \in SUBSET Kinds : Kept(s, [c EXCEPT !.wants = kinds], o, in, e)
           /\ /\ Kept(s, [c EXCEPT !.ident = Owner[s]], o, in, e)
              /\ [c EXCEPT !.ident = Owner[s]].wants = c.wants
              /\ [c EXCEPT !.ident = Owner[s]].queue = c.queue
<1>1. c \in Clients BY DEF Kept
<1>2. Owner[s] \in Pages BY OwnerAssumption
<1>3. ASSUME in PROVE Kept(s, Framed(c), o, in, e) /\ Framed(c).wants = c.wants
  <2> DEFINE d == Framed(c)
  <2>1. /\ d \in Clients /\ d.queue = c.queue /\ d.sending = c.sending /\ d.at = c.at
        /\ d.wants = c.wants /\ d.ident = c.ident
    BY <1>1 DEF Framed, Clients
  <2> HIDE DEF d
  <2>2. Kept(s, d, o, in, e) BY <1>3, <2>1 DEF Kept, InHand
  <2> QED BY <2>1, <2>2 DEF d
<1>4. ASSUME in, NEW kinds \in SUBSET Kinds
      PROVE  Kept(s, [c EXCEPT !.wants = kinds], o, in, e)
  <2> DEFINE d == [c EXCEPT !.wants = kinds]
  <2>1. /\ d \in Clients /\ d.queue = c.queue /\ d.sending = c.sending /\ d.at = c.at
        /\ d.ident = c.ident
    BY <1>1 DEF Clients
  <2> HIDE DEF d
  <2>2. Kept(s, d, o, in, e) BY <1>4, <2>1 DEF Kept, InHand
  <2> QED BY <2>2 DEF d
<1>5. /\ Kept(s, [c EXCEPT !.ident = Owner[s]], o, in, e)
      /\ [c EXCEPT !.ident = Owner[s]].wants = c.wants
      /\ [c EXCEPT !.ident = Owner[s]].queue = c.queue
  <2> DEFINE d == [c EXCEPT !.ident = Owner[s]]
  <2>1. /\ d \in Clients /\ d.queue = c.queue /\ d.sending = c.sending /\ d.at = c.at
        /\ d.wants = c.wants /\ d.ident = Owner[s]
    BY <1>1, <1>2 DEF Clients
  <2>2. ~in => d = [NoClient EXCEPT !.ident = Owner[s]] BY DEF Kept, NoClient
  <2> HIDE DEF d
  <2>3. Kept(s, d, o, in, e) BY <2>1, <2>2 DEF Kept, InHand
  <2> QED BY <2>1, <2>3 DEF d
<1> QED BY <1>3, <1>4, <1>5

\* The loop comes round with nothing in hand: what is queued is still owed.
LEMMA DrainedKept ==
    ASSUME NEW s \in Sockets, NEW c \in Clients, Len(c.queue) <= QueueSize,
           c.ident \in {Nobody, Owner[s]}
    PROVE  Kept(s, Drained(c), c.queue, TRUE, "receiving") /\ Drained(c).wants = c.wants
<1> DEFINE d == Drained(c)
<1>1. c.queue \in Seq(Events) /\ c.frame \in BOOLEAN BY DEF Clients
<1>2. CASE c.queue # <<>>
  <2>1. /\ <<Head(c.queue)>> \in Seq(Events) /\ Tail(c.queue) \in Seq(Events)
        /\ <<Head(c.queue)>> \o Tail(c.queue) = c.queue
        /\ Len(Tail(c.queue)) = Len(c.queue) - 1
    BY <1>1, <1>2, TakenInHand
  <2>2. /\ d \in Clients /\ d.queue = Tail(c.queue) /\ d.sending = <<Head(c.queue)>>
        /\ d.at = "sending" /\ d.wants = c.wants /\ d.ident = c.ident
    BY <1>2, <2>1 DEF Drained, Clients
  <2>3. Len(d.sending) = 1 /\ Len(d.queue) <= QueueSize
    <3>1. Len(c.queue) \in Nat BY <1>1, LenProperties
    <3> QED BY <2>1, <2>2, <3>1, BoundsAssumption
  <2> HIDE DEF d
  <2>4. Kept(s, d, c.queue, TRUE, "receiving") BY <2>1, <2>2, <2>3 DEF Kept, InHand
  <2> QED BY <2>2, <2>4 DEF d
<1>3. CASE c.queue = <<>>
  <2>1. <<>> \in Seq(Events) /\ <<>> \o <<>> = <<>> BY EmptySeq, ConcatEmptySeq
  <2>2. /\ d \in Clients /\ d.queue = <<>> /\ d.sending = <<>>
        /\ d.at \in {"framing", "waiting"} /\ d.wants = c.wants /\ d.ident = c.ident
    BY <1>1, <1>3, <2>1 DEF Drained, Clients
  <2> HIDE DEF d
  <2>3. Kept(s, d, c.queue, TRUE, "receiving") BY <1>3, <2>1, <2>2 DEF Kept, InHand
  <2> QED BY <2>2, <2>3 DEF d
<1> QED BY <1>2, <1>3
-----------------------------------------------------------------------------
(* Publishing.                                                             *)

\* An event goes to all who asked for it and have room; whoever asked and has
\* none is out, unless it can fetch the event again.  That is the feed's step.
LEMMA PublishedKept ==
    ASSUME Typed, NEW kind \in Kinds, NEW clients, Published(kind, clients),
           \A s \in Sockets : Kept(s, clients[s], owed[s], s \in tracked, endpoint'[s]),
           \A s \in Sockets : clients[s].wants = client[s].wants,
           \A s \in tracked : clients[s].queue = client[s].queue
    PROVE  /\ published' \in Nat /\ tracked' \subseteq Sockets /\ closing' \subseteq Sockets
           /\ client' = [s \in Sockets |-> client'[s]] /\ owed' = [s \in Sockets |-> owed'[s]]
           /\ \A s \in Sockets : Kept(s, client'[s], owed'[s], s \in tracked', endpoint'[s])
           /\ Feed!Publish
<1> DEFINE event == [kind |-> kind, n |-> published + 1]
<1>1. event \in Events /\ event.kind = kind /\ published' \in Nat
  BY DEF Events, Published, Typed
<1> HIDE DEF event
<1>2. Reached(kind) \subseteq tracked /\ Dropped(kind) \subseteq tracked
      /\ Reached(kind) \cap Dropped(kind) = {}
  BY DEF Reached, Dropped
<1>3. tracked' = tracked \ Dropped(kind) /\ tracked' \subseteq Sockets /\ closing' \subseteq Sockets
      /\ tracked \subseteq Sockets
  BY <1>2 DEF Published, ToClose, Typed
<1>4. /\ client' = [s \in Sockets |->
            CASE s \in Reached(kind) -> Queued(clients[s], event)
              [] s \in Dropped(kind) -> NoClient
              [] OTHER -> clients[s]]
      /\ owed' = [s \in Sockets |->
            CASE s \in Reached(kind) -> Append(owed[s], event)
              [] s \in Dropped(kind) -> <<>>
              [] OTHER -> owed[s]]
  BY DEF Published, event
<1>5. client' = [s \in Sockets |-> client'[s]] /\ owed' = [s \in Sockets |-> owed'[s]]
  BY <1>4
<1>6. ASSUME NEW s \in Reached(kind)
      PROVE  /\ s \in tracked' /\ Kept(s, client'[s], owed'[s], TRUE, endpoint'[s])
             /\ client'[s].wants = client[s].wants
             /\ owed[s] \in Seq(Events) /\ owed'[s] = Append(owed[s], event)
  <2>1. s \in Sockets /\ s \in tracked /\ s \in tracked' BY <1>2, <1>3
  <2>2. Kept(s, clients[s], owed[s], TRUE, "receiving") /\ endpoint'[s] = "receiving"
    <3>1. Kept(s, clients[s], owed[s], TRUE, endpoint'[s]) BY <2>1
    <3> QED BY <3>1 DEF Kept
  <2>3. client'[s] = Queued(clients[s], event) /\ owed'[s] = Append(owed[s], event)
    <3>1. s \notin Dropped(kind) BY <1>2
    <3> QED BY <1>4, <2>1, <3>1
  <2>4. Len(clients[s].queue) < QueueSize
    <3>1. clients[s].queue \in Seq(Events) BY <2>2 DEF Kept, Clients
    <3>2. Len(clients[s].queue) \in Nat BY <3>1, LenProperties
    <3>3. ~(Len(clients[s].queue) >= QueueSize) BY <2>1 DEF Reached, Full
    <3> QED BY <3>2, <3>3, BoundsAssumption
  <2>5. /\ Kept(s, client'[s], owed'[s], TRUE, "receiving")
        /\ client'[s].wants = clients[s].wants
    <3>1. /\ Kept(s, Queued(clients[s], event), Append(owed[s], event), TRUE, "receiving")
          /\ Queued(clients[s], event).wants = clients[s].wants
      BY <1>1, <2>1, <2>2, <2>4, QueuedKept
    <3> QED BY <2>3, <3>1
  <2>6. owed[s] \in Seq(Events)
    BY <2>2, ConcatProperties DEF Kept, Clients
  <2> QED BY <2>1, <2>2, <2>3, <2>5, <2>6
<1>7. ASSUME NEW s \in Dropped(kind)
      PROVE  /\ s \notin tracked' /\ Kept(s, client'[s], owed'[s], FALSE, endpoint'[s])
             /\ owed'[s] = <<>> /\ client'[s].wants \cup AlwaysSent = Kinds
  <2>1. s \in Sockets /\ s \notin Reached(kind) /\ s \notin tracked' BY <1>2, <1>3
  <2>2. client'[s] = NoClient /\ owed'[s] = <<>> BY <1>4, <2>1
  <2>3. Kept(s, NoClient, <<>>, FALSE, endpoint'[s]) /\ Kinds \cup AlwaysSent = Kinds
    BY <2>1, NoClientKept
  <2>4. NoClient.wants = Kinds BY DEF NoClient
  <2> QED BY <2>1, <2>2, <2>3, <2>4
<1>8. ASSUME NEW s \in Sockets, s \notin Reached(kind), s \notin Dropped(kind)
      PROVE  /\ (s \in tracked') = (s \in tracked)
             /\ Kept(s, client'[s], owed'[s], s \in tracked', endpoint'[s])
             /\ owed'[s] = owed[s] /\ client'[s].wants = client[s].wants
  <2>1. (s \in tracked') = (s \in tracked) BY <1>3, <1>8
  <2>2. client'[s] = clients[s] /\ owed'[s] = owed[s] BY <1>4, <1>8
  <2> QED BY <2>1, <2>2
<1>9. ASSUME NEW s \in Sockets
      PROVE  Kept(s, client'[s], owed'[s], s \in tracked', endpoint'[s])
  <2>1. CASE s \in Reached(kind)
    <3>1. (s \in tracked') = TRUE BY <1>6, <2>1
    <3> QED BY <1>6, <2>1, <3>1
  <2>2. CASE s \in Dropped(kind)
    <3>1. s \notin tracked' BY <1>7, <2>2
    <3>2. (s \in tracked') = FALSE BY <3>1
    <3>3. Kept(s, client'[s], owed'[s], FALSE, endpoint'[s]) BY <1>7, <2>2
    <3> QED BY <3>2, <3>3
  <2> QED BY <1>8, <2>1, <2>2
<1>10. Feed!Publish
  <2> DEFINE wants == [s \in Sockets |-> client[s].wants \cup AlwaysSent]
  <2>1. wants' = [s \in Sockets |-> client'[s].wants \cup AlwaysSent] OBVIOUS
  <2>2. \A s \in Sockets : /\ wants[s] = client[s].wants \cup AlwaysSent
                           /\ wants'[s] = client'[s].wants \cup AlwaysSent
    BY <2>1
  <2> HIDE DEF wants
  <2>3. Reached(kind) \in SUBSET tracked' BY <1>2, <1>3
  <2>4. tracked' \subseteq tracked BY <1>3
  <2>5. \A s \in tracked \ tracked' : owed'[s] = <<>> /\ wants'[s] = Kinds
    BY <1>2, <1>3, <1>7, <2>2
  <2>6. ASSUME NEW s \in tracked' \ Reached(kind)
        PROVE  /\ owed'[s] = owed[s] /\ wants'[s] = wants[s]
               /\ kind \notin wants[s] \/ kind \in {"survey"}
    <3>1. s \in Sockets /\ s \in tracked /\ s \notin Dropped(kind) BY <1>3
    <3>2. owed'[s] = owed[s] /\ wants'[s] = wants[s] BY <1>8, <2>2, <3>1
    <3>3. kind \notin wants[s] \/ kind = "survey" BY <2>2, <3>1 DEF Reached, Dropped, Asked
    <3> QED BY <3>2, <3>3
  <2>7. ASSUME NEW s \in Reached(kind)
        PROVE  /\ owed'[s] # <<>> /\ Front(owed'[s]) = owed[s] /\ Last(owed'[s]).kind = kind
               /\ wants'[s] = wants[s]
    <3>1. s \in Sockets BY <1>2, <1>3
    <3>2. wants'[s] = wants[s] BY <1>6, <2>2, <3>1
    <3>3. owed[s] \in Seq(Events) /\ owed'[s] = Append(owed[s], event) BY <1>6
    <3>4. /\ Append(owed[s], event) # <<>> /\ Front(Append(owed[s], event)) = owed[s]
          /\ Last(Append(owed[s], event)) = event
      BY <1>1, <3>3, AppendEnds
    <3> QED BY <1>1, <3>2, <3>3, <3>4
  <2> QED BY <2>3, <2>4, <2>5, <2>6, <2>7
       DEF Feed!Publish, Feed!CutOff, Feed!Stays, wants, Front, Last, Feed!Front, Feed!Last
<1> QED BY <1>1, <1>3, <1>5, <1>9, <1>10
-----------------------------------------------------------------------------
(* The other steps, one socket at a time.                                  *)

\* What a step owes: the invariant, and a step of the feed or none.
Step == IInv' /\ [Feed!Next]_(Feed!vars)

\* A step of the socket s leaves the others alone.
Alone(s) ==
    \A t \in Sockets \ {s} :
        /\ client'[t] = client[t] /\ owed'[t] = owed[t] /\ endpoint'[t] = endpoint[t]
        /\ (t \in tracked') = (t \in tracked)

LEMMA OthersKept ==
    ASSUME IInv, NEW s \in Sockets, Alone(s), Typed',
           Kept(s, client'[s], owed'[s], s \in tracked', endpoint'[s])
    PROVE  IInv'
<1>1. ASSUME NEW t \in Sockets
      PROVE  Kept(t, client'[t], owed'[t], t \in tracked', endpoint'[t])
  <2>1. CASE t = s BY <2>1
  <2>2. CASE t # s
    <3>1. Kept(t, client[t], owed[t], t \in tracked, endpoint[t]) BY DEF IInv
    <3>2. /\ client'[t] = client[t] /\ owed'[t] = owed[t] /\ endpoint'[t] = endpoint[t]
          /\ (t \in tracked') = (t \in tracked)
      BY <2>2 DEF Alone
    <3> QED BY <3>1, <3>2
  <2> QED BY <2>1, <2>2
<1> QED BY <1>1 DEF IInv

\* The feed sees nothing.
LEMMA Unseen ==
    ASSUME UNCHANGED <<tracked, owed>>,
           \A s \in Sockets : client'[s].wants = client[s].wants
    PROVE  [Feed!Next]_(Feed!vars)
<1>1. [s \in Sockets |-> client'[s].wants \cup AlwaysSent]
        = [s \in Sockets |-> client[s].wants \cup AlwaysSent]
  OBVIOUS
<1> QED BY <1>1 DEF Feed!vars

\* The feed sees a reader cut off, if it was one.
LEMMA SeenCut ==
    ASSUME IInv, NEW s \in Sockets, Alone(s), tracked' = tracked \ {s},
           owed'[s] = <<>>, client'[s].wants = Kinds
    PROVE  [Feed!Next]_(Feed!vars)
<1> DEFINE wants == [t \in Sockets |-> client[t].wants \cup AlwaysSent]
<1>1. wants' = [t \in Sockets |-> client'[t].wants \cup AlwaysSent] OBVIOUS
<1>2. \A t \in Sockets : /\ wants[t] = client[t].wants \cup AlwaysSent
                         /\ wants'[t] = client'[t].wants \cup AlwaysSent
  BY <1>1
<1> HIDE DEF wants
<1>3. wants'[s] = Kinds
  <2>1. Kinds \cup AlwaysSent = Kinds BY DEF Kinds, AlwaysSent
  <2> QED BY <1>2, <2>1
<1>4. \A t \in tracked' : owed'[t] = owed[t] /\ wants'[t] = wants[t]
  <2>1. ASSUME NEW t \in tracked' PROVE owed'[t] = owed[t] /\ wants'[t] = wants[t]
    <3>1. t \in Sockets \ {s} BY DEF IInv, Typed
    <3>2. owed'[t] = owed[t] /\ client'[t] = client[t] BY <3>1 DEF Alone
    <3> QED BY <1>2, <3>1, <3>2
  <2> QED BY <2>1
<1>5. tracked' \subseteq tracked /\ \A t \in tracked \ tracked' : t = s OBVIOUS
<1>6. Feed!Cut BY <1>3, <1>4, <1>5 DEF Feed!Cut, Feed!CutOff, Feed!Stays, wants
<1> QED BY <1>6 DEF Feed!Next

LEMMA PublishKept ==
    ASSUME IInv, NEW kind \in {"lap", "survey"}, Publish(kind)
    PROVE  Step
<1>1. kind \in Kinds BY DEF Kinds
<1>2. UNCHANGED <<endpoint, link, voice, faults>> /\ Published(kind, client) BY DEF Publish
<1>3. \A s \in Sockets : Kept(s, client[s], owed[s], s \in tracked, endpoint'[s])
  BY <1>2 DEF IInv
<1>4. /\ published' \in Nat /\ tracked' \subseteq Sockets /\ closing' \subseteq Sockets
      /\ client' = [s \in Sockets |-> client'[s]] /\ owed' = [s \in Sockets |-> owed'[s]]
      /\ \A s \in Sockets : Kept(s, client'[s], owed'[s], s \in tracked', endpoint'[s])
      /\ Feed!Publish
  BY <1>1, <1>2, <1>3, PublishedKept DEF IInv
<1>5. Typed'
  BY <1>2, <1>4 DEF IInv, Typed, voice
<1> QED BY <1>4, <1>5 DEF Step, IInv, Feed!Next

LEMMA FrameKept ==
    ASSUME IInv, NEW s \in Sockets, Frame(s)
    PROVE  Step
<1>1. /\ client' = [client EXCEPT ![s] = Framed(client[s])] /\ s \in tracked
      /\ UNCHANGED <<tracked, closing, endpoint, link, owed, active, last, published, faults>>
  BY DEF Frame, socket, voice
<1>2. client'[s] = Framed(client[s]) /\ Typed' BY <1>1 DEF IInv, Typed
<1>3. Alone(s) BY <1>1 DEF Alone, IInv, Typed
<1>4. /\ Kept(s, client'[s], owed[s], s \in tracked, endpoint[s])
      /\ client'[s].wants = client[s].wants
  <2>1. (s \in tracked) = TRUE BY <1>1
  <2>2. Kept(s, client[s], owed[s], TRUE, endpoint[s]) BY <2>1 DEF IInv
  <2>3. /\ Kept(s, Framed(client[s]), owed[s], TRUE, endpoint[s])
        /\ Framed(client[s]).wants = client[s].wants
    BY <2>2, OtherwiseKept
  <2> QED BY <1>2, <2>1, <2>3
<1>5. IInv' BY <1>1, <1>2, <1>3, <1>4, OthersKept
<1>6. \A t \in Sockets : client'[t].wants = client[t].wants BY <1>3, <1>4 DEF Alone
<1>7. [Feed!Next]_(Feed!vars) BY <1>1, <1>6, Unseen
<1> QED BY <1>5, <1>7 DEF Step

\* The sender's client is one in _clients, unless it is out and has ended.
LEMMA AtItsEnd ==
    ASSUME IInv, NEW s \in Sockets, client[s].at # "ended"
    PROVE  /\ s \in tracked /\ endpoint[s] = "receiving"
           /\ Kept(s, client[s], owed[s], TRUE, "receiving")
<1>1. Kept(s, client[s], owed[s], s \in tracked, endpoint[s]) BY DEF IInv
<1>2. s \in tracked
  <2>1. SUFFICES ASSUME s \notin tracked PROVE FALSE OBVIOUS
  <2>2. client[s] = [NoClient EXCEPT !.ident = client[s].ident] BY <1>1, <2>1 DEF Kept
  <2>3. client[s].at = "ended" BY <2>2 DEF NoClient
  <2> QED BY <2>3
<1>3. endpoint[s] = "receiving" BY <1>1, <1>2 DEF Kept
<1>4. (s \in tracked) = TRUE BY <1>2
<1> QED BY <1>1, <1>2, <1>3, <1>4

\* The steps that change one client, and nothing the feed sees.
LEMMA ClientChanges ==
    ASSUME IInv, NEW s \in tracked, NEW d, client' = [client EXCEPT ![s] = d],
           UNCHANGED <<tracked, closing, endpoint, link, owed, active, last, published, faults>>,
           Kept(s, d, owed[s], TRUE, "receiving")
    PROVE  /\ IInv'
           /\ d.wants = client[s].wants => Step
<1>1. s \in Sockets /\ endpoint[s] = "receiving"
  <2>1. s \in Sockets BY DEF IInv, Typed
  <2>2. Kept(s, client[s], owed[s], s \in tracked, endpoint[s]) BY <2>1 DEF IInv
  <2> QED BY <2>1, <2>2 DEF Kept
<1>2. client'[s] = d /\ Typed' BY <1>1 DEF IInv, Typed
<1>3. Alone(s) BY <1>1 DEF Alone, IInv, Typed
<1>4. (s \in tracked') = TRUE OBVIOUS
<1>5. Kept(s, client'[s], owed'[s], s \in tracked', endpoint'[s]) BY <1>1, <1>2, <1>4
<1>6. IInv' BY <1>1, <1>2, <1>3, <1>5, OthersKept
<1>7. ASSUME d.wants = client[s].wants PROVE [Feed!Next]_(Feed!vars)
  <2>1. \A t \in Sockets : client'[t].wants = client[t].wants BY <1>2, <1>3, <1>7 DEF Alone
  <2> QED BY <2>1, Unseen
<1> QED BY <1>6, <1>7 DEF Step

LEMMA WakesKept ==
    ASSUME IInv, NEW s \in Sockets, Wakes(s)
    PROVE  Step
<1> DEFINE c == [client[s] EXCEPT !.wakeup = FALSE]
<1>1. /\ client' = [client EXCEPT ![s] = Drained(c)] /\ client[s].at = "waiting"
      /\ UNCHANGED <<tracked, closing, endpoint, link, owed, active, last, published, faults>>
  BY DEF Wakes, socket, voice
<1>2. s \in tracked /\ Kept(s, client[s], owed[s], TRUE, "receiving") BY <1>1, AtItsEnd
<1>3. /\ c \in Clients /\ c.queue = client[s].queue /\ c.ident = client[s].ident
      /\ c.wants = client[s].wants
  BY <1>2 DEF Kept, Clients
<1>4. owed[s] = c.queue
  <2>1. client[s].sending = <<>> /\ client[s].queue \in Seq(Events)
    BY <1>1, <1>2 DEF Kept, InHand, Clients
  <2>2. <<>> \o client[s].queue = client[s].queue BY <2>1, ConcatEmptySeq
  <2> QED BY <1>2, <1>3, <2>1, <2>2 DEF Kept
<1>5. Kept(s, Drained(c), owed[s], TRUE, "receiving") /\ Drained(c).wants = client[s].wants
  <2>1. Len(c.queue) <= QueueSize /\ c.ident \in {Nobody, Owner[s]} BY <1>2, <1>3 DEF Kept
  <2> HIDE DEF c
  <2> QED BY <1>3, <1>4, <2>1, DrainedKept
<1> HIDE DEF c
<1> QED BY <1>1, <1>2, <1>5, ClientChanges

LEMMA FrameSentKept ==
    ASSUME IInv, NEW s \in Sockets, FrameSent(s)
    PROVE  Step
<1> DEFINE d == [client[s] EXCEPT !.at = "waiting"]
<1>1. /\ client' = [client EXCEPT ![s] = d] /\ client[s].at = "framing"
      /\ UNCHANGED <<tracked, closing, endpoint, link, owed, active, last, published, faults>>
  BY DEF FrameSent, socket, voice
<1>2. s \in tracked /\ Kept(s, client[s], owed[s], TRUE, "receiving") BY <1>1, AtItsEnd
<1>3. /\ d \in Clients /\ d.queue = client[s].queue /\ d.ident = client[s].ident
      /\ d.wants = client[s].wants /\ d.sending = client[s].sending /\ d.at = "waiting"
  BY <1>2 DEF Kept, Clients
<1> HIDE DEF d
<1>4. Kept(s, d, owed[s], TRUE, "receiving") BY <1>1, <1>2, <1>3 DEF Kept, InHand
<1> QED BY <1>1, <1>2, <1>3, <1>4, ClientChanges

\* The event in hand is the first one owed, and it has been delivered.
LEMMA SentKept ==
    ASSUME IInv, NEW s \in Sockets, Sent(s)
    PROVE  Step
<1> DEFINE c == client[s]
           d == Drained(c)
<1>1. /\ client' = [client EXCEPT ![s] = d] /\ c.at = "sending"
      /\ owed' = [owed EXCEPT ![s] = IF owed[s] # <<>> /\ Head(owed[s]) = c.sending[1]
                                     THEN Tail(owed[s]) ELSE owed[s]]
      /\ UNCHANGED <<tracked, closing, endpoint, link, active, last, published, faults>>
  BY DEF Sent, socket, voice
<1>2. s \in tracked /\ endpoint[s] = "receiving" /\ Kept(s, c, owed[s], TRUE, "receiving")
  BY <1>1, AtItsEnd
<1> HIDE DEF c, d
<1>3. c \in Clients /\ c.queue \in Seq(Events) /\ c.sending \in Seq(Events)
      /\ Len(c.sending) = 1 /\ owed[s] = c.sending \o c.queue
  BY <1>1, <1>2 DEF Kept, InHand, Clients
<1>4. owed[s] # <<>> /\ Head(owed[s]) = c.sending[1] /\ Tail(owed[s]) = c.queue
  <2> DEFINE p == c.sending
             q == c.queue
  <2>1. p \in Seq(Events) /\ q \in Seq(Events) /\ Len(p) = 1 BY <1>3
  <2> HIDE DEF p, q
  <2>2. p \o q # <<>> /\ Head(p \o q) = p[1] /\ Tail(p \o q) = q BY <2>1, OneInHand
  <2> QED BY <1>3, <2>2 DEF p, q
<1>5. owed' = [owed EXCEPT ![s] = Tail(owed[s])] BY <1>1, <1>4
<1>6. Kept(s, d, c.queue, TRUE, "receiving") /\ d.wants = c.wants
  <2>1. Len(c.queue) <= QueueSize /\ c.ident \in {Nobody, Owner[s]} BY <1>2 DEF Kept
  <2> QED BY <1>3, <2>1, DrainedKept DEF d
<1>7. client'[s] = d /\ owed'[s] = c.queue /\ Typed'
  BY <1>1, <1>4, <1>5 DEF IInv, Typed
<1>8. Alone(s) BY <1>1, <1>5 DEF Alone, IInv, Typed
<1>9. Kept(s, client'[s], owed'[s], s \in tracked', endpoint'[s])
  <2>1. (s \in tracked') = TRUE BY <1>1, <1>2
  <2> QED BY <1>1, <1>2, <1>6, <1>7, <2>1
<1>10. IInv' BY <1>7, <1>8, <1>9, OthersKept
<1>11. \A t \in Sockets : client'[t].wants = client[t].wants
  BY <1>6, <1>7, <1>8 DEF Alone, c
<1>12. Feed!Deliver(s)
  <2>1. [t \in Sockets |-> client'[t].wants \cup AlwaysSent]
          = [t \in Sockets |-> client[t].wants \cup AlwaysSent]
    BY <1>11
  <2> QED BY <1>1, <1>4, <1>5, <2>1 DEF Feed!Deliver
<1> QED BY <1>10, <1>12 DEF Step, Feed!Next

\* The socket s goes: it is in _clients no more, and nothing is owed to it.
LEMMA GoneKept ==
    ASSUME IInv, NEW s \in Sockets, NEW i \in {Nobody, Owner[s]}, NEW e \in Ends,
           tracked' = tracked \ {s}, closing' \subseteq Sockets,
           client' = [client EXCEPT ![s] = [NoClient EXCEPT !.ident = i]],
           owed' = [owed EXCEPT ![s] = <<>>],
           endpoint' = [endpoint EXCEPT ![s] = e],
           UNCHANGED <<link, active, last, published, faults>>
    PROVE  Step
<1>1. /\ client'[s] = [NoClient EXCEPT !.ident = i] /\ owed'[s] = <<>> /\ endpoint'[s] = e
      /\ Typed'
  BY DEF IInv, Typed
<1>2. Alone(s) BY DEF Alone, IInv, Typed
<1>3. Kept(s, client'[s], owed'[s], s \in tracked', endpoint'[s])
  <2>1. (s \in tracked') = FALSE OBVIOUS
  <2>2. Kept(s, [NoClient EXCEPT !.ident = i], <<>>, FALSE, e) BY NoClientKept
  <2> QED BY <1>1, <2>1, <2>2
<1>4. IInv' BY <1>1, <1>2, <1>3, OthersKept
<1>5. client'[s].wants = Kinds BY <1>1 DEF NoClient
<1>6. [Feed!Next]_(Feed!vars) BY <1>1, <1>2, <1>5, SeenCut
<1> QED BY <1>4, <1>6 DEF Step

LEMMA SendFailsKept ==
    ASSUME IInv, NEW s \in Sockets, SendFails(s)
    PROVE  Step
<1>1. s \in tracked /\ endpoint[s] = "receiving" BY AtItsEnd DEF SendFails
<1>2. endpoint' = [endpoint EXCEPT ![s] = "receiving"] /\ closing' \subseteq Sockets
  BY <1>1 DEF SendFails, IInv, Typed
<1>3. client' = [client EXCEPT ![s] = [NoClient EXCEPT !.ident = Nobody]]
  BY DEF SendFails, NoClient
<1>4. /\ tracked' = tracked \ {s} /\ owed' = [owed EXCEPT ![s] = <<>>]
      /\ UNCHANGED <<link, active, last, published, faults>>
  BY DEF SendFails, voice
<1>5. "receiving" \in Ends BY DEF Ends
<1> QED BY <1>2, <1>3, <1>4, <1>5, GoneKept

LEMMA LeavesKept ==
    ASSUME IInv, NEW s \in Sockets, Leaves(s)
    PROVE  Step
<1> DEFINE e == IF s \in tracked THEN "leaving" ELSE "done"
<1>1. client[s].ident \in {Nobody, Owner[s]} BY DEF IInv, Kept
<1>2. e \in Ends BY DEF Ends
<1>3. /\ tracked' = tracked \ {s} /\ owed' = [owed EXCEPT ![s] = <<>>]
      /\ client' = [client EXCEPT ![s] = [NoClient EXCEPT !.ident = client[s].ident]]
      /\ endpoint' = [endpoint EXCEPT ![s] = e]
      /\ UNCHANGED <<closing, link, active, last, published, faults>>
  BY DEF Leaves, voice
<1>4. closing' \subseteq Sockets BY <1>3 DEF IInv, Typed
<1> HIDE DEF e
<1> QED BY <1>1, <1>2, <1>3, <1>4, GoneKept

LEMMA LeftKept ==
    ASSUME IInv, NEW s \in Sockets, Left(s)
    PROVE  Step
<1> DEFINE without == [client EXCEPT ![s] = NoClient]
<1>1. /\ endpoint[s] = "leaving" /\ endpoint' = [endpoint EXCEPT ![s] = "done"]
      /\ UNCHANGED <<link, last, faults>>
  BY DEF Left
<1>2. Kept(s, client[s], owed[s], s \in tracked, endpoint[s]) BY DEF IInv
<1>3. s \notin tracked BY <1>1, <1>2 DEF Kept
<1>4. client[s].wants = Kinds /\ owed[s] = <<>>
  <2>1. client[s] = [NoClient EXCEPT !.ident = client[s].ident] BY <1>2, <1>3 DEF Kept
  <2>2. client[s].wants = Kinds /\ client[s].sending = <<>> /\ client[s].queue = <<>>
    BY <2>1 DEF NoClient
  <2>3. owed[s] = client[s].sending \o client[s].queue BY <1>2 DEF Kept
  <2>4. <<>> \o <<>> = <<>> BY EmptySeq, ConcatEmptySeq
  <2> QED BY <2>2, <2>3, <2>4
<1>5. CASE client' = without /\ UNCHANGED <<active, published, owed, tracked, closing>>
  <2>1. /\ tracked' = tracked \ {s} /\ closing' \subseteq Sockets
        /\ owed' = [owed EXCEPT ![s] = <<>>]
    BY <1>3, <1>4, <1>5 DEF IInv, Typed
  <2>2. client' = [client EXCEPT ![s] = [NoClient EXCEPT !.ident = Nobody]]
    BY <1>5 DEF NoClient
  <2>3. "done" \in Ends BY DEF Ends
  <2> QED BY <1>1, <1>5, <2>1, <2>2, <2>3, GoneKept
<1>6. CASE active' = Nobody /\ Published("voice", without)
  <2>1. \A t \in Sockets : without[t] = IF t = s THEN NoClient ELSE client[t]
    BY DEF IInv, Typed
  <2> HIDE DEF without
  <2>2. ASSUME NEW t \in Sockets
        PROVE  /\ Kept(t, without[t], owed[t], t \in tracked, endpoint'[t])
               /\ without[t].wants = client[t].wants
    <3>1. CASE t = s
      <4>1. (t \in tracked) = FALSE BY <1>3, <3>1
      <4>2. Kept(t, NoClient, <<>>, FALSE, endpoint'[t]) BY <3>1, NoClientKept
      <4>3. NoClient.wants = Kinds BY DEF NoClient
      <4> QED BY <1>4, <2>1, <3>1, <4>1, <4>2, <4>3
    <3>2. CASE t # s
      <4>1. Kept(t, client[t], owed[t], t \in tracked, endpoint[t]) BY DEF IInv
      <4>2. endpoint'[t] = endpoint[t] /\ without[t] = client[t]
        BY <1>1, <2>1, <3>2 DEF IInv, Typed
      <4> QED BY <4>1, <4>2
    <3> QED BY <3>1, <3>2
  <2>3. \A t \in tracked : without[t].queue = client[t].queue
    BY <1>3, <2>1 DEF IInv, Typed
  <2>4. "voice" \in Kinds BY DEF Kinds
  <2>5. /\ published' \in Nat /\ tracked' \subseteq Sockets /\ closing' \subseteq Sockets
        /\ client' = [t \in Sockets |-> client'[t]] /\ owed' = [t \in Sockets |-> owed'[t]]
        /\ \A t \in Sockets : Kept(t, client'[t], owed'[t], t \in tracked', endpoint'[t])
        /\ Feed!Publish
    BY <1>6, <2>2, <2>3, <2>4, PublishedKept DEF IInv
  <2>6. Typed' BY <1>1, <1>6, <2>5 DEF IInv, Typed, Ends
  <2> QED BY <2>5, <2>6 DEF Step, IInv, Feed!Next
<1> QED BY <1>5, <1>6 DEF Left

\* A browser that comes is told how things stand, and wants everything.
LEMMA ConnectsKept ==
    ASSUME IInv, NEW s \in Sockets, Connects(s)
    PROVE  Step
<1> DEFINE d == [client[s] EXCEPT !.queue = Greeting, !.wakeup = TRUE, !.at = "waiting"]
<1>1. /\ endpoint[s] \in {"none", "done"}
      /\ tracked' = tracked \cup {s} /\ client' = [client EXCEPT ![s] = d]
      /\ owed' = [owed EXCEPT ![s] = Greeting] /\ link' = [link EXCEPT ![s] = "up"]
      /\ endpoint' = [endpoint EXCEPT ![s] = "receiving"] /\ closing' = closing \ {s}
      /\ UNCHANGED <<active, last, published, faults>>
  BY DEF Connects, voice
<1>2. Kept(s, client[s], owed[s], s \in tracked, endpoint[s]) BY DEF IInv
<1>3. s \notin tracked BY <1>1, <1>2 DEF Kept
<1>4. client[s] = [NoClient EXCEPT !.ident = client[s].ident] /\ client[s] \in Clients
  BY <1>2, <1>3 DEF Kept
<1>5. Greeting \in Seq(Events) /\ Len(Greeting) = 1 BY DEF Greeting, Events, Kinds
<1>6. /\ d \in Clients /\ d.queue = Greeting /\ d.sending = <<>> /\ d.at = "waiting"
      /\ d.wants = Kinds /\ d.ident = client[s].ident
  <2>1. client[s].sending = <<>> /\ client[s].wants = Kinds BY <1>4 DEF NoClient
  <2> QED BY <1>4, <1>5, <2>1 DEF Clients
<1> HIDE DEF d
<1>7. Kept(s, d, Greeting, TRUE, "receiving")
  <2>1. <<>> \o Greeting = Greeting BY <1>5, ConcatEmptySeq
  <2>2. Len(d.queue) <= QueueSize
    <3>1. d.queue = Greeting BY <1>6
    <3>2. Len(d.queue) = 1 BY <1>5, <3>1
    <3>3. 1 <= QueueSize BY BoundsAssumption
    <3> QED BY <3>2, <3>3
  <2>3. d.ident \in {Nobody, Owner[s]} BY <1>2, <1>6 DEF Kept
  <2> QED BY <1>6, <2>1, <2>2, <2>3 DEF Kept, InHand
<1>8. client'[s] = d /\ owed'[s] = Greeting /\ endpoint'[s] = "receiving" /\ Typed'
  BY <1>1 DEF IInv, Typed, Ends, Links
<1>9. Alone(s) BY <1>1 DEF Alone, IInv, Typed
<1>10. Kept(s, client'[s], owed'[s], s \in tracked', endpoint'[s])
  <2>1. (s \in tracked') = TRUE BY <1>1
  <2> QED BY <1>7, <1>8, <2>1
<1>11. IInv' BY <1>8, <1>9, <1>10, OthersKept
<1>12. Feed!Greet
  <2> DEFINE wants == [t \in Sockets |-> client[t].wants \cup AlwaysSent]
  <2>1. wants' = [t \in Sockets |-> client'[t].wants \cup AlwaysSent] OBVIOUS
  <2>2. \A t \in Sockets : /\ wants[t] = client[t].wants \cup AlwaysSent
                           /\ wants'[t] = client'[t].wants \cup AlwaysSent
    BY <2>1
  <2> HIDE DEF wants
  <2>3. Kinds \cup AlwaysSent = Kinds BY DEF Kinds, AlwaysSent
  <2>4. Len(owed'[s]) = 1 /\ wants'[s] = Kinds BY <1>5, <1>6, <1>8, <2>2, <2>3
  <2>5. \A t \in Sockets \ {s} : owed'[t] = owed[t] /\ wants'[t] = wants[t]
    BY <1>9, <2>2 DEF Alone
  <2> QED BY <1>1, <1>3, <2>4, <2>5 DEF Feed!Greet, Feed!Stays, wants
<1> QED BY <1>11, <1>12 DEF Step, Feed!Next

\* The steps that change neither a client nor what is owed.
LEMMA ElsewhereKept ==
    ASSUME IInv, UNCHANGED <<tracked, client, owed, endpoint>>, Typed'
    PROVE  Step
<1>1. IInv' BY DEF IInv
<1>2. [Feed!Next]_(Feed!vars)
  <2>1. \A s \in Sockets : client'[s].wants = client[s].wants OBVIOUS
  <2> QED BY <2>1, Unseen
<1> QED BY <1>1, <1>2 DEF Step

LEMMA ClosedKept ==
    ASSUME IInv, NEW s \in Sockets, Closed(s)
    PROVE  Step
<1>1. Typed' BY DEF Closed, IInv, Typed, Links, voice
<1>2. UNCHANGED <<tracked, client, owed, endpoint>> BY DEF Closed
<1> QED BY <1>1, <1>2, ElsewhereKept

LEMMA TurnsKept ==
    ASSUME IInv, NEW s \in Sockets, NEW from, NEW to \in Links, LinkTurns(s, from, to)
    PROVE  Step
<1>1. Typed' BY DEF LinkTurns, IInv, Typed, voice
<1>2. UNCHANGED <<tracked, client, owed, endpoint>> BY DEF LinkTurns
<1> QED BY <1>1, <1>2, ElsewhereKept

LEMMA SubscribesKept ==
    ASSUME IInv, NEW s \in Sockets, Subscribes(s)
    PROVE  Step
<1>1. s \in tracked /\ (s \in tracked) = TRUE BY DEF Subscribes, Heard
<1>2. PICK kinds \in Wanted : client' = [client EXCEPT ![s].wants = kinds] BY DEF Subscribes
<1>3. UNCHANGED <<tracked, closing, endpoint, link, owed, active, last, published, faults>>
  BY DEF Subscribes, socket, voice
<1>4. kinds \in SUBSET Kinds BY WantedAssumption
<1> DEFINE d == [client[s] EXCEPT !.wants = kinds]
<1>5. client' = [client EXCEPT ![s] = d] BY <1>2
<1>6. Kept(s, client[s], owed[s], TRUE, endpoint[s]) BY <1>1 DEF IInv
<1>7. Kept(s, d, owed[s], TRUE, endpoint[s]) BY <1>4, <1>6, OtherwiseKept
<1>8. endpoint[s] = "receiving" BY <1>6 DEF Kept
<1> HIDE DEF d
<1>9. IInv' BY <1>1, <1>3, <1>5, <1>7, <1>8, ClientChanges
<1>10. Feed!Subscribe
  <2> DEFINE wants == [t \in Sockets |-> client[t].wants \cup AlwaysSent]
  <2>1. wants' = [t \in Sockets |-> client'[t].wants \cup AlwaysSent] OBVIOUS
  <2>2. ASSUME NEW t \in Sockets PROVE client'[t].wants \cup AlwaysSent \in SUBSET Kinds
    <3>1. Kept(t, client'[t], owed'[t], t \in tracked', endpoint'[t]) BY <1>9 DEF IInv
    <3>2. client'[t].wants \in SUBSET Kinds BY <3>1 DEF Kept, Clients
    <3>3. AlwaysSent \subseteq Kinds BY DEF AlwaysSent, Kinds
    <3> QED BY <3>2, <3>3
  <2> HIDE DEF wants
  <2>3. wants' \in [Sockets -> SUBSET Kinds] BY <2>1, <2>2
  <2> QED BY <1>3, <2>3 DEF Feed!Subscribe, wants
<1> QED BY <1>9, <1>10 DEF Step, Feed!Next

\* The voice protocol publishes the status of the claim, whatever it changes.
LEMMA VoiceKept ==
    ASSUME IInv, NEW clients, Published("voice", clients),
           UNCHANGED <<endpoint, link, faults>>,
           active' \in Pages \cup {Nobody}, last' \in Pages \cup {Nobody},
           \A t \in Sockets : Kept(t, clients[t], owed[t], t \in tracked, endpoint[t]),
           \A t \in Sockets : clients[t].wants = client[t].wants,
           \A t \in Sockets : clients[t].queue = client[t].queue
    PROVE  Step
<1>1. "voice" \in Kinds /\ tracked \subseteq Sockets BY DEF Kinds, IInv, Typed
<1>2. \A t \in Sockets : Kept(t, clients[t], owed[t], t \in tracked, endpoint'[t]) OBVIOUS
<1>3. /\ published' \in Nat /\ tracked' \subseteq Sockets /\ closing' \subseteq Sockets
      /\ client' = [t \in Sockets |-> client'[t]] /\ owed' = [t \in Sockets |-> owed'[t]]
      /\ \A t \in Sockets : Kept(t, client'[t], owed'[t], t \in tracked', endpoint'[t])
      /\ Feed!Publish
  BY <1>1, <1>2, PublishedKept DEF IInv
<1>4. Typed' BY <1>3 DEF IInv, Typed
<1> QED BY <1>3, <1>4 DEF Step, IInv, Feed!Next

LEMMA NamesItselfKept ==
    ASSUME IInv, NEW s \in Sockets, NEW speaks \in BOOLEAN, NamesItself(s, speaks)
    PROVE  Step
<1> DEFINE clients == [client EXCEPT ![s].ident = Owner[s]]
<1>1. /\ Published("voice", clients)
      /\ UNCHANGED <<endpoint, link, last, faults>>
  BY DEF NamesItself
<1>2. active' \in Pages \cup {Nobody} /\ last' \in Pages \cup {Nobody}
  <2>1. Owner[s] \in Pages BY OwnerAssumption
  <2> QED BY <1>1, <2>1 DEF NamesItself, IInv, Typed
<1>3. \A t \in Sockets :
        clients[t] = IF t = s THEN [client[s] EXCEPT !.ident = Owner[s]] ELSE client[t]
  BY DEF IInv, Typed
<1> HIDE DEF clients
<1>4. ASSUME NEW t \in Sockets
      PROVE  /\ Kept(t, clients[t], owed[t], t \in tracked, endpoint[t])
             /\ clients[t].wants = client[t].wants /\ clients[t].queue = client[t].queue
  <2>1. Kept(t, client[t], owed[t], t \in tracked, endpoint[t])
    BY DEF IInv
  <2>2. CASE t # s BY <1>3, <2>1, <2>2
  <2>3. CASE t = s
    <3>1. /\ Kept(t, [client[t] EXCEPT !.ident = Owner[t]], owed[t], t \in tracked, endpoint[t])
          /\ [client[t] EXCEPT !.ident = Owner[t]].wants = client[t].wants
          /\ [client[t] EXCEPT !.ident = Owner[t]].queue = client[t].queue
      <4> DEFINE in == t \in tracked
      <4>1. in \in BOOLEAN OBVIOUS
      <4>2. Kept(t, client[t], owed[t], in, endpoint[t]) BY <2>1
      <4> HIDE DEF in
      <4>3. /\ Kept(t, [client[t] EXCEPT !.ident = Owner[t]], owed[t], in, endpoint[t])
            /\ [client[t] EXCEPT !.ident = Owner[t]].wants = client[t].wants
            /\ [client[t] EXCEPT !.ident = Owner[t]].queue = client[t].queue
        BY <4>1, <4>2, OtherwiseKept
      <4> QED BY <4>3 DEF in
    <3>2. clients[t] = [client[t] EXCEPT !.ident = Owner[t]] BY <1>3, <2>3
    <3> QED BY <3>1, <3>2
  <2> QED BY <2>2, <2>3
<1> QED BY <1>1, <1>2, <1>4, VoiceKept

LEMMA ClaimingKept ==
    ASSUME IInv, NEW s \in Sockets, Claims(s) \/ Releases(s)
    PROVE  Step
<1>1. Published("voice", client) /\ UNCHANGED <<endpoint, link, faults>>
  BY DEF Claims, Releases
<1>2. active' \in Pages \cup {Nobody} /\ last' \in Pages \cup {Nobody}
  <2>1. Owner[s] \in Pages BY OwnerAssumption
  <2> QED BY <2>1 DEF Claims, Releases, IInv, Typed
<1>3. \A t \in Sockets : Kept(t, client[t], owed[t], t \in tracked, endpoint[t]) BY DEF IInv
<1> QED BY <1>1, <1>2, <1>3, VoiceKept
-----------------------------------------------------------------------------
(* The theorems.                                                           *)

LEMMA InitKept == Init => IInv /\ Feed!Init
<1> SUFFICES ASSUME Init PROVE IInv /\ Feed!Init OBVIOUS
<1>1. Typed BY DEF Init, Typed, Ends, Links
<1>2. ASSUME NEW s \in Sockets
      PROVE  Kept(s, client[s], owed[s], s \in tracked, endpoint[s])
  <2>1. (s \in tracked) = FALSE /\ client[s] = NoClient /\ owed[s] = <<>> BY DEF Init
  <2>2. Kept(s, NoClient, <<>>, FALSE, endpoint[s]) BY NoClientKept
  <2> QED BY <2>1, <2>2
<1>3. Feed!Init
  <2>1. [s \in Sockets |-> client[s].wants \cup AlwaysSent] = [s \in Sockets |-> Kinds]
    <3>1. \A s \in Sockets : client[s].wants \cup AlwaysSent = Kinds
      BY DEF Init, NoClient, Kinds, AlwaysSent
    <3> QED BY <3>1
  <2> QED BY <2>1 DEF Init, Feed!Init
<1> QED BY <1>1, <1>2, <1>3 DEF IInv

LEMMA NextKept == IInv /\ [Next]_vars => Step
<1> SUFFICES ASSUME IInv, [Next]_vars PROVE Step OBVIOUS
<1>1. ASSUME NEW kind \in {"lap", "survey"}, Publish(kind) PROVE Step BY <1>1, PublishKept
<1>2. ASSUME NEW s \in Sockets, Frame(s) PROVE Step BY <1>2, FrameKept
<1>3. ASSUME NEW s \in Sockets, Sends(s) PROVE Step
  BY <1>3, WakesKept, SentKept, FrameSentKept, SendFailsKept DEF Sends
<1>4. ASSUME NEW s \in Sockets, Serves(s) PROVE Step
  BY <1>4, LeavesKept, LeftKept, ClosedKept DEF Serves
<1>5. ASSUME NEW s \in Sockets, Says(s) PROVE Step
  BY <1>5, SubscribesKept, ClaimingKept, NamesItselfKept DEF Says
<1>6. ASSUME NEW s \in Sockets, Turns(s) PROVE Step
  BY <1>6, ConnectsKept, TurnsKept DEF Turns, Stalls, ReadsOn, LinkLost, TabClosed, Links
<1>7. CASE UNCHANGED vars
  <2>1. UNCHANGED <<tracked, client, owed, endpoint>> BY <1>7 DEF vars, socket
  <2>2. Typed' BY <1>7 DEF vars, socket, voice, IInv, Typed
  <2> QED BY <2>1, <2>2, ElsewhereKept
<1> QED BY <1>1, <1>2, <1>3, <1>4, <1>5, <1>6, <1>7 DEF Next

\* The state keeps its shape: no queue outgrows its room, the sender has one
\* event in hand exactly while it sends, and a client is known by the page its
\* socket is from (service.py, _ClientStream and _client_sender).
THEOREM TypeCorrect == Spec => []TypeOK
<1>1. IInv => TypeOK
  <2> SUFFICES ASSUME IInv PROVE TypeOK OBVIOUS
  <2>1. ASSUME NEW s \in Sockets
        PROVE  /\ Len(client[s].queue) <= QueueSize
               /\ client[s].at \in {"waiting", "sending", "framing", "ended"}
               /\ Len(client[s].sending) = (IF client[s].at = "sending" THEN 1 ELSE 0)
               /\ client[s].ident \in {Nobody, Owner[s]}
    <3>1. Kept(s, client[s], owed[s], s \in tracked, endpoint[s]) BY DEF IInv
    <3>2. Len(<<>>) = 0 BY EmptySeq
    <3> QED BY <3>1, <3>2 DEF Kept, InHand, Clients
  <2> QED BY <2>1 DEF IInv, Typed, TypeOK, Ends, Links
<1> QED BY <1>1, InitKept, NextKept, PTL DEF Spec, Step

\* Every browser the service has in _clients is owed exactly what its sender
\* has in hand and, behind that, its queue, in the order of publication; one
\* that is out is owed nothing, so nothing accepted for a browser is lost but
\* with its socket (service.py, _publish, _client_sender, _drop_client).
InOrder ==
    \A s \in Sockets : owed[s] = IF s \in tracked THEN client[s].sending \o client[s].queue ELSE <<>>

THEOREM NothingSkipped == Spec => []InOrder
<1>1. IInv => InOrder
  <2> SUFFICES ASSUME IInv, NEW s \in Sockets
               PROVE  owed[s] = IF s \in tracked THEN client[s].sending \o client[s].queue ELSE <<>>
    BY DEF InOrder
  <2>1. Kept(s, client[s], owed[s], s \in tracked, endpoint[s]) BY DEF IInv
  <2>2. CASE s \in tracked BY <2>1, <2>2 DEF Kept
  <2>3. CASE s \notin tracked
    <3>1. client[s] = [NoClient EXCEPT !.ident = client[s].ident] BY <2>1, <2>3 DEF Kept
    <3>2. client[s].sending = <<>> /\ client[s].queue = <<>> BY <3>1 DEF NoClient
    <3>3. <<>> \o <<>> = <<>> BY EmptySeq, ConcatEmptySeq
    <3> QED BY <2>1, <2>3, <3>2, <3>3 DEF Kept
  <2> QED BY <2>2, <2>3
<1> QED BY <1>1, InitKept, NextKept, PTL DEF Spec, Step

\* The service implements the feed it promises: every browser gets the events
\* it asked for in order, and one that falls behind on an event it cannot fetch
\* again is cut off (service.py, _ClientStream and _publish).
THEOREM StreamsImplement == Spec => FeedKept
<1>1. Init => Feed!Init BY InitKept
<1>2. IInv /\ [Next]_vars => [Feed!Next]_(Feed!vars) BY NextKept DEF Step
<1>3. IInv /\ [Next]_vars => IInv' BY NextKept DEF Step
<1>4. Init => IInv BY InitKept
<1> QED BY <1>1, <1>2, <1>3, <1>4, PTL DEF Spec, FeedKept, Feed!Spec

-----------------------------------------------------------------------------
(* The speech queue of a tab.                                              *)

\* What the queue, its watchdog and the engine are kept in.
TabShape(t) ==
    /\ DOMAIN t = {"queue", "late", "recent", "speaking", "watchdog", "failures",
                   "synth", "talking", "deferred", "events", "said"}
    /\ t.said \in [Callouts -> Nat]

\* Every callout handed to the engine is being spoken or has been answered.
Told(t) ==
    /\ TabShape(t)
    /\ \A c \in Callouts : t.said[c] > 0 /\ t.speaking # c => c \in t.recent

LEMMA Counted ==
    ASSUME NEW f \in [Callouts -> Nat], NEW c
    PROVE  [f EXCEPT ![c] = @ + 1] \in [Callouts -> Nat]
<1>1. CASE c \in Callouts BY <1>1
<1>2. CASE c \notin Callouts BY <1>2
<1> QED BY <1>1, <1>2

\* What is answered stays so, and who speaks is as before or nobody.
LEMMA StillTold ==
    ASSUME NEW t, NEW u, Told(t), TabShape(u), u.said = t.said, t.recent \subseteq u.recent,
           u.speaking = t.speaking \/ t.speaking \in u.recent
    PROVE  Told(u)
BY DEF Told, TabShape

LEMMA AckedTold ==
    ASSUME NEW t, NEW ids, Told(t)
    PROVE  Told(Speech!Acked(t, ids))
BY StillTold DEF Told, TabShape, Speech!Acked

LEMMA SpokenTold ==
    ASSUME NEW t, NEW u, Told(t)
    PROVE  Told(Speech!Spoken(t, u))
<1>1. PICK d : Speech!Spoken(t, u) = [t EXCEPT !.deferred = d] BY DEF Speech!Spoken
<1> QED BY <1>1 DEF Told, TabShape

LEMMA CancelledTold ==
    ASSUME NEW t, Told(t)
    PROVE  Told(Speech!Cancelled(t)) /\ Speech!Cancelled(t).speaking = t.speaking
<1>1. PICK e : Speech!Cancelled(t) = [t EXCEPT !.events = e, !.synth = <<>>, !.talking = FALSE]
  BY DEF Speech!Cancelled
<1> QED BY <1>1 DEF Told, TabShape

LEMMA SweptTold ==
    ASSUME NEW t, Told(t)
    PROVE  Told(Speech!Swept(t)) /\ Speech!Swept(t).speaking = t.speaking
<1> DEFINE a == Speech!Acked(t, t.late)
<1>1. Told(a) /\ a.speaking = t.speaking BY AckedTold DEF Told, TabShape, Speech!Acked
<1>2. PICK q : Speech!Swept(t) = [a EXCEPT !.queue = q, !.late = {}]
  BY DEF Speech!Swept
<1> HIDE DEF a
<1> QED BY <1>1, <1>2 DEF Told, TabShape

\* pump: who speaks next comes out of the queue when nobody speaks.
LEMMA PumpedTold ==
    ASSUME NEW t, Told(t)
    PROVE  Told(Speech!Pumped(t))
<1> DEFINE s == Speech!Swept(t)
<1>1. Told(s) /\ s.speaking = t.speaking BY SweptTold
<1>2. CASE t.speaking # None \/ t.queue = <<>>
  BY <1>2 DEF Speech!Pumped
<1>3. CASE ~(t.speaking # None \/ t.queue = <<>>) /\ s.queue = <<>>
  BY <1>1, <1>3 DEF Speech!Pumped
<1>4. CASE ~(t.speaking # None \/ t.queue = <<>>) /\ s.queue # <<>> /\ Speech!CaptionsOnly(s)
  <2>1. PICK ids : Speech!Pumped(t) = [Speech!Acked(s, ids) EXCEPT !.queue = <<>>]
    BY <1>4 DEF Speech!Pumped
  <2>2. Told(Speech!Acked(s, ids)) BY <1>1, AckedTold
  <2> QED BY <2>1, <2>2 DEF Told, TabShape
<1>5. CASE ~(t.speaking # None \/ t.queue = <<>>) /\ s.queue # <<>> /\ ~Speech!CaptionsOnly(s)
  <2> DEFINE c == Head(s.queue)
             u == [id |-> c, n |-> s.said[c] + 1]
             w == [phase |-> "start", utt |-> u, retried |-> FALSE]
             n == [s EXCEPT !.queue = Tail(@), !.speaking = c, !.said[c] = @ + 1, !.watchdog = w]
  <2>1. Speech!Pumped(t) = Speech!Spoken(n, u) BY <1>5 DEF Speech!Pumped, Speech!Uttered
  <2>2. s.speaking = None BY <1>1, <1>5
  <2> HIDE DEF w, u, s
  <2>3. TabShape(n)
    <3>2. s.said \in [Callouts -> Nat] BY <1>1 DEF Told, TabShape
    <3>3. [s.said EXCEPT ![c] = @ + 1] \in [Callouts -> Nat] BY <3>2, Counted
    <3> QED BY <1>1, <3>3 DEF Told, TabShape
  <2>4. /\ n.speaking = c /\ n.recent = s.recent /\ n.said = [s.said EXCEPT ![c] = @ + 1]
    BY <1>1 DEF Told, TabShape
  <2>5. Told(n)
    <3> HIDE DEF n
    <3>1. ASSUME NEW d \in Callouts, n.said[d] > 0, n.speaking # d PROVE d \in n.recent
      <4>1. s.said \in [Callouts -> Nat] BY <1>1 DEF Told, TabShape
      <4>2. s.said[d] > 0 BY <2>4, <3>1, <4>1
      <4>3. s.speaking # d BY <2>2, CalloutsAssumption
      <4> QED BY <1>1, <2>4, <4>2, <4>3 DEF Told
    <3> QED BY <2>3, <3>1 DEF Told
  <2> QED BY <2>1, <2>5, SpokenTold
<1> QED BY <1>2, <1>3, <1>4, <1>5

\* finish: the callout that ends is answered with its end.
LEMMA FinishedTold ==
    ASSUME NEW t, NEW c, NEW status, Told(t)
    PROVE  Told(Speech!Finished(t, c, status))
<1>1. CASE t.speaking # c BY <1>1 DEF Speech!Finished
<1>2. CASE t.speaking = c
  <2>1. PICK f : Speech!Finished(t, c, status)
                   = Speech!Pumped([Speech!Acked(t, {c}) EXCEPT !.speaking = None,
                                      !.watchdog = Speech!NoTimer, !.failures = f])
    BY <1>2 DEF Speech!Finished
  <2> DEFINE u == [Speech!Acked(t, {c}) EXCEPT !.speaking = None,
                     !.watchdog = Speech!NoTimer, !.failures = f]
  <2>2. TabShape(u) /\ u.said = t.said /\ u.recent = t.recent \cup {c}
    BY DEF Told, TabShape, Speech!Acked
  <2>3. Told(u) BY <1>2, <2>2, StillTold
  <2> QED BY <2>1, <2>3, PumpedTold
<1> QED BY <1>1, <1>2

\* cancelSpeech: what is cut short is answered at once.
LEMMA CutShortTold ==
    ASSUME NEW t, Told(t)
    PROVE  Told(Speech!CutShort(t))
<1> DEFINE u == [Speech!Acked(t, {t.speaking} \ {None}) EXCEPT !.watchdog = Speech!NoTimer,
                                                               !.speaking = None]
<1>1. TabShape(u) /\ u.said = t.said /\ u.recent = t.recent \cup ({t.speaking} \ {None}) /\ u.speaking = None
  BY DEF Told, TabShape, Speech!Acked
<1>2. Told(u) BY <1>1, CalloutsAssumption DEF Told
<1> QED BY <1>2, CancelledTold DEF Speech!CutShort

\* enqueue.
LEMMA TakenTold ==
    ASSUME NEW t, NEW c, Told(t)
    PROVE  Told(Speech!Taken(t, c))
<1>1. CASE ~enabled \/ c \in t.recent \/ Speech!IsQueued(t, c)
  BY <1>1, AckedTold DEF Speech!Taken
<1>2. CASE ~(~enabled \/ c \in t.recent \/ Speech!IsQueued(t, c)) /\ c \in Interrupts
  <2> DEFINE u == [Speech!CutShort(t) EXCEPT !.queue = <<c>>, !.late = {}]
  <2>1. Told(Speech!CutShort(t)) BY CutShortTold
  <2>2. Told(u) BY <2>1 DEF Told, TabShape
  <2> QED BY <1>2, <2>2, PumpedTold DEF Speech!Taken
<1>3. CASE ~(~enabled \/ c \in t.recent \/ Speech!IsQueued(t, c)) /\ c \notin Interrupts
  <2>1. PICK q, l : \/ Speech!Queued(t, c) = Speech!Acked(t, {c})
                    \/ Speech!Queued(t, c) = Speech!Pumped([t EXCEPT !.queue = q, !.late = l])
    BY DEF Speech!Queued
  <2>2. Told([t EXCEPT !.queue = q, !.late = l]) BY DEF Told, TabShape
  <2>3. Told(Speech!Queued(t, c)) BY <2>1, <2>2, PumpedTold, AckedTold
  <2> QED BY <1>3, <2>3 DEF Speech!Taken
<1> QED BY <1>1, <1>2, <1>3

\* The events of the engine, and the watchdog.
LEMMA DispatchedTold ==
    ASSUME NEW t, NEW e, Told(t)
    PROVE  Told(Speech!Dispatched(t, e))
<1>1. Told(Speech!Started(t, e.utt)) BY DEF Told, TabShape, Speech!Started
<1>2. \A status : Told(Speech!Finished(t, e.utt.id, status)) BY FinishedTold
<1> QED BY <1>1, <1>2 DEF Speech!Dispatched

LEMMA TimedOutTold ==
    ASSUME NEW t, NEW u, Told(t)
    PROVE  Told(Speech!TimedOut(t, u))
<1> DEFINE s == [t EXCEPT !.watchdog = Speech!NoTimer]
<1>1. Told(s) BY DEF Told, TabShape
<1>2. Told(Speech!Cancelled(s)) BY <1>1, CancelledTold
<1>3. PICK w : \/ Speech!TimedOut(t, u)
                    = Speech!Spoken([Speech!Cancelled(s) EXCEPT !.watchdog = w], u)
               \/ Speech!TimedOut(t, u) = Speech!Finished(Speech!Cancelled(s), u.id, "speech_error")
  BY DEF Speech!TimedOut
<1>4. Told([Speech!Cancelled(s) EXCEPT !.watchdog = w]) BY <1>2 DEF Told, TabShape
<1> QED BY <1>2, <1>3, <1>4, SpokenTold, FinishedTold

\* What is handed to the engine and is over has been answered, however it ended
\* (speech.ts: enqueue, finish, cancelSpeech, the watchdog; engineer.ts: "the ack
\* follows when the utterance finishes").
THEOREM WhatIsSpokenIsAnswered == SpeechSpec => []Answered
<1>1. Told(tab) => Answered BY DEF Told, Answered, Speech!Answered
<1>2. Speech!Init => Told(tab) BY DEF Speech!Init, Told, TabShape
<1>3. Told(tab) /\ [Speech!Next]_(Speech!vars) => Told(tab)'
  <2> SUFFICES ASSUME Told(tab), [Speech!Next]_(Speech!vars) PROVE Told(tab')
    BY DEF Told, TabShape
  <2>1. CASE UNCHANGED Speech!vars BY <2>1 DEF Speech!vars
  <2>2. ASSUME NEW c \in Callouts, Speech!Enqueue(c) \/ Speech!Expires(c) PROVE Told(tab')
    <3>1. CASE Speech!Enqueue(c) BY <3>1, SweptTold, TakenTold DEF Speech!Enqueue
    <3>2. CASE Speech!Expires(c)
      <4>1. PICK l : tab' = [tab EXCEPT !.late = l] BY <3>2 DEF Speech!Expires
      <4> QED BY <4>1 DEF Told, TabShape
    <3> QED BY <2>2, <3>1, <3>2
  <2>3. CASE Speech!Loop
    <3>1. CASE Speech!Dispatch
      <4>1. PICK e, q : tab' = Speech!Dispatched([tab EXCEPT !.events = q], e)
        BY <3>1 DEF Speech!Dispatch
      <4>2. Told([tab EXCEPT !.events = q]) BY DEF Told, TabShape
      <4> QED BY <4>1, <4>2, DispatchedTold
    <3>2. CASE Speech!TimerFires BY <3>2, TimedOutTold DEF Speech!TimerFires
    <3>3. CASE Speech!VoicesReady
      <4>1. PICK s, d : tab' = [tab EXCEPT !.synth = s, !.deferred = d]
        BY <3>3 DEF Speech!VoicesReady
      <4> QED BY <4>1 DEF Told, TabShape
    <3> QED BY <2>3, <3>1, <3>2, <3>3 DEF Speech!Loop
  <2>4. CASE Speech!Engine
    <3>1. CASE Speech!EngineStarts
      <4>1. PICK e : tab' = [tab EXCEPT !.talking = TRUE, !.events = e]
        BY <3>1 DEF Speech!EngineStarts
      <4> QED BY <4>1 DEF Told, TabShape
    <3>2. CASE Speech!EngineEnds \/ Speech!EngineFails
      <4>1. PICK e, s : tab' = [tab EXCEPT !.talking = FALSE, !.events = e, !.synth = s]
        BY <3>2 DEF Speech!EngineEnds, Speech!EngineFails
      <4> QED BY <4>1 DEF Told, TabShape
    <3>3. CASE Speech!EngineDrops
      <4>1. PICK s : tab' = [tab EXCEPT !.synth = s] BY <3>3 DEF Speech!EngineDrops
      <4> QED BY <4>1 DEF Told, TabShape
    <3> QED BY <2>4, <3>1, <3>2, <3>3 DEF Speech!Engine
  <2>5. CASE Speech!Driver
    <3>1. CASE Speech!Clears
      <4>1. tab' = [Speech!CutShort(tab) EXCEPT !.queue = <<>>, !.late = {}]
        BY <3>1 DEF Speech!Clears, Speech!Cleared
      <4>2. Told(Speech!CutShort(tab)) BY CutShortTold
      <4> QED BY <4>1, <4>2 DEF Told, TabShape
    <3>2. CASE Speech!Enables \/ Speech!Hides BY <3>2 DEF Speech!Enables, Speech!Hides
    <3>3. CASE Speech!TestVoice
      <4>1. Told([tab EXCEPT !.failures = 0]) BY DEF Told, TabShape
      <4>2. Told(Speech!Cancelled([tab EXCEPT !.failures = 0])) BY <4>1, CancelledTold
      <4> QED BY <3>3, <4>2, SpokenTold DEF Speech!TestVoice
    <3> QED BY <2>5, <3>1, <3>2, <3>3 DEF Speech!Driver
  <2> QED BY <2>1, <2>2, <2>3, <2>4, <2>5 DEF Speech!Next
<1> QED BY <1>1, <1>2, <1>3, PTL DEF SpeechSpec, Speech!Spec
================================================================================
