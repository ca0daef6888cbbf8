----------------------------- MODULE Heartbeat -----------------------------
(***************************************************************************)
(* The monitor of the heartbeats (node/heartbeat).  A node broadcasts a    *)
(* heartbeat from time to time; the monitor counts for how long each peer  *)
(* was up and down since genesis, keeps the counts in its database and     *)
(* continues from there after a restart.                                   *)
(*                                                                         *)
(* A received heartbeat is handled by two goroutines, one that enters it   *)
(* and one that computes the counts of all peers; the latter leaves the    *)
(* saving of peers that became inactive to a third.  beat[p] is where the  *)
(* first of them is for peer p, dto[p] what it is about to save.           *)
(***************************************************************************)
EXTENDS Integers, FiniteSets

CONSTANTS Validators, Observers,        \* the peers
          MaxUnresponsive,              \* maxDurationPeerUnresponsive
          MaxClock, MaxBeats, MaxHbStarts, \* bounds
          AroundGenesis   \* may a peer be heard of in the very moment of genesis, and
                          \* a restart load counts from before it?

Peers == Validators \cup Observers

ASSUME HeartbeatAssumption ==
  /\ Validators \cap Observers = {}
  /\ MaxUnresponsive \in Nat \ {0} /\ MaxClock \in Nat /\ MaxBeats \in Nat /\ MaxHbStarts \in Nat

VARIABLES clock, genesis,
          infos,       \* heartbeatMessages
          keysHeard,   \* fullPeersSlice
          hbStored,    \* the database: HeartbeatDTO of the peers
          keysStored,  \* the database: the keys
          beat, dto,   \* the goroutines that enter heartbeats
          toSave,      \* the peers that the saving goroutines have yet to save
          beats, hbStarts

hbVars == <<clock, genesis, infos, keysHeard, hbStored, keysStored, beat, dto, toSave, beats,
            hbStarts>>

(* A heartbeatMessageInfo.  Two fields are history: since is when the      *)
(* counting began, heard when the peer was heard of.                       *)
NoInfo == [known |-> FALSE, ts |-> 0, active |-> FALSE, up |-> 0, down |-> 0, last |-> 0,
           inactive |-> 0, since |-> 0, heard |-> {}]
MaxOf(a, b) == IF a > b THEN a ELSE b

-----------------------------------------------------------------------------
(* heartbeatMessageInfo                                                    *)

newHeartbeatMessageInfo(now) ==
  [known |-> TRUE, ts |-> genesis, active |-> FALSE, up |-> 0, down |-> 0, last |-> now,
   inactive |-> 0, since |-> MaxOf(now, genesis), heard |-> {}]

computeValidDuration(h, now) == MaxOf(0, now - h.ts) <= MaxUnresponsive

updateMaxInactiveTimeDuration(h, now) ==
  IF h.inactive < MaxOf(0, now - h.ts) /\ genesis < now
  THEN [h EXCEPT !.inactive = MaxOf(0, now - h.ts)] ELSE h

\* the window of the last heartbeat has closed since the last update: the time in
\* it counts as up
computeUptimeDowntime(h, now, duration) ==
  LET sinceBeat == now - h.ts
      none == h.ts = genesis /\ ~h.active
      outside == sinceBeat - duration > MaxUnresponsive
      late == sinceBeat - MaxUnresponsive
  IN  IF none \/ outside THEN [up |-> 0, down |-> duration]
      ELSE IF sinceBeat <= MaxUnresponsive THEN [up |-> duration, down |-> 0]
      ELSE [up |-> duration - late, down |-> late]

updateUpAndDownTime(h0, now) ==
  LET h == [h0 EXCEPT !.last = MaxOf(@, genesis)]
      duration == MaxOf(0, now - h.last)
      times == computeUptimeDowntime(h, now, duration)
  IN  IF now < h.ts \/ duration = 0 THEN h
      ELSE [h EXCEPT !.up = @ + times.up, !.down = @ + times.down,
                     !.active = (times.up = duration), !.last = now]

updateTimes(h, now) ==
  IF now < genesis THEN h
  ELSE updateUpAndDownTime(updateMaxInactiveTimeDuration(h, now), now)

ComputeActive(h, now) ==
  updateTimes([h EXCEPT !.active = @ /\ computeValidDuration(h, now)], now)

HeartbeatReceived(h, now) ==
  [updateTimes(h, now) EXCEPT !.ts = now, !.active = TRUE, !.heard = @ \cup {now}]

-----------------------------------------------------------------------------
(* The monitor.                                                            *)

\* loadHbmiFromStorer: the time the monitor was away counts as before

loadHbmiFromStorer(p) ==
  LET h == hbStored[p]
      away == MaxOf(0, clock - h.last)
  IN  [h EXCEPT !.up = IF h.active THEN @ + away ELSE @,
                !.down = IF h.active THEN @ ELSE @ + away,
                !.ts = IF h.active THEN clock ELSE @,
                !.last = clock,
                !.heard = IF h.active THEN @ \cup (h.last..clock) ELSE @]

\* initializeHeartbeatMessagesInfo and loadRestOfPubKeysFromStorage
NewMonitor ==
  [p \in Peers |->
     IF p \in Validators
     THEN IF hbStored[p].known THEN loadHbmiFromStorer(p) ELSE newHeartbeatMessageInfo(clock)
     ELSE IF p \in keysStored /\ hbStored[p].known THEN loadHbmiFromStorer(p) ELSE NoInfo]

HeartbeatInit ==
  /\ clock = 0 /\ genesis \in {0, 1}
  /\ hbStored = [p \in Peers |-> NoInfo] /\ keysStored = {} /\ keysHeard = {}
  /\ infos = [p \in Peers |-> IF p \in Validators THEN newHeartbeatMessageInfo(0) ELSE NoInfo]
  /\ toSave = Validators
  /\ beat = [p \in Peers |-> "none"] /\ dto = [p \in Peers |-> NoInfo]
  /\ beats = 0 /\ hbStarts = 1

Ticks ==
  /\ clock < MaxClock
  /\ clock' = clock + 1
  /\ UNCHANGED <<genesis, infos, keysHeard, hbStored, keysStored, beat, dto, toSave, beats,
                 hbStarts>>

\* addHeartbeatMessageToMap, up to the unlocking of the map
ReceiveBeat(p) ==
  /\ beat[p] = "none" /\ beats < MaxBeats
  /\ beats' = beats + 1
  /\ beat' = [beat EXCEPT ![p] = "entered"]
  /\ infos' = [infos EXCEPT ![p] = IF @.known THEN @ ELSE newHeartbeatMessageInfo(clock)]
  /\ UNCHANGED <<clock, genesis, keysHeard, hbStored, keysStored, dto, toSave, hbStarts>>

FeedBeat(p) ==
  /\ beat[p] = "entered" /\ (~AroundGenesis => clock # genesis)
  /\ infos' = [infos EXCEPT ![p] = HeartbeatReceived(@, clock)]
  /\ beat' = [beat EXCEPT ![p] = "fed"]
  /\ UNCHANGED <<clock, genesis, keysHeard, hbStored, keysStored, dto, toSave, beats, hbStarts>>

ConvertBeat(p) ==
  /\ beat[p] = "fed"
  /\ dto' = [dto EXCEPT ![p] = infos[p]]
  /\ beat' = [beat EXCEPT ![p] = "saving"]
  /\ UNCHANGED <<clock, genesis, infos, keysHeard, hbStored, keysStored, toSave, beats, hbStarts>>

\* SavePubkeyData
SaveBeat(p) ==
  /\ beat[p] = "saving"
  /\ hbStored' = [hbStored EXCEPT ![p] = dto[p]]
  /\ dto' = [dto EXCEPT ![p] = NoInfo]
  /\ beat' = [beat EXCEPT ![p] = "keys"]
  /\ UNCHANGED <<clock, genesis, infos, keysHeard, keysStored, toSave, beats, hbStarts>>

addPeerToFullPeersSlice(p) ==
  /\ beat[p] = "keys"
  /\ keysHeard' = keysHeard \cup {p}
  /\ keysStored' = IF p \in keysHeard THEN keysStored ELSE keysHeard \cup {p}
  /\ beat' = [beat EXCEPT ![p] = "none"]
  /\ UNCHANGED <<clock, genesis, infos, hbStored, dto, toSave, beats, hbStarts>>

\* also the first step of GetHeartbeats
computeAllHeartbeatMessages ==
  /\ infos' = [p \in Peers |-> IF infos[p].known THEN ComputeActive(infos[p], clock) ELSE infos[p]]
  /\ toSave' = toSave \cup {p \in Peers : infos[p].active /\ ~infos'[p].active}
  /\ UNCHANGED <<clock, genesis, keysHeard, hbStored, keysStored, beat, dto, beats, hbStarts>>

SaveMultipleHeartbeatMessageInfos(p) ==
  /\ p \in toSave
  /\ hbStored' = [hbStored EXCEPT ![p] = infos[p]]
  /\ toSave' = toSave \ {p}
  /\ UNCHANGED <<clock, genesis, infos, keysHeard, keysStored, beat, dto, beats, hbStarts>>

(* The node is restarted, also while goroutines are at work.  A peer that  *)
(* was active counts as heard of at this moment, and during the absence.   *)
RestartMonitor ==
  /\ hbStarts < MaxHbStarts
  /\ ~AroundGenesis => clock # genesis /\ \A p \in Peers : hbStored[p].known => hbStored[p].last >= genesis
  /\ hbStarts' = hbStarts + 1
  /\ infos' = NewMonitor
  /\ toSave' = {p \in Validators : ~hbStored[p].known}
  /\ beat' = [p \in Peers |-> "none"] /\ dto' = [p \in Peers |-> NoInfo]
  /\ keysHeard' = {}
  /\ UNCHANGED <<clock, genesis, hbStored, keysStored, beats>>

HeartbeatNext ==
  \/ Ticks \/ computeAllHeartbeatMessages \/ RestartMonitor
  \/ \E p \in Peers : ReceiveBeat(p) \/ FeedBeat(p) \/ ConvertBeat(p) \/ SaveBeat(p)
                      \/ addPeerToFullPeersSlice(p) \/ SaveMultipleHeartbeatMessageInfos(p)

HeartbeatSpec == HeartbeatInit /\ [][HeartbeatNext]_hbVars

-----------------------------------------------------------------------------
(* Every moment since genesis, or since a peer was first heard of, is      *)
(* counted once as up or down, whenever the counts are computed and        *)
(* whatever version of them a restart finds in the database.               *)
AllTimeCounted ==
  \A p \in Peers : infos[p].known =>
    infos[p].up + infos[p].down = MaxOf(0, infos[p].last - infos[p].since)

\* the unit of time that ends at t is within the window of a heartbeat
UpAt(h, t) == \E b \in h.heard : b < t /\ t <= b + MaxUnresponsive

(* A peer counts as up exactly during the windows of its heartbeats,       *)
(* however often or seldom the counts are computed: updating late gives    *)
(* the same as updating at every moment.                                   *)
UpWithinWindows ==
  \A p \in Peers : infos[p].known =>
    infos[p].up = Cardinality({t \in (infos[p].since + 1)..infos[p].last : UpAt(infos[p], t)})

(* A peer whose key is in the database has its counts there, so that a     *)
(* restart at any moment can load every peer of the list.                  *)
KeysHaveData == \A p \in keysStored : hbStored[p].known

(* A peer that is shown as active was heard of within the window before    *)
(* the moment the counts were last brought up to date.                     *)
ActiveWasHeard ==
  \A p \in Peers : infos[p].active =>
    \E b \in infos[p].heard : infos[p].last - b <= MaxUnresponsive
=============================================================================
