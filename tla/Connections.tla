---------------------------- MODULE Connections ----------------------------
(***************************************************************************)
(* How a node stays connected: the connection monitor                      *)
(* (p2p/libp2p/libp2pConnectionMonitor.go), the kad-dht discoverer it      *)
(* pauses, resumes and asks to reconnect, and the order of the peers by    *)
(* which surplus connections are closed (p2p/libp2p/networksharding).      *)
(*                                                                         *)
(* libp2p calls Connected and Disconnected for every connection in a       *)
(* goroutine of its own; a peer has at most one connection here.  Three    *)
(* goroutines may be connecting to a peer of the initial list: the first   *)
(* one of Bootstrap ("boot"), the loop of the discoverer ("dht") and       *)
(* doReconnection of the monitor ("monitor").                              *)
(***************************************************************************)
EXTENDS Integers, Sequences, FiniteSets, SequencesExt

CONSTANTS PeerKey,            \* function: peer -> its key, relative to the node's own
          PeerShard, OwnShard,
          MaskBits, KeyBits,  \* the bits of a key, and how many a shard mate resets
          InitialPeers,       \* initialPeersList, a sequence
          AlwaysUp,           \* peers that always answer, if connections to them may break
          TargetConnCount,
          MinConnected,       \* thresholdMinConnectedPeers
          ReconnectMul,       \* initReconnectMul
          SlowPause,          \* may the node lose peers between Connected's look at
                              \* the connections and its call of Pause?
          MaxDials, MaxDrops  \* bounds: connections made by others or found, and lost

NetPeers == DOMAIN PeerKey

thresholdDiscoveryResume == (TargetConnCount * 4) \div 5
thresholdDiscoveryPause == TargetConnCount
thresholdConnTrim == (TargetConnCount * 6) \div 5

ASSUME ConnAssumption ==
  /\ TargetConnCount \in Nat \ {0} /\ MinConnected \in Nat /\ ReconnectMul \in Nat \ {0}
  /\ AlwaysUp \cap Range(InitialPeers) # {} /\ MaskBits <= KeyBits

VARIABLES connected,
          initConns,     \* the discovery is on
          onConnect,     \* the Connected handlers: peer -> [at, rest]
          onDisconnect,  \* the Disconnected handlers: peer -> where
          attempt,       \* goroutine -> index into InitialPeers, 0: not connecting
          monitorPc,     \* doReconnection: waiting for a signal, connecting, sleeping
          dhtPc, turns,  \* the loop of the discoverer and its counter
          dials, drops,
          stale          \* history: a peer left after a handler had listed the peers

connVars == <<connected, initConns, onConnect, onDisconnect, attempt, monitorPc, dhtPc, turns,
              dials, drops, stale>>

-----------------------------------------------------------------------------
(* The order of the peers: kadSharder.GetDistance, sortList.               *)

resetDistanceBits(key) == key % (2 ^ (KeyBits - MaskBits))

GetDistance(p) == IF PeerShard[p] = OwnShard THEN resetDistanceBits(PeerKey[p]) ELSE PeerKey[p]

SortList(peers) == SetToSortSeq(peers, LAMBDA p, q : GetDistance(p) < GetDistance(q))

-----------------------------------------------------------------------------
NoConnect == [at |-> "none", rest |-> <<>>]

newLibp2pConnectionMonitor ==
  /\ connected = {} /\ initConns = TRUE
  /\ onConnect = [p \in NetPeers |-> NoConnect] /\ onDisconnect = [p \in NetPeers |-> "none"]
  /\ monitorPc = "waiting"

\* Bootstrap has been called
ConnInit ==
  /\ newLibp2pConnectionMonitor
  /\ attempt = [g \in {"boot", "dht", "monitor"} |-> IF g = "boot" THEN 1 ELSE 0]
  /\ dhtPc = "boot" /\ turns = 1 /\ dials = 0 /\ drops = 0 /\ stale = FALSE

\* the new connection of p, and libp2p's notification of it
Connects(p) ==
  /\ connected' = connected \cup {p}
  /\ onConnect' = IF p \in connected THEN onConnect ELSE [onConnect EXCEPT ![p].at = "pause?"]

\* p dials the node
PeerConnects(p) ==
  /\ dials < MaxDials
  /\ p \notin connected /\ onConnect[p].at = "none" /\ onDisconnect[p] = "none"
  /\ Connects(p)
  /\ dials' = dials + 1
  /\ UNCHANGED <<initConns, onDisconnect, attempt, monitorPc, dhtPc, turns, drops, stale>>

Disconnects(p) ==
  /\ connected' = connected \ {p}
  /\ onDisconnect' = [onDisconnect EXCEPT ![p] = "needed?"]

\* p leaves, or the connection breaks
PeerLeaves(p) ==
  /\ drops < MaxDrops /\ p \in connected /\ onDisconnect[p] = "none"
  /\ ~SlowPause => \A q \in NetPeers : onConnect[q].at # "pause"
  /\ Disconnects(p)
  /\ drops' = drops + 1
  /\ stale' = (stale \/ \E q \in NetPeers : onConnect[q].at = "trim")
  /\ UNCHANGED <<initConns, onConnect, attempt, monitorPc, dhtPc, turns, dials>>

-----------------------------------------------------------------------------
(* Connected                                                               *)

\* len(netw.Conns()) > thresholdDiscoveryPause
LooksAtPause(p) ==
  /\ onConnect[p].at = "pause?"
  /\ onConnect' = [onConnect EXCEPT ![p].at =
                     IF Cardinality(connected) > thresholdDiscoveryPause THEN "pause" ELSE "trim?"]
  /\ UNCHANGED <<connected, initConns, onDisconnect, attempt, monitorPc, dhtPc, turns, dials, drops, stale>>

Pause(p) ==
  /\ onConnect[p].at = "pause"
  /\ initConns' = FALSE
  /\ onConnect' = [onConnect EXCEPT ![p].at = "trim?"]
  /\ UNCHANGED <<connected, onDisconnect, attempt, monitorPc, dhtPc, turns, dials, drops, stale>>

\* sorted[thresholdDiscoveryPause:]
Surplus(peers) ==
  IF Cardinality(peers) > thresholdDiscoveryPause
  THEN SubSeq(SortList(peers), thresholdDiscoveryPause + 1, Cardinality(peers)) ELSE <<>>

TooMany(n) == n > thresholdConnTrim

LooksAtTrim(p) ==
  /\ onConnect[p].at = "trim?"
  /\ onConnect' = [onConnect EXCEPT ![p] = IF TooMany(Cardinality(connected))
                                           THEN [at |-> "trim", rest |-> Surplus(connected)]
                                           ELSE NoConnect]
  /\ UNCHANGED <<connected, initConns, onDisconnect, attempt, monitorPc, dhtPc, turns, dials, drops, stale>>

\* a signal to doReconnection is lost when the latter is not waiting for it
doReconn ==
  IF monitorPc = "waiting"
  THEN /\ monitorPc' = "connecting"
       /\ attempt' = [attempt EXCEPT !["monitor"] = 1]
  ELSE UNCHANGED <<monitorPc, attempt>>

\* netw.ClosePeer of the next peer of the list, or the end of the handler
ClosesPeer(p) ==
  /\ onConnect[p].at = "trim"
  /\ IF onConnect[p].rest = <<>>
     THEN /\ onConnect' = [onConnect EXCEPT ![p] = NoConnect]
          /\ doReconn
          /\ stale' = (stale /\ \E q \in NetPeers \ {p} : onConnect[q].at = "trim")
          /\ UNCHANGED <<connected, onDisconnect>>
     ELSE LET q == Head(onConnect[p].rest) IN
          /\ onDisconnect[q] = "none"
          /\ onConnect' = [onConnect EXCEPT ![p].rest = Tail(@)]
          /\ IF q \in connected THEN Disconnects(q) ELSE UNCHANGED <<connected, onDisconnect>>
          /\ UNCHANGED <<attempt, monitorPc, stale>>
  /\ UNCHANGED <<initConns, dhtPc, turns, dials, drops>>

-----------------------------------------------------------------------------
(* Disconnected                                                            *)

doReconnectionIfNeeded(p) ==
  /\ onDisconnect[p] = "needed?"
  /\ IF Cardinality(connected) < MinConnected THEN doReconn ELSE UNCHANGED <<monitorPc, attempt>>
  /\ onDisconnect' = [onDisconnect EXCEPT ![p] = "resume?"]
  /\ UNCHANGED <<connected, initConns, onConnect, dhtPc, turns, dials, drops, stale>>

LooksAtResume(p) ==
  /\ onDisconnect[p] = "resume?"
  /\ onDisconnect' = [onDisconnect EXCEPT ![p] =
                        IF Cardinality(connected) < thresholdDiscoveryResume
                        THEN "resume" ELSE "none"]
  /\ UNCHANGED <<connected, initConns, onConnect, attempt, monitorPc, dhtPc, turns, dials, drops, stale>>

Resume(p) ==
  /\ onDisconnect[p] = "resume"
  /\ initConns' = TRUE
  /\ doReconn
  /\ onDisconnect' = [onDisconnect EXCEPT ![p] = "none"]
  /\ UNCHANGED <<connected, onConnect, dhtPc, turns, dials, drops, stale>>

-----------------------------------------------------------------------------
(* connectToOnePeerFromInitialPeersList: the peers of the list in turn,    *)
(* until one answers.  Its caller goes on once one has.                    *)
Reachable(p) == p \in AlwaysUp \/ p \in connected

\* Mutant: a peer that does not answer ends the attempt
Mut_connectToOnePeerFromInitialPeersList(g) ==
  /\ attempt[g] # 0
  /\ LET p == InitialPeers[attempt[g]] IN
     \/ /\ p \in connected \/ (onConnect[p].at = "none" /\ onDisconnect[p] = "none")
        /\ Connects(p)
     \/ ~Reachable(p) /\ UNCHANGED <<connected, onConnect>>
  /\ attempt' = [attempt EXCEPT ![g] = 0]
  /\ dhtPc' = IF g = "monitor" THEN dhtPc ELSE "loop"
  /\ monitorPc' = IF g = "monitor" THEN "sleeping" ELSE monitorPc
  /\ UNCHANGED <<initConns, onDisconnect, turns, dials, drops, stale>>

connectToOnePeerFromInitialPeersList(g) ==
  /\ attempt[g] # 0
  /\ LET p == InitialPeers[attempt[g]] IN
     \/ /\ p \in connected \/ (onConnect[p].at = "none" /\ onDisconnect[p] = "none")
        /\ Connects(p)
        /\ attempt' = [attempt EXCEPT ![g] = 0]
        /\ dhtPc' = IF g = "monitor" THEN dhtPc ELSE "loop"
        /\ monitorPc' = IF g = "monitor" THEN "sleeping" ELSE monitorPc
     \/ /\ ~Reachable(p)
        /\ attempt' = [attempt EXCEPT ![g] = (@ % Len(InitialPeers)) + 1]
        /\ UNCHANGED <<connected, onConnect, dhtPc, monitorPc>>
  /\ UNCHANGED <<initConns, onDisconnect, turns, dials, drops, stale>>

\* doReconnection, after DurationBetweenReconnectAttempts
doReconnection ==
  /\ monitorPc = "sleeping"
  /\ monitorPc' = "waiting"
  /\ UNCHANGED <<connected, initConns, onConnect, onDisconnect, attempt, dhtPc, turns, dials, drops, stale>>

(* A turn of the discoverer's loop.  BootstrapOnce (external) finds no     *)
(* peer to ask when there is no connection, and may connect to new peers   *)
(* otherwise.                                                              *)
connectToInitialAndBootstrap ==
  /\ dhtPc = "loop"
  /\ IF initConns
     THEN /\ turns' = 1
          /\ IF connected = {}
             THEN /\ dhtPc' = "reconnecting" /\ attempt' = [attempt EXCEPT !["dht"] = 1]
                  /\ UNCHANGED <<connected, onConnect, dials>>
             ELSE /\ \/ UNCHANGED <<connected, onConnect, dials>>
                     \/ \E p \in NetPeers \ connected :
                          /\ dials < MaxDials
                          /\ onConnect[p].at = "none" /\ onDisconnect[p] = "none"
                          /\ Connects(p)
                          /\ dials' = dials + 1
                  /\ UNCHANGED <<dhtPc, attempt>>
     ELSE /\ turns' = IF (turns + 1) % ReconnectMul = 0 THEN 1 ELSE turns + 1
          /\ IF (turns + 1) % ReconnectMul = 0
             THEN dhtPc' = "reconnecting" /\ attempt' = [attempt EXCEPT !["dht"] = 1]
             ELSE UNCHANGED <<dhtPc, attempt>>
          /\ UNCHANGED <<connected, onConnect, dials>>
  /\ UNCHANGED <<initConns, onDisconnect, monitorPc, drops, stale>>

-----------------------------------------------------------------------------
Handles(p) ==
  \/ LooksAtPause(p) \/ Pause(p) \/ LooksAtTrim(p) \/ ClosesPeer(p)
  \/ doReconnectionIfNeeded(p) \/ LooksAtResume(p) \/ Resume(p)

ConnNext ==
  \/ \E p \in NetPeers : PeerConnects(p) \/ PeerLeaves(p) \/ Handles(p)
  \/ \E g \in {"boot", "dht", "monitor"} : connectToOnePeerFromInitialPeersList(g)
  \/ doReconnection \/ connectToInitialAndBootstrap

(* The goroutines run, and the handlers return.                            *)
ConnFairness ==
  /\ WF_connVars(\E p \in NetPeers : Handles(p))
  /\ \A g \in {"boot", "dht", "monitor"} : WF_connVars(connectToOnePeerFromInitialPeersList(g))
  /\ WF_connVars(doReconnection) /\ WF_connVars(connectToInitialAndBootstrap)

ConnSpec == ConnInit /\ [][ConnNext]_connVars /\ ConnFairness

-----------------------------------------------------------------------------
Quiet == \A p \in NetPeers : onConnect[p].at = "none" /\ onDisconnect[p] = "none"

(* However many peers connect at once, when the handlers have returned the *)
(* node has no more connections than the monitor tolerates.                *)
WithinLimit == Quiet => Cardinality(connected) <= thresholdConnTrim

(* When the handlers have returned and the node has few connections, the   *)
(* discovery is on: no order of Pause and Resume leaves it paused.         *)
FewPeersDiscover == Quiet /\ Cardinality(connected) < thresholdDiscoveryResume => initConns

(* Trimming, also by several handlers at once, each with a list of its     *)
(* own, never goes below the target: the nearest peers stay, unless one    *)
(* left by itself after it was listed.                                     *)
TrimKeepsTarget ==
  (~stale /\ \E p \in NetPeers : onConnect[p].at = "trim") =>
    Cardinality(connected \ UNION {Range(onConnect[p].rest) : p \in NetPeers})
      >= thresholdDiscoveryPause

(* A node that has lost its last connection gets a new one, whatever       *)
(* signals to the monitor were lost meanwhile and whether the discovery is *)
(* paused or not, as long as one peer of the initial list can be reached.  *)
IsolatedReconnects == []<>(connected # {})
=============================================================================
