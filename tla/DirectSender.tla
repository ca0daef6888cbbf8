---------------------------- MODULE DirectSender ----------------------------
(***************************************************************************)
(* Direct messages (p2p/libp2p/directSender.go, mutexHolder.go): a node    *)
(* answers requests of its peers, several at a time, over one stream to    *)
(* each peer.  A message is known by its sender and a sequence number; the *)
(* receiver refuses one that it has seen.  The node may be restarted: the  *)
(* counter then starts from the clock again.                               *)
(***************************************************************************)
EXTENDS Integers, Sequences, FiniteSets

CONSTANTS DirectPeers,
          Sendings,          \* the calls of Send
          PeerOf,            \* function: call -> the peer
          maxMutexes,
          ClockSetBack,      \* may the clock be set back while the node is down?
          MaxNow, MaxNodeStarts, MaxBreaks \* bounds

ASSUME DirectAssumption == maxMutexes \in Nat \ {0} /\ PeerOf \in [Sendings -> DirectPeers]

NoMutex == 0

VARIABLES mutexes,    \* the LRU cache: <<peer, mutex>>, the most recently used last
          newMutex,   \* the mutexes made so far
          sending,    \* call -> [at, mutex, id]
          counter,
          stream,     \* peer -> [open, msgs]: the messages on their way
          linked,     \* the peers that the node has a connection to
          seenMsgs,   \* peer -> the ids it has seen, in the last timeSeenMessages
          refusedIds, \* peer -> the ids refused as seen
          now, nodeStarts, breaks

directVars == <<mutexes, newMutex, sending, counter, stream, linked, seenMsgs, refusedIds, now, nodeStarts, breaks>>

NewDirectSender(time) ==
  /\ counter' = time
  /\ mutexes' = <<>> /\ newMutex' = 0

NoStream == [open |-> FALSE, msgs |-> <<>>]
NotSending == [at |-> "new", mutex |-> NoMutex, id |-> 0]

\* the counter is time.Now() in nanoseconds
DirectInit ==
  /\ mutexes = <<>> /\ newMutex = 0 /\ counter = 0 /\ now = 1
  /\ sending = [s \in Sendings |-> NotSending]
  /\ stream = [p \in DirectPeers |-> NoStream] /\ linked = DirectPeers
  /\ seenMsgs = [p \in DirectPeers |-> {}]
  /\ refusedIds = [p \in DirectPeers |-> {}]
  /\ nodeStarts = 1 /\ breaks = 0

-----------------------------------------------------------------------------
Mut_MutexHolderGet(p) ==
  /\ newMutex' = newMutex + 1
  /\ mutexes' = Append(SelectSeq(mutexes, LAMBDA e : e[1] # p), <<p, newMutex + 1>>)

\* MutexHolder.Get: it is the last entry after the call
MutexHolderGet(p) ==
  LET old == SelectSeq(mutexes, LAMBDA e : e[1] = p)
      rest == SelectSeq(mutexes, LAMBDA e : e[1] # p)
  IN  IF old # <<>>
      THEN mutexes' = Append(rest, old[1]) /\ UNCHANGED newMutex
      ELSE /\ newMutex' = newMutex + 1
           /\ mutexes' = Append(IF Len(rest) = maxMutexes THEN Tail(rest) ELSE rest,
                                <<p, newMutex + 1>>)

GetsMutex(s) ==
  /\ sending[s].at = "new"
  /\ MutexHolderGet(PeerOf[s])
  /\ sending' = [sending EXCEPT ![s] = [at |-> "lock", mutex |-> mutexes'[Len(mutexes')][2], id |-> 0]]
  /\ UNCHANGED <<counter, stream, linked, seenMsgs, refusedIds, now, nodeStarts, breaks>>

Holds(s) == sending[s].at \in {"stream?", "message?", "write"}

\* mut.Lock, getConnection
LocksPeer(s) ==
  /\ sending[s].at = "lock"
  /\ \A u \in Sendings : Holds(u) => sending[u].mutex # sending[s].mutex
  /\ sending' = [sending EXCEPT ![s] = IF PeerOf[s] \in linked THEN [@ EXCEPT !.at = "stream?"]
                                       ELSE [NotSending EXCEPT !.at = "failed"]]
  /\ UNCHANGED <<mutexes, newMutex, counter, stream, linked, seenMsgs, refusedIds, now,
                 nodeStarts, breaks>>

getOrCreateStream(s) ==
  /\ sending[s].at = "stream?"
  /\ IF PeerOf[s] \in linked
     THEN /\ stream' = [stream EXCEPT ![PeerOf[s]] = [@ EXCEPT !.open = TRUE]]
          /\ sending' = [sending EXCEPT ![s].at = "message?"]
     ELSE /\ sending' = [sending EXCEPT ![s] = [NotSending EXCEPT !.at = "failed"]]
          /\ UNCHANGED stream
  /\ UNCHANGED <<mutexes, newMutex, counter, linked, seenMsgs, refusedIds, now,
                 nodeStarts, breaks>>

\* atomic.AddUint64
NextSeqno == counter + 1

createMessage(s) ==
  /\ sending[s].at = "message?"
  /\ counter' = NextSeqno
  /\ sending' = [sending EXCEPT ![s] = [@ EXCEPT !.at = "write", !.id = NextSeqno]]
  /\ UNCHANGED <<mutexes, newMutex, stream, linked, seenMsgs, refusedIds, now,
                 nodeStarts, breaks>>

\* WriteMsg and Flush; when they fail the stream is reset
Writes(s) ==
  /\ sending[s].at = "write"
  /\ LET p == PeerOf[s] IN
     IF stream[p].open
     THEN /\ stream' = [stream EXCEPT ![p].msgs = Append(@, sending[s].id)]
          /\ sending' = [sending EXCEPT ![s] = [NotSending EXCEPT !.at = "sent"]]
     ELSE /\ sending' = [sending EXCEPT ![s] = [NotSending EXCEPT !.at = "failed"]]
          /\ UNCHANGED stream
  /\ UNCHANGED <<mutexes, newMutex, counter, linked, seenMsgs, refusedIds, now,
                 nodeStarts, breaks>>

-----------------------------------------------------------------------------
(* The receiving peer.                                                     *)

checkAndSetSeenMessage(p, id) == id \in seenMsgs[p]

\* directStreamHandler, processReceivedDirectMessage, directMessageHandler
directStreamHandler(p) ==
  /\ stream[p].msgs # <<>>
  /\ LET id == Head(stream[p].msgs) IN
     IF checkAndSetSeenMessage(p, id)
     THEN refusedIds' = [refusedIds EXCEPT ![p] = @ \cup {id}] /\ UNCHANGED seenMsgs
     ELSE /\ seenMsgs' = [seenMsgs EXCEPT ![p] = @ \cup {id}]
          /\ UNCHANGED refusedIds
  /\ stream' = [stream EXCEPT ![p].msgs = Tail(@)]
  /\ UNCHANGED <<mutexes, newMutex, sending, counter, linked, now, nodeStarts, breaks>>

-----------------------------------------------------------------------------
(* The connection to a peer breaks, and with it the stream and what is on  *)
(* its way; it is made again.                                              *)
LinkBreaks(p) ==
  /\ p \in linked /\ breaks < MaxBreaks
  /\ breaks' = breaks + 1
  /\ linked' = linked \ {p} /\ stream' = [stream EXCEPT ![p] = NoStream]
  /\ UNCHANGED <<mutexes, newMutex, sending, counter, seenMsgs, refusedIds, now, nodeStarts>>

LinkMade(p) ==
  /\ p \notin linked
  /\ linked' = linked \cup {p}
  /\ UNCHANGED <<mutexes, newMutex, sending, counter, stream, seenMsgs, refusedIds, now,
                 nodeStarts, breaks>>

\* more nanoseconds pass than messages are sent
ClockAdvances ==
  /\ now < MaxNow
  /\ now' = now + 1
  /\ UNCHANGED <<mutexes, newMutex, sending, counter, stream, linked, seenMsgs,
                 refusedIds, nodeStarts, breaks>>

\* the calls under way are gone
NodeRestarts ==
  /\ nodeStarts < MaxNodeStarts
  /\ nodeStarts' = nodeStarts + 1
  /\ \E time \in IF ClockSetBack THEN 0..now ELSE {now} :
       /\ ~ClockSetBack => time > counter
       /\ NewDirectSender(time)
  /\ sending' = [s \in Sendings |-> IF sending[s].at \in {"new", "sent", "failed"} THEN sending[s]
                                    ELSE [NotSending EXCEPT !.at = "failed"]]
  /\ stream' = [p \in DirectPeers |-> NoStream]
  /\ UNCHANGED <<linked, seenMsgs, refusedIds, now, breaks>>

DirectNext ==
  \/ \E s \in Sendings : GetsMutex(s) \/ LocksPeer(s) \/ getOrCreateStream(s) \/ createMessage(s)
                         \/ Writes(s)
  \/ \E p \in DirectPeers : directStreamHandler(p) \/ LinkBreaks(p) \/ LinkMade(p)
  \/ ClockAdvances \/ NodeRestarts

DirectSpec == DirectInit /\ [][DirectNext]_directVars

-----------------------------------------------------------------------------
(* At most one call at a time works on the stream to a peer, as long as    *)
(* the holder of the mutexes has room for every peer: none is forgotten    *)
(* while a call holds it.                                                  *)
OneWriterPerPeer ==
  \A s, u \in Sendings : Holds(s) /\ Holds(u) /\ PeerOf[s] = PeerOf[u] => s = u

(* No message is taken for one that was seen before: concurrent calls, to  *)
(* the same peer or to others, and the ones after a restart all have       *)
(* numbers of their own.                                                   *)
NothingTakenForSeen == \A p \in DirectPeers : refusedIds[p] = {}
=============================================================================
