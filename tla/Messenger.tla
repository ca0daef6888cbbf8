----------------------------- MODULE Messenger -----------------------------
(***************************************************************************)
(* The sending half of the libp2p messenger (p2p/libp2p/netMessenger.go,   *)
(* p2p/loadBalancer) and its topics.  A broadcast is a goroutine: it       *)
(* passes the throttler, hands its message to the goroutine of a channel,  *)
(* which hands it on to the one that publishes.  The channels have no      *)
(* buffer, so that each hand-over is one step of both.                     *)
(***************************************************************************)
EXTENDS Integers, Sequences, FiniteSets, Functions

CONSTANTS Casts,              \* the broadcasts
          CastTopic,          \* function: broadcast -> its topic
          MsgTopics,
          broadcastGoRoutines,
          CheckAlone,         \* is nobody between CanProcess and StartProcessing when
                              \* another broadcast asks CanProcess?
          MayRemoveBusy,      \* may a channel be removed while a broadcast holds it?
          SubscribeFails,     \* may pubsub refuse a subscription?
          MaxTopicOps         \* bound on the calls about topics and channels

defaultSendChannel == "default"
Chans == {defaultSendChannel} \cup MsgTopics
Handlers == {"h1", "h2"}

ASSUME MessengerAssumption ==
  /\ broadcastGoRoutines \in Nat \ {0} /\ defaultSendChannel \notin MsgTopics
  /\ IsFiniteSet(Casts)

VARIABLES topics,      \* topic -> "absent", "nil" or its message processor
          validators,  \* pubsub (external): topic -> "nil" or the registered validator
          subscribed,  \* pubsub (external)
          namesChans,  \* the channels there are
          cast,        \* broadcast -> [at, chan]
          ngrt,        \* the counter of the throttler
          pump,        \* channel -> the message its goroutine holds
          collected,   \* what the publishing goroutine holds
          published,   \* the messages published
          accepted,    \* history: channel -> the messages it took, in order
          panics, topicOps

topicVars == <<topics, validators, subscribed>>
sendVars == <<cast, ngrt, pump, collected, published, accepted>>
msgrVars == <<topicVars, namesChans, sendVars, panics, topicOps>>

MsgrInit ==
  /\ topics = [t \in MsgTopics |-> "absent"] /\ validators = [t \in MsgTopics |-> "nil"]
  /\ subscribed = {}
  /\ namesChans = {defaultSendChannel}
  /\ cast = [m \in Casts |-> [at |-> "new", chan |-> defaultSendChannel]]
  /\ ngrt = 0 /\ pump = [c \in Chans |-> "free"] /\ collected = "free" /\ published = <<>>
  /\ accepted = [c \in Chans |-> <<>>]
  /\ panics = FALSE /\ topicOps = 0

MayAsk == topicOps < MaxTopicOps /\ topicOps' = topicOps + 1

-----------------------------------------------------------------------------
(* Topics.                                                                 *)

AddChannel(c) == namesChans' = namesChans \cup {c}

\* the topic stays in the map when pubsub refuses the subscription
CreateTopic(t, createChannelForTopic) ==
  /\ MayAsk
  /\ topics[t] = "absent"
  /\ topics' = [topics EXCEPT ![t] = "nil"]
  /\ \/ /\ subscribed' = subscribed \cup {t}
        /\ IF createChannelForTopic THEN AddChannel(t) ELSE UNCHANGED namesChans
     \/ SubscribeFails /\ UNCHANGED <<subscribed, namesChans>>
  /\ UNCHANGED <<validators, sendVars, panics>>

RegisterMessageProcessor(t, h) ==
  /\ MayAsk
  /\ topics[t] = "nil"
  /\ topics' = [topics EXCEPT ![t] = h]
  /\ validators' = [validators EXCEPT ![t] = h]
  /\ UNCHANGED <<subscribed, namesChans, sendVars, panics>>

UnregisterMessageProcessor(t) ==
  /\ MayAsk
  /\ topics[t] \in Handlers
  /\ topics' = [topics EXCEPT ![t] = "nil"]
  /\ validators' = [validators EXCEPT ![t] = "nil"]
  /\ UNCHANGED <<subscribed, namesChans, sendVars, panics>>

\* close(sendableChan): the goroutine of the channel ends once it has handed on what
\* it holds
RemoveChannel(c) ==
  /\ MayAsk
  /\ c \in namesChans \ {defaultSendChannel}
  /\ ~MayRemoveBusy => \A m \in Casts : cast[m] # [at |-> "sending", chan |-> c]
  /\ namesChans' = namesChans \ {c}
  /\ UNCHANGED <<topicVars, sendVars, panics>>

-----------------------------------------------------------------------------
(* BroadcastOnChannelBlocking, in the goroutine of BroadcastOnChannel.     *)

CanProcess == ngrt < broadcastGoRoutines

ChecksThrottler(m) ==
  /\ cast[m].at = "new"
  /\ CheckAlone => \A n \in Casts : cast[n].at # "may"
  /\ cast' = [cast EXCEPT ![m].at = IF CanProcess THEN "may" ELSE "refused"]
  /\ UNCHANGED <<topicVars, namesChans, ngrt, pump, collected, published, accepted, panics, topicOps>>

StartProcessing(m) ==
  /\ cast[m].at = "may"
  /\ ngrt' = ngrt + 1
  /\ cast' = [cast EXCEPT ![m].at = "started"]
  /\ UNCHANGED <<topicVars, namesChans, pump, collected, published, accepted, panics, topicOps>>

GetChannelOrDefault(c) == IF c \in namesChans THEN c ELSE defaultSendChannel

PicksChannel(m) ==
  /\ cast[m].at = "started"
  /\ cast' = [cast EXCEPT ![m] = [at |-> "sending", chan |-> GetChannelOrDefault(CastTopic[m])]]
  /\ UNCHANGED <<topicVars, namesChans, ngrt, pump, collected, published, accepted, panics, topicOps>>

\* the goroutine of the channel takes the message; sending on a closed channel panics
HandsOver(m) ==
  /\ cast[m].at = "sending"
  /\ LET c == cast[m].chan IN
     IF c \in namesChans
     THEN /\ pump[c] = "free"
          /\ pump' = [pump EXCEPT ![c] = m]
          /\ accepted' = [accepted EXCEPT ![c] = Append(@, m)]
          /\ UNCHANGED panics
     ELSE panics' = TRUE /\ UNCHANGED <<pump, accepted>>
  /\ cast' = [cast EXCEPT ![m].at = "handed"]
  /\ UNCHANGED <<topicVars, namesChans, ngrt, collected, published, topicOps>>

Mut_EndProcessing(m) ==
  /\ cast[m].at = "handed"
  /\ cast' = [cast EXCEPT ![m] = [at |-> "done", chan |-> defaultSendChannel]]
  /\ UNCHANGED <<topicVars, namesChans, ngrt, pump, collected, published, accepted, panics, topicOps>>

EndProcessing(m) ==
  /\ cast[m].at = "handed"
  /\ ngrt' = ngrt - 1
  /\ cast' = [cast EXCEPT ![m] = [at |-> "done", chan |-> defaultSendChannel]]
  /\ UNCHANGED <<topicVars, namesChans, pump, collected, published, accepted, panics, topicOps>>

\* mainChan
CollectOneElementFromChannels(c) ==
  /\ collected = "free" /\ pump[c] # "free"
  /\ collected' = pump[c]
  /\ pump' = [pump EXCEPT ![c] = "free"]
  /\ UNCHANGED <<topicVars, namesChans, cast, ngrt, published, accepted, panics, topicOps>>

\* pb.Publish, then durationBetweenSends
Publish ==
  /\ collected # "free"
  /\ published' = Append(published, collected)
  /\ collected' = "free"
  /\ UNCHANGED <<topicVars, namesChans, cast, ngrt, pump, accepted, panics, topicOps>>

-----------------------------------------------------------------------------
Sends(m) ==
  ChecksThrottler(m) \/ StartProcessing(m) \/ PicksChannel(m) \/ HandsOver(m) \/ EndProcessing(m)

MsgrNext ==
  \/ \E t \in MsgTopics : \/ \E own \in BOOLEAN : CreateTopic(t, own)
                          \/ \E h \in Handlers : RegisterMessageProcessor(t, h)
                          \/ UnregisterMessageProcessor(t) \/ RemoveChannel(t)
  \/ \E m \in Casts : Sends(m)
  \/ \E c \in Chans : CollectOneElementFromChannels(c)
  \/ Publish

MsgrFairness ==
  /\ \A m \in Casts : WF_msgrVars(Sends(m))
  /\ \A c \in Chans : SF_msgrVars(CollectOneElementFromChannels(c))
  /\ WF_msgrVars(Publish)

MsgrSpec == MsgrInit /\ [][MsgrNext]_msgrVars /\ MsgrFairness

-----------------------------------------------------------------------------
(* pubsub validates the messages of a topic with the processor that direct *)
(* messages on the topic are given to, and only topics of the messenger    *)
(* have one.                                                               *)
ValidatorsAgree ==
  \A t \in MsgTopics : validators[t] = IF topics[t] \in Handlers THEN topics[t] ELSE "nil"

InFlight == {m \in Casts : cast[m].at \in {"started", "sending", "handed"}}

(* The throttler counts exactly the broadcasts between its two calls: no   *)
(* path leaves a count behind, and there are never more than it allows.    *)
ThrottlerExact == ngrt = Cardinality(InFlight) /\ ngrt <= broadcastGoRoutines

(* Each message taken by a channel is published at most once, and the      *)
(* messages of one channel in the order in which it took them.             *)
PublishedInOrder ==
  \A c \in Chans :
    LET out == SelectSeq(published, LAMBDA m : m \in Range(accepted[c]))
    IN  Len(out) <= Len(accepted[c]) /\ out = SubSeq(accepted[c], 1, Len(out))

(* No broadcast sends on a channel that was closed under it.               *)
NoSendOnClosed == ~panics

(* A broadcast that the throttler admits is published, also when its       *)
(* channel is removed after it took the message.                           *)
AdmittedIsPublished ==
  \A m \in Casts : (cast[m].at = "started") ~> (m \in Range(published))
=============================================================================
