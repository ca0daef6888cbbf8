--------------------------- MODULE WorkerChannels ---------------------------
(* The goroutines of a consensus worker (consensus/spos/worker.go) and the   *)
(* channels between them: the goroutines that execute the messages received, *)
(* one at a time under mutReceivedMessages; checkChannels, which takes a     *)
(* message from executeMessageChannel, calls its handler and signals a       *)
(* change in consensusStateChangedChannel; the listener of the               *)
(* synchronisation, which signals too; and the chronology, which runs the    *)
(* subrounds and waits for signals in Subround.DoWork.                       *)
(*                                                                           *)
(* BlsConsensus has each of these as one step; here they interleave.         *)
EXTENDS Integers, Sequences, Functions, FiniteSets

CONSTANTS
    Incoming,   \* the messages others send: [mtype, mround, from]
    MaxSyncs,   \* a bound: times the node reports it is synchronized
    LastRound   \* a bound: the rounds after it are alike, and have no messages

\* The subrounds: 1 is StartRound, 2 is Block, 3 is Signature.  A message of
\* type k is for subround k.
LastSubround == 3
NoSubround == 0
ASSUME IncomingAssumption ==
    /\ LastRound \in Nat \ {0} /\ MaxSyncs \in Nat /\ IsFiniteSet(Incoming)
    /\ \A m \in Incoming : m.mtype \in 2..LastSubround /\ m.mround \in 1..LastRound

VARIABLES
    syncedRound,      \* the round of the synchronized time
    rIndex,     \* rounder.Index()
    cRound,     \* consensusState.RoundIndex
    subround,   \* chronology.subroundId
    at,         \* where the chronology is: "loop", "job", "index", "check", "wait"
    closed,   \* the subrounds whose status is SsFinished
    heard,      \* the messages whose job is done in validatorRoundStates
    fresh,      \* messages not received yet
    received,   \* receivedMessages
    executors,  \* goroutines waiting for mutReceivedMessages: messages, or "stored"
    holder,     \* what the goroutine that has mutReceivedMessages does next
    checker,    \* checkChannels: "idle", "handle", "look", "send"
    handled,    \* the message checkChannels handles
    listeners,  \* receivedSyncState: how many are about to look, and to send
    signal,     \* the buffer of consensusStateChangedChannel
    reports     \* times the node was synchronized

wcVars == <<syncedRound, rIndex, cRound, subround, at, closed, heard, fresh, received,
            executors, holder, checker, handled, listeners, signal, reports>>
chronologyVars == <<rIndex, cRound, subround, at, closed>>
messageVars == <<fresh, received, executors, holder>>
checkerVars == <<checker, handled>>

NoMessage == [mtype |-> 0, mround |-> 0, from |-> "none"]
StoredMessages == [NoMessage EXCEPT !.from = "stored"]
Needed(k) == k # 1   \* all but StartRound wait for a message

NewWorker ==
    /\ syncedRound = 1 /\ rIndex = 0 /\ cRound = 0
    /\ subround = NoSubround /\ at = "loop"
    /\ closed = {} /\ heard = {}
    /\ fresh = Incoming /\ received = {}
    /\ executors = {} /\ holder = <<>>
    /\ checker = "idle" /\ handled = NoMessage
    /\ listeners = [look |-> 0, send |-> 0]
    /\ signal = FALSE /\ reports = 0
-----------------------------------------------------------------------------
(* Messages *)

CanProceed(m) == (m.mtype - 1) \in closed

\* ProcessReceivedMessage starts a goroutine; a message of a past round is refused
ReceiveConsensusMessage(m) ==
    /\ m \in fresh
    /\ fresh' = fresh \ {m}
    /\ executors' = IF cRound > m.mround THEN executors ELSE executors \cup {m}
    /\ UNCHANGED <<syncedRound, chronologyVars, heard, received, holder, checkerVars, listeners, signal, reports>>

CleanUp(k) == [NoMessage EXCEPT !.mtype = k]
\* The messages of a list, in the order they were stored in, which nothing depends on
ListOf(msgs) == CHOOSE f \in [1 .. Cardinality(msgs) -> msgs] : IsInjective(f)
\* executeStoredMessages: type by type, each list executed and then cleaned
StoredList(msgs) ==
    LET Walk(k) == ListOf({m \in msgs : m.mtype = k}) \o <<CleanUp(k)>>
    IN  Walk(2) \o Walk(3)

\* executeReceivedMessages, or ExecuteStoredMessages: under mutReceivedMessages
TakeMutex ==
    /\ holder = <<>>
    /\ \E e \in executors :
        /\ executors' = executors \ {e}
        /\ received' = received \cup ({e} \ {StoredMessages})
    /\ holder' = StoredList(received')
    /\ UNCHANGED <<syncedRound, chronologyVars, heard, fresh, checkerVars, listeners, signal, reports>>

\* What executeMessage sends to executeMessageChannel
Executes(m) == cRound = m.mround /\ CanProceed(m)

\* A message that may not proceed stays in its list
SkipMessage ==
    /\ holder # <<>> /\ Head(holder).mround # 0
    /\ ~Executes(Head(holder))
    /\ holder' = Tail(holder)
    /\ UNCHANGED <<syncedRound, chronologyVars, heard, fresh, received, executors, checkerVars, listeners, signal, reports>>

\* The channel has no buffer: the goroutine keeps the mutex until checkChannels
\* is there
SendMessage ==
    /\ holder # <<>> /\ Head(holder).mround # 0
    /\ Executes(Head(holder))
    /\ checker = "idle"
    /\ checker' = "handle" /\ handled' = Head(holder)
    /\ received' = received \ {Head(holder)}
    /\ holder' = Tail(holder)
    /\ UNCHANGED <<syncedRound, chronologyVars, heard, fresh, executors, listeners, signal, reports>>

getCleanedList(k) == {m \in received : m.mtype = k => m.mround >= rIndex}
CleanList ==
    /\ holder # <<>> /\ Head(holder).mround = 0
    /\ received' = getCleanedList(Head(holder).mtype)
    /\ holder' = Tail(holder)
    /\ UNCHANGED <<syncedRound, chronologyVars, heard, fresh, executors, checkerVars, listeners, signal, reports>>
-----------------------------------------------------------------------------
(* checkChannels *)

\* The conditions of the handlers: CanProcessReceivedMessage
MayHandle(m) ==
    /\ rIndex = m.mround
    /\ m \notin heard
    /\ m.mtype \notin closed

CallReceivedMessage ==
    /\ checker = "handle"
    /\ IF MayHandle(handled)
       THEN heard' = heard \cup {handled} /\ checker' = "look"
       ELSE checker' = "idle" /\ UNCHANGED heard
    /\ handled' = NoMessage
    /\ UNCHANGED <<syncedRound, chronologyVars, messageVars, listeners, signal, reports>>

\* The length of the channel is looked at before the send
\* Mutant: a send that gives up when nobody is in the select yet
Mut_AfterLook == IF signal THEN {"idle"} ELSE {"idle", "send"}
AfterLook == IF signal THEN {"idle"} ELSE {"send"}
LookAtSignal ==
    /\ checker = "look"
    /\ checker' \in AfterLook
    /\ UNCHANGED <<syncedRound, chronologyVars, heard, messageVars, handled, listeners, signal, reports>>
SendSignal ==
    /\ checker = "send" /\ ~signal
    /\ checker' = "idle" /\ signal' = TRUE
    /\ UNCHANGED <<syncedRound, chronologyVars, heard, messageVars, handled, listeners, reports>>
-----------------------------------------------------------------------------
(* receivedSyncState, a goroutine of notifySyncStateListeners *)

NotifySyncState ==
    /\ reports < MaxSyncs
    /\ reports' = reports + 1
    /\ listeners' = [listeners EXCEPT !.look = @ + 1]
    /\ UNCHANGED <<syncedRound, chronologyVars, heard, messageVars, checkerVars, signal>>
ListenerLooks ==
    /\ listeners.look > 0
    /\ listeners' = [look |-> listeners.look - 1, send |-> listeners.send + (IF signal THEN 0 ELSE 1)]
    /\ UNCHANGED <<syncedRound, chronologyVars, heard, messageVars, checkerVars, signal, reports>>
ListenerSends ==
    /\ listeners.send > 0 /\ ~signal
    /\ listeners' = [listeners EXCEPT !.send = @ - 1]
    /\ signal' = TRUE
    /\ UNCHANGED <<syncedRound, chronologyVars, heard, messageVars, checkerVars, reports>>
-----------------------------------------------------------------------------
(* The chronology *)

\* The rounds after LastRound are alike: two of them stand for all
TimePasses ==
    /\ syncedRound' = IF syncedRound < LastRound + 2 THEN syncedRound + 1 ELSE LastRound + 1
    /\ UNCHANGED <<chronologyVars, heard, messageVars, checkerVars, listeners, signal, reports>>

\* updateRound and initRound
UpdateToRound ==
    /\ at = "loop" /\ subround = NoSubround
    /\ rIndex # syncedRound
    /\ rIndex' = syncedRound /\ subround' = 1
    /\ UNCHANGED <<syncedRound, cRound, at, closed, heard, messageVars, checkerVars, listeners, signal, reports>>

\* DoWork: a goroutine executes the stored messages, the job is done beside it
StartsExecution == executors \cup {StoredMessages}
BeginWork ==
    /\ at = "loop" /\ subround # NoSubround
    /\ at' = IF subround = 1 THEN "job" ELSE "check"
    /\ executors' = StartsExecution
    /\ UNCHANGED <<syncedRound, rIndex, cRound, subround, closed, heard, fresh, received, holder,
                   checkerVars, listeners, signal, reports>>

\* doStartRoundJob: the state is reset first, the index comes after
ResetAt == "job"
StartJob ==
    /\ at \in {"job", "index"}
    /\ at' = IF at = "job" THEN "index" ELSE "check"
    /\ IF at = ResetAt
       THEN closed' = {} /\ heard' = {} /\ UNCHANGED cRound
       ELSE cRound' = rIndex /\ UNCHANGED <<closed, heard>>
    /\ UNCHANGED <<syncedRound, rIndex, subround, messageVars, checkerVars, listeners, signal, reports>>

ConsensusCheck == Needed(subround) => \E m \in heard : m.mtype = subround
AfterSubround == IF subround = LastSubround THEN NoSubround ELSE subround + 1

\* The check at the start of DoWork, and after a signal
DoCheck ==
    /\ at = "check"
    /\ IF ConsensusCheck
       THEN /\ closed' = closed \cup {subround}
            /\ subround' = AfterSubround
            /\ at' = "loop"
       ELSE at' = "wait" /\ UNCHANGED <<closed, subround>>
    /\ UNCHANGED <<syncedRound, rIndex, cRound, heard, messageVars, checkerVars, listeners, signal, reports>>

ReadSignal ==
    /\ at = "wait" /\ signal
    /\ signal' = FALSE /\ at' = "check"
    /\ UNCHANGED <<syncedRound, rIndex, cRound, subround, closed, heard, messageVars, checkerVars, listeners, reports>>

\* RemainingTime is over: Extend, and the round is left
WorkTimeout ==
    /\ at = "wait"
    /\ at' = "loop" /\ subround' = NoSubround
    /\ UNCHANGED <<syncedRound, rIndex, cRound, closed, heard, messageVars, checkerVars, listeners, signal, reports>>
-----------------------------------------------------------------------------
Execution == TakeMutex \/ SkipMessage \/ SendMessage \/ CleanList
Checking == CallReceivedMessage \/ LookAtSignal \/ SendSignal
Chronology == UpdateToRound \/ BeginWork \/ StartJob \/ DoCheck

WorkerNext ==
    \/ \E m \in Incoming : ReceiveConsensusMessage(m)
    \/ TakeMutex \/ SkipMessage \/ SendMessage \/ CleanList
    \/ CallReceivedMessage \/ LookAtSignal \/ SendSignal
    \/ NotifySyncState \/ ListenerLooks \/ ListenerSends
    \/ TimePasses
    \/ UpdateToRound \/ BeginWork \/ StartJob \/ DoCheck \/ ReadSignal \/ WorkTimeout
WorkerSpec == NewWorker /\ [][WorkerNext]_wcVars

\* Go runs a goroutine that can run; time passes; a select with a signal and an
\* expired timer takes each of them now and then; a channel serves its senders in
\* the order they came
WorkerFairness ==
    /\ WF_wcVars(Execution) /\ WF_wcVars(Chronology) /\ WF_wcVars(WorkTimeout)
    /\ WF_wcVars(TimePasses)
    /\ SF_wcVars(Checking) /\ SF_wcVars(ReadSignal)
LiveWorkerSpec == WorkerSpec /\ WorkerFairness
-----------------------------------------------------------------------------
(* Properties *)

WorkerTypeOK ==
    /\ cRound \in 0..(LastRound + 2) /\ subround \in 0..LastSubround
    /\ closed \subseteq 1..LastSubround /\ heard \subseteq Incoming
    /\ fresh \subseteq Incoming /\ received \subseteq Incoming
    /\ executors \subseteq Incoming \cup {StoredMessages}
    /\ checker \in {"idle", "handle", "look", "send"} /\ signal \in BOOLEAN

\* No wake-up is lost: while the chronology waits in DoWork for something that
\* has already been received, a signal is in the channel or checkChannels is
\* about to send one.
NoLostWakeUp ==
    at = "wait" /\ ConsensusCheck => signal \/ checker \in {"look", "send"}

\* No message is forgotten: one that is stored and may proceed is in front of a
\* goroutine that executes it, or of one that waits for the mutex.
NoForgottenMessage ==
    \A m \in received :
        Executes(m) /\ subround = m.mtype /\ at \in {"check", "wait"} =>
            executors # {} \/ m \in Range(holder)

\* A message counts only once the subround before its own is finished in its own
\* round: what an earlier round left in the state is gone before the round index
\* lets the messages of the new one through.
CountsAfterPrevious ==
    \A m \in heard : m.mround = cRound /\ (m.mtype - 1) \in closed

\* checkChannels blocks on a full channel only when the synchronisation signals
\* between its look at the channel and its send.
BlocksOnlyBehindListener == checker = "send" /\ signal => reports > 0

\* A goroutine that executes messages gives mutReceivedMessages back: no round of
\* waits among it, checkChannels and the chronology lasts.
MutexIsGivenBack == []<>(holder = <<>>)
=============================================================================
