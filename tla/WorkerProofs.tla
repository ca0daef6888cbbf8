---------------------------- MODULE WorkerProofs ----------------------------
(***************************************************************************)
(* TLAPS proofs about the goroutines that hand each other messages and     *)
(* signals, for any messages, transactions, blocks and bounds.             *)
(*   WorkerChannels: no wake-up of the chronology is lost, no message is   *)
(*   forgotten in the stores of the worker, and a message counts only in   *)
(*   its own round, after the subround before its own.                     *)
(*   MissingData: when no handler is overtaken between the lock and the    *)
(*   channel, a block is prepared only when all its transactions have      *)
(*   arrived.                                                              *)
(*   Interceptors: the throttler gets back every place it gave.            *)
(***************************************************************************)
EXTENDS WorkerChannels, MissingData, Interceptors, TLAPS

-----------------------------------------------------------------------------
(* The channels of the consensus worker                                    *)

\* What the goroutine with the mutex still has to do.
WorkItems == Incoming \cup {CleanUp(2), CleanUp(3)}

Types ==
  /\ syncedRound \in 0 .. LastRound + 2 /\ rIndex \in 0 .. LastRound + 2
  /\ cRound \in 0 .. LastRound + 2 /\ subround \in 0 .. LastSubround
  /\ at \in {"loop", "job", "index", "check", "wait"}
  /\ at # "loop" => subround # NoSubround
  /\ closed \subseteq 1 .. LastSubround /\ heard \subseteq Incoming
  /\ fresh \subseteq Incoming /\ received \subseteq Incoming
  /\ executors \subseteq Incoming \cup {StoredMessages}
  /\ holder \in Seq(WorkItems)
  /\ checker \in {"idle", "handle", "look", "send"}
  /\ checker = "handle" => handled \in Incoming
  /\ listeners \in [look : Nat, send : Nat]
  /\ signal \in BOOLEAN /\ reports \in Nat

\* The round is new to the chronology and the state of the last one still
\* stands, or is reset without its index.
Starting == (at = "loop" /\ subround = 1) \/ at \in {"job", "index"}

\* The index of the consensus state lags behind the rounder's, which lags behind
\* the time; they differ exactly while a round starts.
RoundOrder ==
  /\ rIndex <= syncedRound \/ (rIndex > LastRound /\ syncedRound > LastRound)
  /\ cRound <= rIndex \/ (cRound > LastRound /\ rIndex > LastRound)
  /\ Starting => cRound # rIndex /\ subround = 1
  /\ ~Starting => cRound = rIndex
  /\ at = "index" => heard = {}

\* A message that checkChannels has taken and not handled yet: the handlers let
\* it count only when what executeMessage saw still holds.
HandledInTime ==
  checker = "handle" =>
    /\ handled.mround <= cRound
    /\ handled.mround = rIndex => cRound = rIndex /\ (handled.mtype - 1) \in closed

ListenersReported == listeners.look > 0 \/ listeners.send > 0 => reports > 0

WorkerInv ==
  /\ Types /\ RoundOrder /\ HandledInTime /\ ListenersReported
  /\ NoLostWakeUp /\ NoForgottenMessage /\ CountsAfterPrevious
  /\ BlocksOnlyBehindListener

-----------------------------------------------------------------------------
(* Sequences                                                               *)

\* executeStoredMessages meets every stored message.  The steps below assume it;
\* StoredListFacts proves it.
StoredLists ==
  \A M \in SUBSET Incoming : StoredList(M) \in Seq(WorkItems) /\ M \subseteq Range(StoredList(M))

\* The first item, and the others.
LEMMA HolderFacts ==
  ASSUME holder \in Seq(WorkItems), holder # <<>>
  PROVE  /\ Head(holder) \in WorkItems /\ Tail(holder) \in Seq(WorkItems)
         /\ \A m \in Range(holder) : m = Head(holder) \/ m \in Range(Tail(holder))
<1>1. \A m \in Range(holder) : m = Head(holder) \/ m \in Range(Tail(holder))
  <2> SUFFICES ASSUME NEW i \in DOMAIN holder, i # 1
               PROVE  holder[i] \in Range(Tail(holder))
    BY DEF Range
  <2>1. i - 1 \in DOMAIN Tail(holder) /\ Tail(holder)[i - 1] = holder[i]
    OBVIOUS
  <2> QED BY <2>1, Zenon DEF Range
<1> QED BY <1>1

-----------------------------------------------------------------------------
(* One lemma per conjunct, and in it a step per action that may disturb it. *)

\* The types.
LEMMA TypesStep ==
  ASSUME StoredLists, Types, WorkerNext
  PROVE  Types'
<1>1. CASE UNCHANGED <<wcVars>>
  BY <1>1, Zenon DEF Types, LastSubround, NoSubround, wcVars
<1>2. ASSUME NEW m \in Incoming, ReceiveConsensusMessage(m) PROVE Types'
  BY <1>2, Zenon DEF Types, LastSubround, NoSubround, ReceiveConsensusMessage,
      chronologyVars, messageVars, checkerVars
<1>3. CASE TakeMutex
  <2>1. received' \in SUBSET Incoming
    BY <1>3, Zenon DEF Types, TakeMutex, StoredMessages
  <2>2. holder' \in Seq(WorkItems)
    BY <1>3, <2>1, Zenon DEF TakeMutex, StoredLists
  <2> QED BY <1>3, <2>1, <2>2 DEF Types, TakeMutex, chronologyVars, checkerVars
<1>4. CASE SkipMessage
  BY HolderFacts, IncomingAssumption, <1>4, Zenon DEF Types, LastSubround,
      NoSubround, SkipMessage, chronologyVars, messageVars, checkerVars,
      WorkItems, CleanUp, NoMessage, getCleanedList
<1>5. CASE SendMessage
  BY HolderFacts, IncomingAssumption, <1>5, Zenon DEF Types, LastSubround,
      NoSubround, SendMessage, chronologyVars, messageVars, checkerVars,
      WorkItems, CleanUp, NoMessage, getCleanedList
<1>6. CASE CleanList
  BY HolderFacts, IncomingAssumption, <1>6 DEF Types, LastSubround,
      NoSubround, CleanList, chronologyVars, messageVars, checkerVars,
      WorkItems, CleanUp, NoMessage, getCleanedList
<1>7. CASE NotifySyncState
  <2>1. listeners' \in [look : Nat, send : Nat] /\ reports' \in Nat
    BY <1>7 DEF Types, NotifySyncState
  <2> QED BY <1>7, <2>1, Zenon DEF Types, NotifySyncState, chronologyVars, messageVars, checkerVars
<1>8. CASE DoCheck
  <2>1. subround \in 1 .. LastSubround
    BY <1>8 DEF DoCheck, Types, NoSubround, LastSubround
  <2>2. /\ closed' \subseteq 1 .. LastSubround /\ subround' \in 0 .. LastSubround
        /\ at' \in {"loop", "wait"} /\ (at' # "loop" => subround' # NoSubround)
    <3>1. CASE ConsensusCheck
      <4>1. closed' = closed \cup {subround} /\ subround' = AfterSubround /\ at' = "loop"
        BY <1>8, <3>1, Zenon DEF DoCheck
      <4> QED BY <2>1, <4>1 DEF Types, AfterSubround, NoSubround, LastSubround
    <3>2. CASE ~ConsensusCheck
      <4>1. UNCHANGED <<closed, subround>> /\ at' = "wait"
        BY <1>8, <3>2, Zenon DEF DoCheck
      <4> QED BY <2>1, <4>1 DEF Types, NoSubround, LastSubround
    <3> QED BY <3>1, <3>2, Zenon
  <2> QED BY <1>8, <2>2, Zenon DEF DoCheck, Types, messageVars, checkerVars
<1>9. CASE ListenerLooks
  <2>1. (IF signal THEN 0 ELSE 1) \in Nat
    BY Zenon
  <2>2. listeners' \in [look : Nat, send : Nat]
    BY <1>9, <2>1 DEF Types, ListenerLooks
  <2> QED BY <1>9, <2>2 DEF Types, ListenerLooks, chronologyVars, messageVars, checkerVars
<1>10. CASE CallReceivedMessage
  BY IncomingAssumption, <1>10, Zenon DEF Types, LastSubround, NoSubround,
      CallReceivedMessage, chronologyVars, messageVars, checkerVars
<1>11. CASE LookAtSignal
  BY IncomingAssumption, <1>11, Zenon DEF Types, LastSubround, NoSubround,
      LookAtSignal, chronologyVars, messageVars, checkerVars, AfterLook
<1>12. CASE SendSignal
  BY IncomingAssumption, <1>12 DEF Types, LastSubround, NoSubround,
      SendSignal, chronologyVars, messageVars, checkerVars
<1>13. CASE ListenerSends
  BY IncomingAssumption, <1>13 DEF Types, LastSubround, NoSubround,
      ListenerSends, chronologyVars, messageVars, checkerVars
<1>14. CASE TimePasses
  BY IncomingAssumption, <1>14 DEF Types, LastSubround, NoSubround,
      TimePasses, chronologyVars, messageVars, checkerVars
<1>15. CASE UpdateToRound
  BY IncomingAssumption, <1>15 DEF Types, LastSubround, NoSubround,
      UpdateToRound, chronologyVars, messageVars, checkerVars
<1>16. CASE BeginWork
  BY IncomingAssumption, <1>16, Zenon DEF Types, LastSubround, NoSubround,
      BeginWork, chronologyVars, messageVars, checkerVars, StartsExecution,
      StoredMessages
<1>17. CASE StartJob
  BY IncomingAssumption, <1>17, Zenon DEF Types, LastSubround, NoSubround,
      StartJob, chronologyVars, messageVars, checkerVars
<1>18. CASE ReadSignal
  BY IncomingAssumption, <1>18, Zenon DEF Types, LastSubround, NoSubround,
      ReadSignal, chronologyVars, messageVars, checkerVars
<1>19. CASE WorkTimeout
  BY IncomingAssumption, <1>19, SMTT(20) DEF Types, LastSubround, NoSubround,
      WorkTimeout, chronologyVars, messageVars, checkerVars
<1> QED BY <1>1, <1>2, <1>3, <1>4, <1>5, <1>6, <1>7, <1>8, <1>9, <1>10,
    <1>11, <1>12, <1>13, <1>14, <1>15, <1>16, <1>17, <1>18, <1>19, Zenon DEF
    WorkerNext

\* The indices: only updateRound and doStartRoundJob move them.
LEMMA RoundOrderStep ==
  ASSUME Types, RoundOrder, HandledInTime, WorkerNext
  PROVE  RoundOrder'
<1>1. CASE UNCHANGED <<syncedRound, rIndex, cRound, at, subround, heard>>
  BY <1>1, Zenon DEF RoundOrder, Starting
<1>2. CASE CallReceivedMessage
  BY <1>2, Zenon DEF RoundOrder, Starting, CallReceivedMessage, chronologyVars,
      messageVars, checkerVars, Types, HandledInTime, MayHandle
<1>3. CASE TimePasses
  BY IncomingAssumption, <1>3 DEF RoundOrder, Starting, TimePasses,
      chronologyVars, messageVars, checkerVars, Types
<1>4. CASE UpdateToRound
  BY <1>4 DEF RoundOrder, Starting, UpdateToRound, chronologyVars,
      messageVars, checkerVars, Types, NoSubround
<1>5. CASE BeginWork
  BY <1>5, Zenon DEF RoundOrder, Starting, BeginWork, chronologyVars, messageVars,
      checkerVars, NoSubround
<1>6. CASE StartJob
  BY <1>6 DEF RoundOrder, Starting, StartJob, chronologyVars, messageVars,
      checkerVars, Types, ResetAt
<1>7. CASE DoCheck
  BY <1>7 DEF RoundOrder, Starting, DoCheck, chronologyVars, messageVars,
      checkerVars, AfterSubround, LastSubround, NoSubround, Types
<1>8. CASE ReadSignal
  BY <1>8, Zenon DEF RoundOrder, Starting, ReadSignal, chronologyVars, messageVars,
      checkerVars
<1>9. CASE WorkTimeout
  BY <1>9, SMTT(20) DEF RoundOrder, Starting, WorkTimeout, chronologyVars,
      messageVars, checkerVars, NoSubround
<1> QED BY <1>1, <1>2, <1>3, <1>4, <1>5, <1>6, <1>7, <1>8, <1>9, Zenon DEF
    WorkerNext, TakeMutex, SkipMessage, SendMessage, CleanList,
    LookAtSignal, SendSignal, NotifySyncState, ListenerLooks, ListenerSends,
    ReceiveConsensusMessage, chronologyVars, messageVars, checkerVars

\* The message in the hands of checkChannels: the round it was executed in
\* stays the round of the state until the chronology starts a later one.
LEMMA HandledInTimeStep ==
  ASSUME Types, RoundOrder, HandledInTime, WorkerNext
  PROVE  HandledInTime'
<1>1. CASE UNCHANGED <<rIndex, cRound, closed, checker, handled>>
  BY <1>1, Zenon DEF HandledInTime
<1>2. CASE SendMessage
  BY HolderFacts, <1>2 DEF HandledInTime, SendMessage, chronologyVars,
      messageVars, checkerVars, Types, Executes, CanProceed, WorkItems
<1>3. CASE CallReceivedMessage
  BY <1>3, Zenon DEF HandledInTime, CallReceivedMessage, chronologyVars,
      messageVars, checkerVars
<1>4. CASE LookAtSignal
  BY <1>4, Zenon DEF HandledInTime, LookAtSignal, chronologyVars, messageVars,
      checkerVars, AfterLook
<1>5. CASE SendSignal
  BY <1>5, Zenon DEF HandledInTime, SendSignal, chronologyVars, messageVars,
      checkerVars
<1>6. CASE UpdateToRound
  BY IncomingAssumption, <1>6 DEF HandledInTime, UpdateToRound,
      chronologyVars, messageVars, checkerVars, Types, RoundOrder, Starting,
      NoSubround
<1>7. CASE StartJob
  BY IncomingAssumption, <1>7 DEF HandledInTime, StartJob, chronologyVars,
      messageVars, checkerVars, Types, RoundOrder, Starting, ResetAt
<1>8. CASE DoCheck
  BY <1>8, Zenon DEF HandledInTime, DoCheck, chronologyVars, messageVars,
      checkerVars
<1> QED BY <1>1, <1>2, <1>3, <1>4, <1>5, <1>6, <1>7, <1>8, Zenon DEF WorkerNext,
    TakeMutex, SkipMessage, CleanList, NotifySyncState, ListenerLooks,
    ListenerSends, TimePasses, BeginWork, ReadSignal, WorkTimeout,
    ReceiveConsensusMessage, chronologyVars, messageVars, checkerVars

\* The messages that count.
LEMMA CountsStep ==
  ASSUME Types, RoundOrder, HandledInTime, CountsAfterPrevious, WorkerNext
  PROVE  CountsAfterPrevious'
<1>1. CASE UNCHANGED <<heard, cRound, closed>>
  BY <1>1, Zenon DEF CountsAfterPrevious
<1>2. CASE CallReceivedMessage
  BY <1>2, Zenon DEF CountsAfterPrevious, CallReceivedMessage, chronologyVars,
      messageVars, checkerVars, HandledInTime, MayHandle
<1>3. CASE StartJob
  BY <1>3, Zenon DEF CountsAfterPrevious, StartJob, chronologyVars, messageVars,
      checkerVars, RoundOrder, ResetAt
<1>4. CASE DoCheck
  BY <1>4, Zenon DEF CountsAfterPrevious, DoCheck, chronologyVars, messageVars,
      checkerVars
<1> QED BY <1>1, <1>2, <1>3, <1>4, Zenon DEF WorkerNext, TakeMutex, SkipMessage,
    SendMessage, CleanList, LookAtSignal, SendSignal, NotifySyncState,
    ListenerLooks, ListenerSends, TimePasses, UpdateToRound, BeginWork,
    ReadSignal, WorkTimeout, ReceiveConsensusMessage, chronologyVars,
    messageVars, checkerVars

\* The wake-ups: whoever makes the check hold is about to look at the
\* channel, and what is read from it is followed by a check.
LEMMA WakeUpStep ==
  ASSUME Types, NoLostWakeUp, WorkerNext
  PROVE  NoLostWakeUp'
<1>1. CASE UNCHANGED <<at, subround, heard, signal, checker>>
  BY <1>1, Zenon DEF NoLostWakeUp, ConsensusCheck
<1>2. CASE SendMessage
  BY <1>2, Zenon DEF NoLostWakeUp, ConsensusCheck, SendMessage, chronologyVars,
      messageVars, checkerVars
<1>3. CASE CallReceivedMessage
  BY <1>3, Zenon DEF NoLostWakeUp, ConsensusCheck, CallReceivedMessage,
      chronologyVars, messageVars, checkerVars
<1>4. CASE LookAtSignal
  BY <1>4, Zenon DEF NoLostWakeUp, ConsensusCheck, LookAtSignal, chronologyVars,
      messageVars, checkerVars, AfterLook
<1>5. CASE SendSignal
  BY <1>5 DEF NoLostWakeUp, ConsensusCheck, SendSignal, chronologyVars,
      messageVars, checkerVars
<1>6. CASE ListenerSends
  BY <1>6, Zenon DEF NoLostWakeUp, ConsensusCheck, ListenerSends, chronologyVars,
      messageVars, checkerVars
<1>7. CASE UpdateToRound
  BY <1>7, Zenon DEF NoLostWakeUp, ConsensusCheck, UpdateToRound, chronologyVars,
      messageVars, checkerVars
<1>8. CASE BeginWork
  BY <1>8, Zenon DEF NoLostWakeUp, ConsensusCheck, BeginWork, chronologyVars,
      messageVars, checkerVars
<1>9. CASE StartJob
  BY <1>9, Zenon DEF NoLostWakeUp, ConsensusCheck, StartJob, chronologyVars,
      messageVars, checkerVars
<1>10. CASE DoCheck
  BY <1>10, Zenon DEF NoLostWakeUp, ConsensusCheck, DoCheck, chronologyVars,
      messageVars, checkerVars
<1>11. CASE ReadSignal
  BY <1>11, Zenon DEF NoLostWakeUp, ConsensusCheck, ReadSignal, chronologyVars,
      messageVars, checkerVars
<1>12. CASE WorkTimeout
  BY <1>12, Zenon DEF NoLostWakeUp, ConsensusCheck, WorkTimeout, chronologyVars,
      messageVars, checkerVars
<1> QED BY <1>1, <1>2, <1>3, <1>4, <1>5, <1>6, <1>7, <1>8, <1>9, <1>10,
    <1>11, <1>12, Zenon DEF WorkerNext, TakeMutex, SkipMessage, CleanList,
    NotifySyncState, ListenerLooks, TimePasses, ReceiveConsensusMessage,
    chronologyVars, messageVars, checkerVars

\* The stored messages: the walk over the lists meets every message of the
\* subround, and a subround starts with such a walk.
LEMMA ForgottenStep ==
  ASSUME StoredLists, Types, RoundOrder, NoForgottenMessage, WorkerNext
  PROVE  NoForgottenMessage'
<1>1. CASE UNCHANGED <<received, cRound, closed, subround, at, executors, holder>>
  BY <1>1, Zenon DEF NoForgottenMessage, Executes, CanProceed
<1>2. ASSUME NEW m \in Incoming, ReceiveConsensusMessage(m) PROVE NoForgottenMessage'
  BY <1>2, Zenon DEF NoForgottenMessage, Executes, CanProceed,
      ReceiveConsensusMessage, chronologyVars, messageVars, checkerVars
<1>3. CASE TakeMutex
  <2>1. received' \in SUBSET Incoming
    BY <1>3, Zenon DEF Types, TakeMutex, StoredMessages
  <2>2. received' \subseteq Range(holder')
    BY <1>3, <2>1, Zenon DEF TakeMutex, StoredLists
  <2> QED BY <2>2, Zenon DEF NoForgottenMessage
<1>4. CASE SkipMessage
  BY HolderFacts, <1>4, Zenon DEF NoForgottenMessage, Executes, CanProceed,
      SkipMessage, chronologyVars, messageVars, checkerVars, Types
<1>5. CASE SendMessage
  BY HolderFacts, <1>5 DEF NoForgottenMessage, Executes, CanProceed,
      SendMessage, chronologyVars, messageVars, checkerVars, Types
<1>6. CASE CleanList
  BY HolderFacts, IncomingAssumption, <1>6, SMTT(20) DEF NoForgottenMessage, Executes,
      CanProceed, CleanList, chronologyVars, messageVars, checkerVars,
      Types, getCleanedList
<1>7. CASE UpdateToRound
  BY <1>7, Zenon DEF NoForgottenMessage, Executes, CanProceed, UpdateToRound,
      chronologyVars, messageVars, checkerVars
<1>8. CASE BeginWork
  BY IncomingAssumption, <1>8, Zenon DEF NoForgottenMessage, Executes, CanProceed,
      BeginWork, chronologyVars, messageVars, checkerVars, Types,
      StartsExecution
<1>9. CASE StartJob
  BY IncomingAssumption, <1>9 DEF NoForgottenMessage, Executes, CanProceed,
      StartJob, chronologyVars, messageVars, checkerVars, Types, RoundOrder,
      Starting
<1>10. CASE DoCheck
  BY <1>10, Zenon DEF NoForgottenMessage, Executes, CanProceed, DoCheck,
      chronologyVars, messageVars, checkerVars
<1>11. CASE ReadSignal
  BY <1>11, Zenon DEF NoForgottenMessage, Executes, CanProceed, ReadSignal,
      chronologyVars, messageVars, checkerVars
<1>12. CASE WorkTimeout
  BY <1>12, Zenon DEF NoForgottenMessage, Executes, CanProceed, WorkTimeout,
      chronologyVars, messageVars, checkerVars
<1> QED BY <1>1, <1>2, <1>3, <1>4, <1>5, <1>6, <1>7, <1>8, <1>9, <1>10,
    <1>11, <1>12, Zenon DEF WorkerNext, CallReceivedMessage, LookAtSignal,
    SendSignal, NotifySyncState, ListenerLooks, ListenerSends, TimePasses,
    chronologyVars, messageVars, checkerVars

\* The listeners of the synchronisation.
LEMMA ListenersStep ==
  ASSUME Types, ListenersReported, BlocksOnlyBehindListener, WorkerNext
  PROVE  ListenersReported' /\ BlocksOnlyBehindListener'
<1>1. CASE UNCHANGED <<listeners, reports, checker, signal>>
  BY <1>1 DEF ListenersReported, BlocksOnlyBehindListener
<1>2. CASE SendMessage \/ CallReceivedMessage \/ LookAtSignal \/ SendSignal
  BY <1>2 DEF ListenersReported, BlocksOnlyBehindListener, SendMessage, CallReceivedMessage,
              LookAtSignal, AfterLook, SendSignal
<1>3. CASE NotifySyncState \/ ListenerLooks \/ ListenerSends \/ ReadSignal
  BY <1>3 DEF ListenersReported, BlocksOnlyBehindListener, Types, NotifySyncState,
              ListenerLooks, ListenerSends, ReadSignal, checkerVars
<1> QED BY <1>1, <1>2, <1>3, Zenon DEF WorkerNext, ReceiveConsensusMessage, TakeMutex, SkipMessage, CleanList, TimePasses,
        UpdateToRound, BeginWork, StartJob, DoCheck, WorkTimeout, messageVars, checkerVars

LEMMA WorkerInitInv == NewWorker => WorkerInv
<1> SUFFICES ASSUME NewWorker PROVE WorkerInv
  BY Zenon
<1>1. Types
  <2>1. listeners \in [look : Nat, send : Nat] /\ holder \in Seq(WorkItems)
    BY DEF NewWorker
  <2>2. /\ syncedRound \in 0 .. LastRound + 2 /\ rIndex \in 0 .. LastRound + 2
        /\ cRound \in 0 .. LastRound + 2 /\ subround \in 0 .. LastSubround
        /\ reports \in Nat
    BY IncomingAssumption DEF NewWorker, LastSubround, NoSubround
  <2>3. /\ at = "loop" /\ checker = "idle" /\ signal = FALSE
        /\ closed = {} /\ heard = {} /\ fresh = Incoming /\ received = {} /\ executors = {}
    BY Zenon DEF NewWorker
  <2> QED BY <2>1, <2>2, <2>3, Zenon DEF Types
<1>2. RoundOrder /\ HandledInTime /\ ListenersReported
  BY DEF NewWorker, RoundOrder, Starting, HandledInTime, ListenersReported, NoSubround
<1>3. /\ NoLostWakeUp /\ NoForgottenMessage /\ CountsAfterPrevious
      /\ BlocksOnlyBehindListener
  BY Zenon DEF NewWorker, NoLostWakeUp, NoForgottenMessage, CountsAfterPrevious,
         BlocksOnlyBehindListener
<1> QED BY <1>1, <1>2, <1>3, Zenon DEF WorkerInv

LEMMA WorkerNextInv ==
  ASSUME StoredLists, WorkerInv, [WorkerNext]_wcVars
  PROVE  WorkerInv'
<1>1. CASE WorkerNext
  BY <1>1, TypesStep, RoundOrderStep, HandledInTimeStep, CountsStep, WakeUpStep,
     ForgottenStep, ListenersStep DEF WorkerInv
<1>2. CASE UNCHANGED wcVars
  BY <1>2 DEF wcVars, WorkerInv, Types, RoundOrder, Starting, HandledInTime,
     ListenersReported, NoLostWakeUp, ConsensusCheck, NoForgottenMessage, Executes,
     CanProceed, CountsAfterPrevious, BlocksOnlyBehindListener
<1> QED BY <1>1, <1>2

-----------------------------------------------------------------------------
(* What follows for the worker                                             *)

INSTANCE FiniteSetTheorems

\* A list of stored messages has all of them.
LEMMA ListOfFacts ==
  ASSUME NEW S, IsFiniteSet(S)
  PROVE  ListOf(S) \in Seq(S) /\ S \subseteq Range(ListOf(S))
<1> DEFINE n == Cardinality(S)
           q == ListOf(S)
<1>1. n \in Nat /\ ExistsBijection(1 .. n, S)
  BY FS_CardinalityType, Zenon
<1>2. PICK f : f \in Bijection(1 .. n, S)
  BY <1>1, Zenon DEF ExistsBijection
<1>3. f \in [1 .. n -> S] /\ IsInjective(f)
  BY <1>2, Zenon DEF Bijection, Injection, IsInjective
<1>4. q \in [1 .. n -> S] /\ IsInjective(q)
  BY <1>3 DEF ListOf
<1>5. q \in Injection(1 .. n, S)
  BY <1>4, Zenon DEF Injection, IsInjective
<1>6. Cardinality(1 .. n) = Cardinality(S)
  BY <1>1, FS_Interval
<1>7. q \in Surjection(1 .. n, S)
  BY <1>5, <1>6, FS_Injection, Zenon
<1> QED BY <1>1, <1>4, <1>7 DEF Surjection, Range

\* A concatenation has what its parts have.
LEMMA ConcatFacts ==
  ASSUME NEW W, NEW a \in Seq(W), NEW b \in Seq(W)
  PROVE  a \o b \in Seq(W) /\ Range(a) \cup Range(b) \subseteq Range(a \o b)
<1>1. \A i \in DOMAIN a : i \in DOMAIN (a \o b) /\ (a \o b)[i] = a[i]
  OBVIOUS
<1>2. \A i \in DOMAIN b : Len(a) + i \in DOMAIN (a \o b) /\ (a \o b)[Len(a) + i] = b[i]
  OBVIOUS
<1>3. Range(a) \subseteq Range(a \o b)
  BY <1>1, Zenon DEF Range
<1>4. Range(b) \subseteq Range(a \o b)
  BY <1>2, Zenon DEF Range
<1> QED BY <1>3, <1>4

LEMMA StoredListFacts == StoredLists
<1> SUFFICES ASSUME NEW M \in SUBSET Incoming
             PROVE  StoredList(M) \in Seq(WorkItems) /\ M \subseteq Range(StoredList(M))
  BY Zenon DEF StoredLists
<1> DEFINE Kind(k) == ListOf({m \in M : m.mtype = k})
           a == Kind(2) \o <<CleanUp(2)>>
           b == Kind(3) \o <<CleanUp(3)>>
<1>1. IsFiniteSet(M)
  BY IncomingAssumption, FS_Subset
<1>2. ASSUME NEW k \in 2 .. 3
      PROVE  Kind(k) \in Seq(WorkItems) /\ {m \in M : m.mtype = k} \subseteq Range(Kind(k))
  <2>1. IsFiniteSet({m \in M : m.mtype = k})
    BY <1>1, FS_Subset
  <2>2. Kind(k) \in Seq({m \in M : m.mtype = k}) /\ {m \in M : m.mtype = k} \subseteq Range(Kind(k))
    BY <2>1, ListOfFacts, Zenon
  <2> QED BY <2>2 DEF WorkItems
<1>3. /\ Kind(2) \in Seq(WorkItems) /\ {m \in M : m.mtype = 2} \subseteq Range(Kind(2))
      /\ Kind(3) \in Seq(WorkItems) /\ {m \in M : m.mtype = 3} \subseteq Range(Kind(3))
  BY <1>2
<1>4. StoredList(M) = a \o b
  BY Zenon DEF StoredList
<1> HIDE DEF Kind
<1>5. <<CleanUp(2)>> \in Seq(WorkItems) /\ <<CleanUp(3)>> \in Seq(WorkItems)
  BY DEF WorkItems
<1>6. /\ a \in Seq(WorkItems) /\ Range(Kind(2)) \subseteq Range(a)
      /\ b \in Seq(WorkItems) /\ Range(Kind(3)) \subseteq Range(b)
  BY <1>3, <1>5, ConcatFacts, Zenon
<1> HIDE DEF a, b
<1>7. a \o b \in Seq(WorkItems) /\ Range(a) \cup Range(b) \subseteq Range(a \o b)
  BY <1>6, ConcatFacts, Zenon
<1>8. \A m \in M : m.mtype = 2 \/ m.mtype = 3
  BY IncomingAssumption DEF LastSubround
<1> QED BY <1>3, <1>4, <1>6, <1>7, <1>8, Zenon

\* The inductive invariant holds in every reachable state of the worker.
THEOREM WorkerInvariance == WorkerSpec => []WorkerInv
<1>1. WorkerInv /\ [WorkerNext]_wcVars => WorkerInv'
  BY StoredListFacts, WorkerNextInv, Zenon
<1> QED BY <1>1, WorkerInitInv, PTL DEF WorkerSpec

\* consensusStateChangedChannel with its look before the send loses no wake-up of
\* DoWork, for any messages, rounds and reports of the synchronisation.
THEOREM WakeUps == WorkerSpec => []NoLostWakeUp
BY WorkerInvariance, PTL DEF WorkerInv

\* A stored message that may proceed is always in front of a goroutine
\* (ExecuteStoredMessages, executeReceivedMessages).
THEOREM NoneForgotten == WorkerSpec => []NoForgottenMessage
BY WorkerInvariance, PTL DEF WorkerInv

\* A message counts only in its own round, after the subround before its own
\* (executeMessage, checkChannels and doStartRoundJob in any order).
THEOREM CountsInOrder == WorkerSpec => []CountsAfterPrevious
BY WorkerInvariance, PTL DEF WorkerInv

\* checkChannels blocks on a full channel only behind a listener.
THEOREM BlockedByListener == WorkerSpec => []BlocksOnlyBehindListener
BY WorkerInvariance, PTL DEF WorkerInv

-----------------------------------------------------------------------------
(* The wait for missing transactions                                       *)

Inv == TypeOK /\ SignalInv

\* The transactions of a block are finitely many.
LEMMA FiniteBody ==
  ASSUME TypeOK, NEW S, S \subseteq Body[blk]
  PROVE  IsFiniteSet(S) /\ Cardinality(S) \in Nat /\ (Cardinality(S) = 0 <=> S = {})
<1>1. Body[blk] \subseteq Txs
  BY BodyAssumption, Zenon DEF TypeOK
<1>2. IsFiniteSet(S)
  BY <1>1, BodyAssumption, FS_Subset, Zenon
<1> QED BY <1>2, FS_CardinalityType, FS_EmptySet, Zenon

LEMMA InitInv == Init => Inv
<1> SUFFICES ASSUME Init PROVE Inv
  BY Zenon
<1>1. TypeOK
  BY BodyAssumption DEF Init, TypeOK, Blocks, HandlerStates
<1>2. SignalInv
  BY Zenon DEF Init, SignalInv, PreparedIsComplete
<1> QED BY <1>1, <1>2, Zenon DEF Inv

-----------------------------------------------------------------------------
(* The pool and the handlers                                               *)

LEMMA AddDataStep ==
  ASSUME Inv, NEW t \in Txs, AddData(t)
  PROVE  Inv'
<1>1. TypeOK'
  BY Zenon DEF Inv, TypeOK, AddData, HandlerStates
<1>2. Signals' = Signals
  BY Zenon DEF Inv, TypeOK, AddData, Signals, HandlerStates
<1>3. SignalInv'
  BY <1>2, Zenon DEF Inv, AddData, SignalInv, PreparedIsComplete
<1> QED BY <1>1, <1>3, Zenon DEF Inv

LEMMA EvictStep ==
  ASSUME Inv, NEW t \in Txs, Evict(t)
  PROVE  Inv'
<1>1. TypeOK'
  BY BodyAssumption DEF Inv, TypeOK, Evict
<1>2. Signals' = Signals
  BY Zenon DEF Evict, Signals
<1>3. SignalInv'
  BY <1>2, Zenon DEF Inv, Evict, SignalInv, PreparedIsComplete
<1> QED BY <1>1, <1>3 DEF Inv

\* A handler that takes a missing transaction off the count, or finds nothing to
\* do.
LEMMA ReceivedStep ==
  ASSUME Inv, NEW t \in Txs, baseReceivedTransaction(t)
  PROVE  Inv'
<1> DEFINE hit == t \in table \ got /\ t \in pool
<1>1. /\ handler[t] = "start" /\ missing \in Nat /\ got \subseteq table
      /\ handler \in [Txs -> HandlerStates]
      /\ UNCHANGED <<pool, evictions, blk, pc, toSet, table>>
  BY Zenon DEF Inv, TypeOK, baseReceivedTransaction
<1>2. CASE missing = 0
  <2>1. /\ handler' = [handler EXCEPT ![t] = "none"]
        /\ UNCHANGED <<missing, got>>
    BY <1>2 DEF baseReceivedTransaction
  <2>2. Signals' = Signals
    BY <1>1, <2>1, Zenon DEF Signals
  <2>3. TypeOK'
    BY <1>1, <2>1, Zenon DEF Inv, TypeOK, HandlerStates
  <2>4. SignalInv'
    BY <1>1, <2>1, <2>2, Zenon DEF Inv, SignalInv, PreparedIsComplete
  <2> QED BY <2>3, <2>4 DEF Inv
<1>3. CASE missing > 0
  <2>1. /\ got' = IF hit THEN got \cup {t} ELSE got
        /\ missing' = IF hit THEN missing - 1 ELSE missing
        /\ handler' = [handler EXCEPT ![t] =
                         IF missing' = 0 THEN "decided" ELSE "none"]
    BY <1>3, Zenon DEF baseReceivedTransaction
  <2>2. TypeOK'
    BY <1>1, <1>3, <2>1 DEF Inv, TypeOK, HandlerStates
  <2>3. pc \in {"set", "wait"}
    BY <1>3 DEF Inv, TypeOK, SignalInv
  <2>4. missing' # 0 => Signals' = Signals
    BY <1>1, <2>1, Zenon DEF Signals
  <2>5. missing' = 0 => t \in Signals'
    BY <1>1, <2>1, Zenon DEF Signals
  <2>6. CASE pc = "set"
    <3>1. ~hit
      BY <2>6, Zenon DEF Inv, SignalInv
    <3>2. missing' = missing /\ got' = got /\ Signals' = Signals
      BY <1>1, <1>3, <2>1, <2>4, <3>1
    <3>3. SignalInv'
      BY <1>1, <2>6, <3>2, Zenon DEF Inv, SignalInv, PreparedIsComplete
    <3> QED BY <2>2, <3>3 DEF Inv
  <2>7. CASE pc = "wait"
    <3>1. table = Body[blk] /\ missing = Cardinality(Body[blk] \ got)
          /\ Signals = {}
      BY <1>1, <1>3, <2>7 DEF Inv, SignalInv
    <3>2. missing' = Cardinality(Body[blk] \ got')
      <4>1. CASE hit
        <5>1. IsFiniteSet(Body[blk] \ got)
          BY FiniteBody, Zenon DEF Inv
        <5>2. t \in Body[blk] \ got
          BY <3>1, <4>1, Zenon
        <5>3. Body[blk] \ got' = (Body[blk] \ got) \ {t}
          BY <2>1, <4>1, Zenon
        <5> QED BY <2>1, <3>1, <4>1, <5>1, <5>2, <5>3, FS_RemoveElement, Zenon
      <4>2. CASE ~hit
        BY <2>1, <3>1, <4>2, Zenon
      <4> QED BY <4>1, <4>2, Zenon
    <3>3. missing' = 0 <=> Signals' # {}
      BY <2>4, <2>5, <3>1, Zenon
    <3>4. SignalInv'
      BY <1>1, <2>7, <3>1, <3>2, <3>3, Zenon DEF SignalInv, PreparedIsComplete
    <3> QED BY <2>2, <3>4 DEF Inv
  <2> QED BY <2>3, <2>6, <2>7, Zenon
<1> QED BY <1>1, <1>2, <1>3

LEMMA ReachChannelStep ==
  ASSUME Inv, NEW t \in Txs, ReachChannel(t)
  PROVE  Inv'
<1>1. TypeOK'
  BY Zenon DEF Inv, TypeOK, ReachChannel, HandlerStates
<1>2. Signals' = Signals
  BY Zenon DEF Inv, TypeOK, ReachChannel, Signals
<1>3. SignalInv'
  BY <1>2, Zenon DEF Inv, ReachChannel, SignalInv, PreparedIsComplete
<1> QED BY <1>1, <1>3 DEF Inv

-----------------------------------------------------------------------------
(* The processing goroutine                                                *)

LEMMA EmptyChannelStep ==
  ASSUME Inv, ~Slow, EmptyChannel
  PROVE  Inv'
<1>1. TypeOK'
  BY Zenon DEF Inv, TypeOK, EmptyChannel, Senders, HandlerStates
<1>2. Signals' = {}
  BY Zenon DEF Inv, TypeOK, EmptyChannel, Senders, Signals, HandlerStates
<1>3. SignalInv'
  BY <1>2, Zenon DEF Inv, EmptyChannel, SignalInv, PreparedIsComplete
<1> QED BY <1>1, <1>3, Zenon DEF Inv

LEMMA CreateBlockStartedStep ==
  ASSUME Inv, CreateBlockStarted
  PROVE  Inv'
<1>1. TypeOK'
  BY Zenon DEF Inv, TypeOK, CreateBlockStarted
<1>2. Signals' = Signals
  BY Zenon DEF CreateBlockStarted, Signals
<1>3. SignalInv'
  BY <1>2, Zenon DEF Inv, CreateBlockStarted, SignalInv, PreparedIsComplete
<1> QED BY <1>1, <1>3, Zenon DEF Inv

\* Everything that is in the pool is in the table, the rest is counted.
LEMMA ComputeStep ==
  ASSUME Inv, computeExistingAndMissing
  PROVE  Inv'
<1> DEFINE B == Body[blk]
<1>1. /\ B \subseteq Txs /\ Cardinality(B \ pool) \in Nat
  BY FiniteBody, BodyAssumption, Zenon DEF Inv, TypeOK
<1>2. /\ missing = 0 /\ table = {} /\ got = {} /\ Signals = {}
  BY Zenon DEF Inv, TypeOK, SignalInv, computeExistingAndMissing
<1>3. /\ table' = B \cap pool /\ got' = B \cap pool /\ toSet' = B \ pool
      /\ missing' = Cardinality(B \ pool) /\ pc' = "set"
      /\ UNCHANGED <<pool, evictions, handler, blk>>
  BY <1>1, <1>2 DEF computeExistingAndMissing
<1>4. TypeOK'
  BY <1>1, <1>3, Zenon DEF Inv, TypeOK
<1>5. Signals' = {}
  BY <1>2, <1>3, Zenon DEF Signals
<1>6. B \cap pool = B \ (B \ pool)
  BY Zenon
<1>7. SignalInv'
  BY <1>3, <1>5, <1>6, Zenon DEF SignalInv, PreparedIsComplete
<1> QED BY <1>4, <1>7 DEF Inv

\* What was counted is what the table lacks.
LEMMA RequestStep ==
  ASSUME Inv, RequestBlockTransactions
  PROVE  Inv'
<1> DEFINE B == Body[blk]
<1>1. /\ toSet \subseteq B /\ table = B \ toSet /\ got = B \ toSet
      /\ missing = Cardinality(toSet) /\ Signals = {} /\ B \subseteq Txs
  BY BodyAssumption, Zenon DEF Inv, TypeOK, SignalInv, RequestBlockTransactions
<1>2. Cardinality(toSet) = 0 <=> toSet = {}
  BY <1>1, FiniteBody, Zenon DEF Inv
<1>3. /\ table' = B /\ got' = B \ toSet /\ toSet' = {}
      /\ pc' = IF toSet = {} THEN "prepared" ELSE "wait"
      /\ UNCHANGED <<pool, evictions, handler, blk, missing>>
  BY <1>1, Zenon DEF RequestBlockTransactions
<1>4. TypeOK'
  BY <1>1, <1>3, Zenon DEF Inv, TypeOK
<1>5. Signals' = {} /\ B \ got' = toSet
  BY <1>1, <1>3, Zenon DEF Signals
<1>6. SignalInv'
  BY <1>1, <1>2, <1>3, <1>5 DEF SignalInv, PreparedIsComplete
<1> QED BY <1>4, <1>6, Zenon DEF Inv

\* A signal means that nothing is missing any more.
LEMMA ReceiveStep ==
  ASSUME Inv, NEW t \in Txs, Receive(t)
  PROVE  Inv'
<1>1. TypeOK'
  BY Zenon DEF Inv, TypeOK, Receive, HandlerStates
<1>2. t \in Signals /\ pc = "wait"
  BY Zenon DEF Receive, Senders, Signals
<1>3. Cardinality(Body[blk] \ got) = 0
  BY <1>2, Zenon DEF Inv, SignalInv
<1>4. Body[blk] \subseteq got
  BY <1>3, FiniteBody, Zenon DEF Inv
<1>5. SignalInv'
  BY <1>4, Zenon DEF Receive, SignalInv, PreparedIsComplete
<1> QED BY <1>1, <1>5, Zenon DEF Inv

LEMMA TimeOutStep ==
  ASSUME Inv, TimeOut
  PROVE  Inv'
BY Zenon DEF Inv, TypeOK, TimeOut, SignalInv, PreparedIsComplete

LEMMA NextBlockStep ==
  ASSUME Inv, NextBlock
  PROVE  Inv'
<1>1. TypeOK'
  BY BodyAssumption DEF Inv, TypeOK, NextBlock, Blocks
<1>2. SignalInv'
  BY Zenon DEF Inv, NextBlock, SignalInv, PreparedIsComplete
<1> QED BY <1>1, <1>2 DEF Inv

LEMMA StutterStep ==
  ASSUME Inv, UNCHANGED vars
  PROVE  Inv'
BY Zenon DEF Inv, TypeOK, SignalInv, Signals, PreparedIsComplete, vars

\* The invariant of the protocol between the handlers and the waiting goroutine
\* holds for any transactions and blocks, unless a handler is overtaken between
\* the lock and the channel.
THEOREM SignalsAreRight ==
  ASSUME ~Slow
  PROVE  Spec => [](TypeOK /\ SignalInv)
<1>1. Inv /\ [Next]_vars => Inv'
  <2> SUFFICES ASSUME Inv, [Next]_vars PROVE Inv'
    BY Zenon
  <2>1. CASE \E t \in Txs : AddData(t) \/ Evict(t) \/ Handle(t)
    BY <2>1, AddDataStep, EvictStep, ReceivedStep, ReachChannelStep, Zenon DEF Handle
  <2>2. CASE Process
    BY <2>2, EmptyChannelStep, CreateBlockStartedStep, ComputeStep, RequestStep,
       ReceiveStep, NextBlockStep, Zenon DEF Process
  <2>3. CASE TimeOut
    BY <2>3, TimeOutStep, Zenon
  <2>4. CASE UNCHANGED vars
    BY <2>4, StutterStep, Zenon
  <2> QED BY <2>1, <2>2, <2>3, <2>4, Zenon DEF Next
<1> QED BY <1>1, InitInv, PTL DEF Spec, Inv

\* IsDataPrepared returns no error only when every transaction of the block has
\* arrived.
THEOREM Complete ==
  ASSUME ~Slow
  PROVE  Spec => []PreparedIsComplete
<1>1. TypeOK /\ SignalInv => PreparedIsComplete
  BY Zenon DEF SignalInv
<1> QED BY <1>1, SignalsAreRight, PTL

\* While the goroutine waits, missingTxs is the number of transactions that have
\* not arrived, and when it is 0 a signal is on its way.
THEOREM Counting ==
  ASSUME ~Slow
  PROVE  Spec => []CountIsRight
<1>1. TypeOK /\ SignalInv => CountIsRight
  BY Zenon DEF SignalInv, CountIsRight, Signals
<1> QED BY <1>1, SignalsAreRight, PTL

-----------------------------------------------------------------------------
(* The throttler of the interceptors                                       *)

\* The messages that hold a place of the throttler.
Places == InPhase({"started", "waiting"})

\* The messages keep their phases, and the throttler counts its places.
Throttled ==
  /\ phaseOf \in [InMsgs -> {"new", "checked", "started", "waiting", "done", "busy"}]
  /\ counter \in Int
  /\ ThrottlerBalanced

LEMMA PlacesFinite == IsFiniteSet(Places) /\ Cardinality(Places) \in Nat
BY InMsgsAssumption, FS_Subset, FS_CardinalityType, Zenon DEF Places, InPhase

\* A message that takes a place is one more, one that leaves it one less.
LEMMA PlaceTaken ==
  ASSUME NEW m, m \notin Places, Places' = Places \cup {m}
  PROVE  Cardinality(Places') = Cardinality(Places) + 1
BY PlacesFinite, FS_AddElement, Zenon

LEMMA PlaceLeft ==
  ASSUME NEW m, m \in Places, Places' = Places \ {m}
  PROVE  Cardinality(Places') = Cardinality(Places) - 1
BY PlacesFinite, FS_RemoveElement, Zenon

LEMMA ThrottledInit == InInit => Throttled
<1> SUFFICES ASSUME InInit PROVE Throttled
  BY Zenon
<1>1. InPhase({"started", "waiting"}) = {}
  BY Zenon DEF InInit, InPhase
<1>2. ThrottlerBalanced
  BY <1>1, FS_EmptySet, Zenon DEF InInit, ThrottlerBalanced
<1> QED BY <1>2 DEF InInit, Throttled

\* preProcessMesage: the check changes no place, StartProcessing takes one.
LEMMA StartStep ==
  ASSUME Throttled, NEW m \in InMsgs, CanProcess(m) \/ StartProcessing(m)
  PROVE  Throttled'
<1>1. CASE CanProcess(m)
  <2>1. Places' = Places
    BY <1>1, Zenon DEF CanProcess, Places, InPhase, Throttled
  <2> QED BY <1>1, <2>1, Zenon DEF CanProcess, Throttled, ThrottlerBalanced, Places
<1>2. CASE StartProcessing(m)
  <2>1. m \notin Places /\ Places' = Places \cup {m}
    BY <1>2, Zenon DEF StartProcessing, Places, InPhase, Throttled
  <2>2. Cardinality(Places') = Cardinality(Places) + 1
    BY <2>1, PlaceTaken, Zenon
  <2> QED BY <1>2, <2>2 DEF StartProcessing, Throttled, ThrottlerBalanced, Places
<1> QED BY <1>1, <1>2, Zenon

\* ProcessReceivedMessage of the single data interceptor: EndProcessing on data
\* that is wrong or for another shard, a goroutine otherwise.
LEMMA SingleStep ==
  ASSUME Throttled, NEW m \in InMsgs, ProcessSingle(m)
  PROVE  Throttled'
<1> DEFINE go == Sound(Data(m)[1]) /\ InterceptedForCurrentShard(Data(m)[1])
<1>1. /\ phaseOf[m] = "started"
      /\ phaseOf' = [phaseOf EXCEPT ![m] = IF go THEN "waiting" ELSE "done"]
      /\ counter' = CounterAfter(go)
  BY Zenon DEF ProcessSingle
<1> HIDE DEF go
<1>2. CASE go
  <2>1. Places' = Places
    BY <1>1, <1>2, Zenon DEF Places, InPhase, Throttled
  <2> QED BY <1>1, <1>2, <2>1, Zenon DEF CounterAfter, Throttled, ThrottlerBalanced, Places
<1>3. CASE ~go
  <2>1. m \in Places /\ Places' = Places \ {m}
    BY <1>1, <1>3, Zenon DEF Places, InPhase, Throttled
  <2>2. Cardinality(Places') = Cardinality(Places) - 1
    BY <2>1, PlaceLeft, Zenon
  <2> QED BY <1>1, <1>3, <2>2 DEF CounterAfter, Throttled, ThrottlerBalanced, Places
<1> QED BY <1>2, <1>3, Zenon

\* The multi data interceptor keeps the place until its last goroutine is done.
LEMMA MultiStep ==
  ASSUME Throttled, NEW m \in InMsgs, ProcessMulti(m)
  PROVE  Throttled'
<1>1. Places' = Places
  BY Zenon DEF ProcessMulti, Places, InPhase, Throttled
<1> QED BY <1>1, Zenon DEF ProcessMulti, Throttled, ThrottlerBalanced, Places

LEMMA EndStep ==
  ASSUME Throttled, NEW m \in InMsgs, EndProcessing(m)
  PROVE  Throttled'
<1>1. m \in Places /\ Places' = Places \ {m}
  BY Zenon DEF EndProcessing, Places, InPhase, Throttled
<1>2. Cardinality(Places') = Cardinality(Places) - 1
  BY <1>1, PlaceLeft, Zenon
<1> QED BY <1>2 DEF EndProcessing, Throttled, ThrottlerBalanced, Places

\* The goroutines and the block processors do not touch the throttler.
LEMMA OtherStep ==
  ASSUME Throttled, UNCHANGED <<phaseOf, counter>>
  PROVE  Throttled'
BY Zenon DEF Throttled, ThrottlerBalanced, InPhase

\* Every message that took a place in the throttler gives it back once, on every
\* early return of ProcessReceivedMessage too, for any messages and limits.
THEOREM Balanced == InSpec => []ThrottlerBalanced
<1>1. Throttled /\ [InNext]_inVars => Throttled'
  <2> SUFFICES ASSUME Throttled, [InNext]_inVars PROVE Throttled'
    BY Zenon
  <2>1. CASE \E m \in InMsgs : InterceptMessage(m)
    <3> PICK m \in InMsgs : InterceptMessage(m)
      BY <2>1, Zenon
    <3>1. CASE \E d \in Of(m) : Validate(m, d) \/ Save(m, d) \/ Merge(m, d)
      BY <3>1, OtherStep, Zenon DEF Validate, Save, Merge
    <3> QED BY <3>1, StartStep, SingleStep, MultiStep, EndStep, Zenon DEF InterceptMessage
  <2>2. CASE ExecuteBlock
    BY <2>2, OtherStep, Zenon DEF ExecuteBlock
  <2>3. CASE \E d \in UNION {Of(m) : m \in InMsgs} : RemoveHeader(d) \/ BlackList(d)
    BY <2>3, OtherStep, Zenon DEF RemoveHeader, BlackList
  <2>4. CASE UNCHANGED inVars
    BY <2>4, OtherStep, Zenon DEF inVars
  <2> QED BY <2>1, <2>2, <2>3, <2>4, Zenon DEF InNext
<1>2. Throttled => ThrottlerBalanced
  BY Zenon DEF Throttled
<1> QED BY <1>1, <1>2, ThrottledInit, PTL DEF InSpec

=============================================================================
