---- MODULE Lifecycle_proofs ----
(***************************************************************************)
(* Proofs about the life of the process: on no path through startProcess   *)
(* and the destructors does a thread outlive an object it uses, and once   *)
(* the service runs it is never aborted.                                   *)
(***************************************************************************)
EXTENDS Lifecycle, TLAPS

\* Before the start of the threads of the service, and while they are joined.
Early == {"arguments", "logger", "monitor_config", "watchdog", "connect", "transport",
          "run_threads"}
Joining == {"join_transport", "join_alive", "join_config"}
Deleting == {"delete_transport", "delete_parser", "delete_watchdog", "destroy_members"}
Late == {"delete_others", "join_logger", "delete_logger"}

\* Main joins a thread only after its loop has ended, and forgets none.
OnlyJoinableRun == \A t \in Threads : Active(t) => t \in joinable

\* Which threads may still run at each stage.
JoinedInOrder ==
    /\ main \in Early => joinable \subseteq {"logStart", "configMgr"}
    /\ main = "join_alive" => joinable \subseteq Threads \ {"runTransportServer"}
    /\ main \in {"join_config"} \cup Deleting => joinable \subseteq {"logStart", "configMgr"}
    /\ main \in Deleting /\ "transportServer" \in pointers => joinable \subseteq {"logStart"}
    /\ main \in Late => joinable \subseteq {"logStart"}
    /\ main = "delete_logger" => joinable = {}

\* Which objects may be deleted at each stage.
DeletedInOrder ==
    /\ main \in Early \cup {"join_transport", "join_alive"} => freed = {}
    /\ main = "join_config" => freed \subseteq {"watchDogWorker", "wdClient"}
    /\ main = "delete_transport" => freed \cap pointers = {} /\ freed \subseteq Members
    /\ main = "join_config" => freed \cap pointers = {}
    /\ main \in Deleting => freed \subseteq Members
    /\ main \in Late /\ outcome = "running" => "loggerPP" \notin freed

\* Only the end of the failed starts is reached without the transport server.
PointersByStage ==
    main \in {"arguments", "logger", "monitor_config", "watchdog", "connect", "transport"}
      => pointers \subseteq {"reqParser", "wdClient", "watchDogWorker"}

\* What the watchdog's failure deletes has never been pointed to before.
NoWatchDogYet ==
    main \in {"arguments", "logger", "monitor_config", "watchdog"}
      => pointers \subseteq {"reqParser"}

\* The fourth signal ends the process.
SignalsCounted == outcome = "running" => cntRepeat <= 3

LifeInv ==
    /\ TypeOK
    /\ SignalsCounted
    /\ OnlyJoinableRun
    /\ JoinedInOrder
    /\ DeletedInOrder
    /\ PointersByStage
    /\ NoWatchDogYet
    /\ ServiceNeverAborts

USE DEF Stages, Early, Joining, Deleting, Late, Members, Objects, Threads, Active

LEMMA InitLife == Init => LifeInv
<1> SUFFICES ASSUME Init PROVE LifeInv
  OBVIOUS
<1>1. TypeOK
  <2>1. thread \in [Threads -> {"not_started", "loop", "busy", "ended"}]
    BY DEF Init
  <2>2. cntRepeat \in 0..4
    BY DEF Init
  <2> QED
    BY <2>1, <2>2 DEF Init, TypeOK
<1>2. OnlyJoinableRun
  BY DEF Init, OnlyJoinableRun
<1>3. JoinedInOrder /\ DeletedInOrder
  BY DEF Init, JoinedInOrder, DeletedInOrder
<1>4. SignalsCounted /\ PointersByStage /\ NoWatchDogYet /\ ServiceNeverAborts
  BY DEF Init, SignalsCounted, PointersByStage, NoWatchDogYet, ServiceNeverAborts
<1> QED
  BY <1>1, <1>2, <1>3, <1>4 DEF LifeInv

\* Started threads are joinable, and the others are as they were.
LEMMA StartKeeps ==
  ASSUME TypeOK, OnlyJoinableRun, NEW ts \in SUBSET Threads, Start(ts)
  PROVE  /\ thread' \in [Threads -> {"not_started", "loop", "busy", "ended"}]
         /\ OnlyJoinableRun'
         /\ joinable' = joinable \cup ts
<1>1. \A t \in Threads : thread'[t] = IF t \in ts THEN "loop" ELSE thread[t]
  BY DEF Start
<1> QED
  BY <1>1 DEF TypeOK, OnlyJoinableRun, Start

\* Every step of main keeps the invariant.
LEMMA MainKeeps == LifeInv /\ Main => LifeInv'
<1> SUFFICES ASSUME LifeInv, Main PROVE LifeInv'
  OBVIOUS
<1> USE DEF LifeInv, TypeOK, OnlyJoinableRun, JoinedInOrder, DeletedInOrder,
            SignalsCounted, PointersByStage, NoWatchDogYet, ServiceNeverAborts, At, Ends
<1>1. CASE ReadArguments
  BY <1>1 DEF ReadArguments
<1>2. CASE StartLogger
  <2>1. /\ thread' \in [Threads -> {"not_started", "loop", "busy", "ended"}]
        /\ OnlyJoinableRun'
        /\ joinable' = joinable \cup {"logStart"}
    BY <1>2, StartKeeps, {"logStart"} \in SUBSET Threads DEF StartLogger
  <2> QED
    BY <1>2, <2>1 DEF StartLogger
<1>3. CASE StartMonitoringConfig
  <2>1. CASE Start({"configMgr"}) /\ main' = "watchdog" /\ UNCHANGED outcome
    <3>1. /\ thread' \in [Threads -> {"not_started", "loop", "busy", "ended"}]
          /\ OnlyJoinableRun'
          /\ joinable' = joinable \cup {"configMgr"}
      BY <2>1, StartKeeps, {"configMgr"} \in SUBSET Threads
    <3> QED
      BY <1>3, <2>1, <3>1 DEF StartMonitoringConfig
  <2>2. CASE Ends("exit_failure") /\ UNCHANGED <<thread, joinable, main>>
    BY <1>3, <2>2 DEF StartMonitoringConfig
  <2> QED
    BY <1>3, <2>1, <2>2 DEF StartMonitoringConfig
<1>4. CASE StartWatchDog
  BY <1>4 DEF StartWatchDog
<1>5. CASE WatchDogFails
  BY <1>5 DEF WatchDogFails
<1>6. CASE WatchDogThrows
  BY <1>6 DEF WatchDogThrows
<1>7. CASE Connect
  BY <1>7 DEF Connect
<1>8. CASE CreateTransport
  BY <1>8 DEF CreateTransport
<1>9. CASE NoTransport
  BY <1>9 DEF NoTransport
<1>10. CASE NoServerChannel
  BY <1>10 DEF NoServerChannel
<1>11. CASE RunThreads
  <2>1. /\ thread' \in [Threads -> {"not_started", "loop", "busy", "ended"}]
        /\ OnlyJoinableRun'
        /\ joinable' = joinable \cup {"runTransportServer", "checkAlive"}
    BY <1>11, StartKeeps, {"runTransportServer", "checkAlive"} \in SUBSET Threads
       DEF RunThreads
  <2> QED
    BY <1>11, <2>1 DEF RunThreads
<1>12. CASE JoinTransport
  BY <1>12 DEF JoinTransport, JoinThread, Join
<1>13. CASE JoinAlive
  BY <1>13 DEF JoinAlive, JoinThread, Join
<1>14. CASE JoinConfig
  BY <1>14 DEF JoinConfig, JoinThread, Join
<1>15. CASE DeleteTransport
  BY <1>15 DEF DeleteTransport, Delete
<1>16. CASE DeleteParser
  BY <1>16 DEF DeleteParser, Delete
<1>17. CASE DeleteWatchDog
  BY <1>17 DEF DeleteWatchDog, Delete
<1>18. CASE DestroyMembers
  BY <1>18 DEF DestroyMembers
<1>19. CASE DeleteOthers
  BY <1>19 DEF DeleteOthers, Delete
<1>20. CASE JoinLogger
  BY <1>20 DEF JoinLogger, JoinThread, Join
<1>21. CASE DeleteLogger
  BY <1>21 DEF DeleteLogger
<1> QED
  BY <1>1, <1>2, <1>3, <1>4, <1>5, <1>6, <1>7, <1>8, <1>9, <1>10, <1>11, <1>12,
     <1>13, <1>14, <1>15, <1>16, <1>17, <1>18, <1>19, <1>20, <1>21 DEF Main

\* So does every step of a thread, and a signal.
LEMMA OthersKeep ==
  LifeInv /\ ((\E t \in Threads : Thread(t)) \/ TransportGivesUp \/ SigStop) => LifeInv'
<1> USE DEF LifeInv, TypeOK, OnlyJoinableRun, JoinedInOrder, DeletedInOrder,
            SignalsCounted, PointersByStage, NoWatchDogYet, ServiceNeverAborts
<1>1. ASSUME LifeInv, NEW t \in Threads, Thread(t) PROVE LifeInv'
  <2>1. PICK to \in {"loop", "busy", "ended"} :
           Active(t) /\ thread' = [thread EXCEPT ![t] = to]
    BY <1>1 DEF Thread, LoopHead, LoopBody, MoveThread
  <2>2. UNCHANGED <<isWorking, main, joinable, pointers, freed, cntRepeat, outcome>>
    BY <1>1 DEF Thread, LoopHead, LoopBody, MoveThread
  <2>3. thread' \in [Threads -> {"not_started", "loop", "busy", "ended"}]
    BY <1>1, <2>1
  <2>4. \A u \in Threads : Active(u)' => Active(u)
    BY <1>1, <2>1
  <2> QED
    BY <1>1, <2>2, <2>3, <2>4
<1>2. ASSUME LifeInv, TransportGivesUp PROVE LifeInv'
  BY <1>2 DEF TransportGivesUp, MoveThread
<1>3. ASSUME LifeInv, SigStop PROVE LifeInv'
  <2>1. CASE cntRepeat' > 3
    <3>1. cntRepeat' \in 0..4
      BY <1>3, <2>1 DEF SigStop
    <3> QED
      BY <1>3, <2>1, <3>1 DEF SigStop, Ends
  <2>2. CASE ~(cntRepeat' > 3)
    <3>1. cntRepeat' \in 0..4
      BY <1>3, <2>2 DEF SigStop
    <3>2. SignalsCounted'
      BY <2>2, <3>1
    <3> QED
      BY <1>3, <2>2, <3>1, <3>2 DEF SigStop, Ends
  <2> QED
    BY <2>1, <2>2
<1> QED
  BY <1>1, <1>2, <1>3

LEMMA StepLife == LifeInv /\ [Next]_vars => LifeInv'
<1>1. LifeInv /\ UNCHANGED vars => LifeInv'
  BY DEF vars, LifeInv, TypeOK, OnlyJoinableRun, JoinedInOrder, DeletedInOrder,
         SignalsCounted, PointersByStage, NoWatchDogYet, ServiceNeverAborts
<1> QED
  BY <1>1, MainKeeps, OthersKeep DEF Next

\* The invariant holds throughout every life of the process.
THEOREM LifeInvHolds == Spec => []LifeInv
  BY InitLife, StepLife, PTL DEF Spec

\* The stages, the threads, the objects and the signals, whatever part of the start
\* fails.
THEOREM LifeTypeCorrect == Spec => []TypeOK
<1>1. LifeInv => TypeOK
  BY DEF LifeInv
<1> QED
  BY LifeInvHolds, <1>1, PTL

\* Whatever part of the start fails and whenever the signals come: no thread is
\* left with a deleted object, and no destructor with a dangling pointer.
THEOREM NothingIsUsedAfterDelete == Spec => []NothingUsedAfterDelete
<1>1. LifeInv => NothingUsedAfterDelete
  <2> SUFFICES ASSUME LifeInv, outcome = "running" PROVE
         /\ \A t \in Threads : Active(t) => Uses[t] \cap freed = {}
         /\ main \in {"join_config", "delete_transport"} => pointers \cap freed = {}
    BY DEF NothingUsedAfterDelete
  <2>1. ASSUME NEW t \in Threads, Active(t) PROVE Uses[t] \cap freed = {}
    <3>1. t \in joinable
      BY <2>1 DEF LifeInv, OnlyJoinableRun
    <3>2. CASE t = "logStart"
      BY <3>1, <3>2 DEF LifeInv, TypeOK, JoinedInOrder, DeletedInOrder, Uses
    <3>3. CASE t = "configMgr"
      BY <3>1, <3>3 DEF LifeInv, TypeOK, JoinedInOrder, DeletedInOrder, Uses
    <3>4. CASE t \in {"runTransportServer", "checkAlive"}
      <4>1. main \in {"join_transport", "join_alive"}
        BY <3>1, <3>4 DEF LifeInv, TypeOK, JoinedInOrder
      <4> QED
        BY <4>1 DEF LifeInv, DeletedInOrder
    <3> QED
      BY <3>2, <3>3, <3>4
  <2>2. main \in {"join_config", "delete_transport"} => pointers \cap freed = {}
    BY DEF LifeInv, DeletedInOrder
  <2> QED
    BY <2>1, <2>2
<1> QED
  BY LifeInvHolds, <1>1, PTL

\* A service that got its transport server is never ended by std::terminate.
THEOREM AbortOnlyBeforeService == Spec => []ServiceNeverAborts
<1>1. LifeInv => ServiceNeverAborts
  BY DEF LifeInv
<1> QED
  BY LifeInvHolds, <1>1, PTL
====
