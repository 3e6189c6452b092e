---- MODULE Lifecycle ----
(***************************************************************************)
(* The life of the process: main, DBMainManager::startProcess with its     *)
(* early returns, the threads they start, the flag s_isWorking all of them *)
(* poll, the stop signals, and the order in which the objects the threads  *)
(* use are deleted.                                                        *)
(*                                                                         *)
(* The loops of the logger, the configuration monitor and the transport    *)
(* server are in libraries outside this repository; they are given the     *)
(* address of the flag, and are modelled as loops that end when they find  *)
(* it cleared.  The transport server may also end by itself.               *)
(***************************************************************************)
EXTENDS Integers

CONSTANT MayFail   \* the parts of the start that may fail, a subset of Parts

Parts == {"arguments", "configuration", "watchdog", "watchdog_throws",
          "transport", "no_server_channel"}

ASSUME MayFailAssumption == MayFail \subseteq Parts

VARIABLES
    isWorking,  \* s_isWorking, and what every p_isWorking points to
    main,       \* where main is, startProcess and the destructors included
    thread,     \* thread -> where its loop is
    joinable,   \* the threads whose std::thread is joinable
    pointers,   \* the members of DBMainManager that are not nullptr
    freed,      \* the objects deleted
    cntRepeat,  \* stop signals taken
    outcome     \* "running", or how the process ended

vars == <<isWorking, main, thread, joinable, pointers, freed, cntRepeat, outcome>>

Threads == {"logStart", "configMgr", "runTransportServer", "checkAlive"}

Members == {"transportServer", "reqParser", "watchDogWorker", "wdClient"}
Objects == Members \cup {"mainManager", "dbCli", "confMgr", "loggerPP"}

\* The objects a thread reaches, those of its callbacks included.
Uses == [logStart           |-> {"loggerPP"},
         configMgr          |-> {"confMgr", "mainManager"},
         runTransportServer |-> {"transportServer", "reqParser", "dbCli", "mainManager"},
         checkAlive         |-> {"transportServer", "watchDogWorker", "mainManager"}]

Stages == {"arguments", "logger", "monitor_config", "watchdog", "connect", "transport",
           "run_threads", "join_transport", "join_alive", "join_config",
           "delete_transport", "delete_parser", "delete_watchdog", "destroy_members",
           "delete_others", "join_logger", "delete_logger"}

Active(t) == thread[t] \in {"loop", "busy"}

TypeOK ==
    /\ isWorking \in BOOLEAN
    /\ main \in Stages
    /\ thread \in [Threads -> {"not_started", "loop", "busy", "ended"}]
    /\ joinable \subseteq Threads
    /\ pointers \subseteq Members
    /\ freed \subseteq Objects
    /\ cntRepeat \in 0..4
    /\ outcome \in {"running", "return_0", "exit_failure", "aborted"}

Init ==
    /\ isWorking = FALSE
    /\ main = "arguments"
    /\ thread = [t \in Threads |-> "not_started"]
    /\ joinable = {}
    /\ pointers = {}
    /\ freed = {}
    /\ cntRepeat = 0
    /\ outcome = "running"

----
\* Steps of main.

At(stage) == outcome = "running" /\ main = stage

Start(ts) ==
    /\ thread' = [t \in Threads |-> IF t \in ts THEN "loop" ELSE thread[t]]
    /\ joinable' = joinable \cup ts

\* join blocks until the thread's loop has ended.
Join(t) ==
    /\ t \in joinable => thread[t] = "ended"
    /\ joinable' = joinable \ {t}

Ends(how) == outcome' = how

\* "-v" and too few arguments end here, before any thread is started.
ReadArguments ==
    /\ At("arguments")
    /\ \/ /\ isWorking' = TRUE
          /\ main' = "logger"
          /\ UNCHANGED outcome
       \/ /\ "arguments" \in MayFail
          /\ Ends("return_0")
          /\ UNCHANGED <<isWorking, main>>
    /\ UNCHANGED <<thread, joinable, pointers, freed, cntRepeat>>

StartLogger ==
    /\ At("logger")
    /\ Start({"logStart"})
    /\ main' = "monitor_config"
    /\ pointers' = {"reqParser"}
    /\ UNCHANGED <<isWorking, freed, cntRepeat, outcome>>

StartMonitoringConfig ==
    /\ At("monitor_config")
    /\ \/ /\ Start({"configMgr"})
          /\ main' = "watchdog"
          /\ UNCHANGED outcome
       \/ /\ "configuration" \in MayFail
          /\ Ends("exit_failure")
          /\ UNCHANGED <<thread, joinable, main>>
    /\ UNCHANGED <<isWorking, pointers, freed, cntRepeat>>

\* A consumer is configured and answers, or none is.
StartWatchDog ==
    /\ At("watchdog")
    /\ \E ps \in {{}, {"wdClient", "watchDogWorker"}} : pointers' = pointers \cup ps
    /\ main' = "connect"
    /\ UNCHANGED <<isWorking, thread, joinable, freed, cntRepeat, outcome>>

\* start() fails: both objects are deleted and their pointers cleared.
WatchDogFails ==
    /\ At("watchdog")
    /\ "watchdog" \in MayFail
    /\ isWorking' = FALSE
    /\ freed' = freed \cup {"wdClient", "watchDogWorker"}
    /\ main' = "join_config"
    /\ UNCHANGED <<thread, joinable, pointers, cntRepeat, outcome>>

\* catch(...) returns at once, without the join of the path above.
WatchDogThrows ==
    /\ At("watchdog")
    /\ "watchdog_throws" \in MayFail
    /\ isWorking' = FALSE
    /\ \E ps \in {{}, {"wdClient"}, {"wdClient", "watchDogWorker"}} :
         pointers' = pointers \cup ps
    /\ main' = "delete_transport"
    /\ UNCHANGED <<thread, joinable, freed, cntRepeat, outcome>>

\* Whether the database answers is not looked at.
Connect ==
    /\ At("connect")
    /\ main' = "transport"
    /\ UNCHANGED <<isWorking, thread, joinable, pointers, freed, cntRepeat, outcome>>

CreateTransport ==
    /\ At("transport")
    /\ pointers' = pointers \cup {"transportServer"}
    /\ main' = "run_threads"
    /\ UNCHANGED <<isWorking, thread, joinable, freed, cntRepeat, outcome>>

\* createBroker gives nullptr: startProcess returns without a join.
NoTransport ==
    /\ At("transport")
    /\ "transport" \in MayFail
    /\ isWorking' = FALSE
    /\ main' = "delete_transport"
    /\ UNCHANGED <<thread, joinable, pointers, freed, cntRepeat, outcome>>

\* inChannels.at("Server") throws out of main.
NoServerChannel ==
    /\ At("transport")
    /\ "no_server_channel" \in MayFail
    /\ Ends("aborted")
    /\ UNCHANGED <<isWorking, main, thread, joinable, pointers, freed, cntRepeat>>

RunThreads ==
    /\ At("run_threads")
    /\ Start({"runTransportServer", "checkAlive"})
    /\ main' = "join_transport"
    /\ UNCHANGED <<isWorking, pointers, freed, cntRepeat, outcome>>

JoinThread(stage, t, next) ==
    /\ At(stage)
    /\ Join(t)
    /\ main' = next
    /\ UNCHANGED <<isWorking, thread, pointers, freed, cntRepeat, outcome>>

\* Mutant of JoinConfig: the configuration monitor is not waited for.
JoinConfigDropped ==
    /\ At("join_config")
    /\ main' = "delete_transport"
    /\ UNCHANGED <<isWorking, thread, joinable, pointers, freed, cntRepeat, outcome>>

\* Mutant of JoinAlive: startProcess ends when the transport server has.
JoinAliveDropped ==
    /\ At("join_alive")
    /\ joinable' = joinable \ {"checkAlive"}
    /\ main' = "join_config"
    /\ UNCHANGED <<isWorking, thread, pointers, freed, cntRepeat, outcome>>

JoinTransport == JoinThread("join_transport", "runTransportServer", "join_alive")
JoinAlive     == JoinThread("join_alive", "checkAlive", "join_config")
JoinConfig    == JoinThread("join_config", "configMgr", "delete_transport")
JoinLogger    == JoinThread("join_logger", "logStart", "delete_logger")

Delete(stage, objects, next) ==
    /\ At(stage)
    /\ freed' = freed \cup objects
    /\ main' = next
    /\ UNCHANGED <<isWorking, thread, joinable, pointers, cntRepeat, outcome>>

\* The body of ~DBMainManager.
DeleteTransport == Delete("delete_transport", pointers \cap {"transportServer"}, "delete_parser")
DeleteParser    == Delete("delete_parser", pointers \cap {"reqParser"}, "delete_watchdog")
DeleteWatchDog  == Delete("delete_watchdog", pointers \cap {"watchDogWorker", "wdClient"},
                          "destroy_members")

\* Then its members: destroying a std::thread that is joinable calls std::terminate.
DestroyMembers ==
    /\ At("destroy_members")
    /\ IF "configMgr" \in joinable
       THEN Ends("aborted") /\ UNCHANGED <<main, freed>>
       ELSE /\ freed' = freed \cup {"mainManager"}
            /\ main' = "delete_others"
            /\ UNCHANGED outcome
    /\ UNCHANGED <<isWorking, thread, joinable, pointers, cntRepeat>>

DeleteOthers == Delete("delete_others", {"dbCli", "confMgr"}, "join_logger")

DeleteLogger ==
    /\ At("delete_logger")
    /\ freed' = freed \cup {"loggerPP"}
    /\ Ends("return_0")
    /\ UNCHANGED <<isWorking, main, thread, joinable, pointers, cntRepeat>>

Main ==
    \/ ReadArguments \/ StartLogger \/ StartMonitoringConfig
    \/ StartWatchDog \/ WatchDogFails \/ WatchDogThrows \/ Connect
    \/ CreateTransport \/ NoTransport \/ NoServerChannel \/ RunThreads
    \/ JoinTransport \/ JoinAlive \/ JoinConfig
    \/ DeleteTransport \/ DeleteParser \/ DeleteWatchDog \/ DestroyMembers
    \/ DeleteOthers \/ JoinLogger \/ DeleteLogger

----
\* The threads: while(*p_isWorking) { body }.

MoveThread(t, from, to) ==
    /\ outcome = "running"
    /\ thread[t] = from
    /\ thread' = [thread EXCEPT ![t] = to]
    /\ UNCHANGED <<isWorking, main, joinable, pointers, freed, cntRepeat, outcome>>

\* Mutant of LoopHead: a loop that the flag does not end.
LoopHeadForever(t) == MoveThread(t, "loop", "busy")

LoopHead(t) == MoveThread(t, "loop", IF isWorking THEN "busy" ELSE "ended")

LoopBody(t) == MoveThread(t, "busy", "loop")

TransportGivesUp == MoveThread("runTransportServer", "busy", "ended")

Thread(t) == LoopHead(t) \/ LoopBody(t)

----
\* SIGINT and SIGTERM.

\* Mutant of SigStop: the process does not give in to repeated signals.
SigStopPatient ==
    /\ outcome = "running"
    /\ cntRepeat' = cntRepeat + 1
    /\ isWorking' = FALSE
    /\ UNCHANGED <<main, thread, joinable, pointers, freed, outcome>>

SigStop ==
    /\ outcome = "running"
    /\ cntRepeat' = cntRepeat + 1
    /\ IF cntRepeat' > 3
       THEN Ends("exit_failure") /\ UNCHANGED isWorking
       ELSE isWorking' = FALSE /\ UNCHANGED outcome
    /\ UNCHANGED <<main, thread, joinable, pointers, freed>>

Next ==
    \/ Main
    \/ \E t \in Threads : Thread(t)
    \/ TransportGivesUp
    \/ SigStop

\* Every thread runs; nothing makes anybody send a signal.
Spec == Init /\ [][Next]_vars /\ WF_vars(Main) /\ \A t \in Threads : WF_vars(Thread(t))

----
\* Properties.

\* No thread is left with an object that main has deleted, at any point of any
\* path through startProcess and the destructors, and no destructor meets a
\* pointer to an object the failed start has deleted already.
NothingUsedAfterDelete ==
    outcome = "running" =>
      /\ \A t \in Threads : Active(t) => Uses[t] \cap freed = {}
      /\ main \in {"join_config", "delete_transport"} => pointers \cap freed = {}

\* Once the service has its transport server it ends by main's return or by the
\* fourth signal, never by std::terminate: every thread is joined before the
\* object that holds its std::thread is destroyed.
ServiceNeverAborts == outcome = "aborted" => "transportServer" \notin pointers

\* The flag, once it has been set and then cleared, by a signal or by a failed
\* start, brings the process to its end: no thread waits for another for ever.
StopEnds == (main # "arguments" /\ ~isWorking) ~> (outcome # "running")

\* After the watchdog or the transport server could not be started the process
\* leaves ("Выход..") the way main ends, by return 0, unless signals hurry it.
FailedStartExits == outcome # "aborted"
====
