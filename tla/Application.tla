----------------------------- MODULE Application -----------------------------
(***************************************************************************)
(* The Application resource proxy (lib/omf_rc/resource_proxy/              *)
(* application.rb): its state property, the instances of the program it    *)
(* starts through ExecApp, and the timers with which it stops them.        *)
(*                                                                         *)
(* configure :state only defers the change; the deferred changes, and the  *)
(* two timers of a stop, run in the event loop.  A program ends when it    *)
(* likes, and a thread of ExecApp (a library class) then calls             *)
(* process_event, beside the loop.  ExecApp knows instances by app_id,     *)
(* which is the same for all instances of one proxy.  The installers of    *)
(* platform_tools.rb give ExecApp no block: nobody hears of their end.     *)
(***************************************************************************)
EXTENDS Integers, Sequences, FiniteSets

CONSTANTS
  MaxInstances,  \* bound: instances started
  MaxTodo,       \* bound: deferred changes of state
  MaxTimers      \* bound: timers

ASSUME ApplicationAssumption ==
  MaxInstances \in Nat /\ MaxTodo \in Nat /\ MaxTimers \in Nat

VARIABLES
  state,      \* property.state
  installed,  \* property.installed
  todo,       \* states to switch to, eventloop.after(0)
  writing,    \* the state a handler of the loop has decided on and not yet
              \* written, or "none"
  timers,     \* eventloop.after(4): [sig, meant], in the order they are due
  app,        \* the instance ExecApp has under app_id, or 0
  live,       \* instances that have not ended
  killed,     \* those among them that were sent KILL
  started,    \* number of instances started
  exits,      \* ended instances whose EXIT callback has not come
  astray,     \* history: did a signal go to another instance than the one
              \* that was to be stopped?
  overtaken   \* history: did an EXIT come too early or too late?

AppVars == <<state, installed, todo, writing, timers, app, live, killed,
             started, exits, astray, overtaken>>

States == {"created", "installing", "running", "paused", "stopped"}
Instances == 1 .. MaxInstances
Timers == [sig : {"TERM", "KILL"}, meant : 0 .. MaxInstances]

AppTypeOK ==
  /\ state \in States /\ installed \in BOOLEAN
  /\ todo \in Seq(States) /\ Len(todo) <= MaxTodo
  /\ writing \in {"none", "running", "paused"}
  /\ timers \in Seq(Timers) /\ Len(timers) <= MaxTimers
  /\ app \in live \cup {0}
  /\ live \subseteq Instances /\ killed \subseteq live
  /\ started \in 0 .. MaxInstances
  /\ exits \subseteq Instances
  /\ astray \in BOOLEAN /\ overtaken \in BOOLEAN

-----------------------------------------------------------------------------
(* The event loop can take the next handler. *)
LoopFree == writing = "none"

(* configure :state, and the before_release hook with "stopped". *)
ConfigureState(v) ==
  /\ LoopFree /\ Len(todo) < MaxTodo
  /\ todo' = Append(todo, v)
  /\ UNCHANGED <<state, installed, writing, timers, app, live, killed, started,
                 exits, astray, overtaken>>

(* The next deferred change is v. *)
Due(v) ==
  /\ LoopFree /\ todo # << >> /\ Head(todo) = v
  /\ todo' = Tail(todo)

(* configure :installed, which the property's default access allows. *)
ConfigureInstalled(b) ==
  /\ LoopFree
  /\ installed' = b
  /\ UNCHANGED <<state, todo, writing, timers, app, live, killed, started,
                 exits, astray, overtaken>>

(* switch_to_installing; an installation that cannot start leaves the      *)
(* application as it was created.                                          *)
SwitchToInstalling(possible) ==
  /\ Due("installing")
  /\ state' = IF state = "created" /\ ~installed /\ possible
              THEN "installing" ELSE state
  /\ UNCHANGED <<installed, writing, timers, app, live, killed, started, exits,
                 astray, overtaken>>

(* Mutant: a stop that finds the instance leaves the rest to it. *)
SwitchToStoppedOnce ==
  /\ Due("stopped")
  /\ state' = IF state \in {"running", "paused"} /\ app = 0 THEN "stopped" ELSE state
  /\ UNCHANGED <<installed, writing, timers, app, live, killed, started,
                 exits, astray, overtaken>>

(* switch_to_stopped: `exit' is written to the program, which may obey,    *)
(* and the first timer is set.                                             *)
SwitchToStopped ==
  /\ Due("stopped")
  /\ IF state \in {"running", "paused"}
     THEN /\ Len(timers) < MaxTimers
          /\ state' = IF app # 0 THEN state ELSE "stopped"
          /\ timers' = Append(timers, [sig |-> "TERM", meant |-> app])
     ELSE UNCHANGED <<state, timers>>
  /\ UNCHANGED <<installed, writing, app, live, killed, started,
                 exits, astray, overtaken>>

(* Mutant: an application can be started whatever its state. *)
MayStartAlways == TRUE

MayStart == state \in {"created", "stopped"}

(* switch_to_running up to and including ExecApp.new, or the decision to   *)
(* resume; without a binary path nothing is started.                       *)
SwitchToRunning(path) ==
  /\ Due("running")
  /\ IF MayStart /\ path /\ started < MaxInstances
     THEN /\ started' = started + 1
          /\ app' = started + 1
          /\ live' = live \cup {started + 1}
          /\ writing' = "running"
     ELSE /\ writing' = IF state = "paused" THEN "running" ELSE "none"
          /\ UNCHANGED <<started, app, live>>
  /\ UNCHANGED <<state, installed, timers, killed, exits, astray, overtaken>>

(* switch_to_paused, but for its assignment to the state. *)
SwitchToPaused ==
  /\ Due("paused")
  /\ writing' = IF state = "running" THEN "paused" ELSE "none"
  /\ UNCHANGED <<state, installed, timers, app, live, killed, started, exits,
                 astray, overtaken>>

(* The last line of switch_to_running, or of switch_to_paused. *)
WriteState ==
  /\ writing # "none"
  /\ writing' = "none"
  /\ state' = writing
  /\ UNCHANGED <<installed, todo, timers, app, live, killed, started, exits,
                 astray, overtaken>>

(* Any other value is refused with a warning. *)
SwitchToUnknown ==
  /\ Due("created")
  /\ UNCHANGED <<state, installed, writing, timers, app, live, killed, started,
                 exits, astray, overtaken>>

(* Timer t, the first one, is over; TERM sets the one for KILL. *)
After(t) ==
  IF t.sig = "TERM" THEN Append(Tail(timers), [sig |-> "KILL", meant |-> t.meant])
                    ELSE Tail(timers)

(* A timer of switch_to_stopped: whatever runs under app_id is signalled,  *)
(* and if nothing does the application is stopped.                         *)
FireTimer ==
  LET t == Head(timers) IN
  /\ LoopFree /\ timers # << >>
  /\ timers' = After(t)
  /\ IF app # 0
     THEN /\ astray' = (astray \/ app # t.meant)
          /\ killed' = IF t.sig = "KILL" THEN killed \cup {app} ELSE killed
          /\ UNCHANGED state
     ELSE /\ state' = "stopped"
          /\ UNCHANGED <<astray, killed>>
  /\ UNCHANGED <<installed, todo, writing, app, live, started, exits, overtaken>>

-----------------------------------------------------------------------------
(* ExecApp: instance i ends, by itself or of a signal.  It is taken off    *)
(* the table, and process_event will be called with EXIT.                  *)
InstanceEnds(i) ==
  /\ i \in live
  /\ live' = live \ {i}
  /\ killed' = killed \ {i}
  /\ app' = 0
  /\ exits' = exits \cup {i}
  /\ UNCHANGED <<state, installed, todo, writing, timers, started, astray,
                 overtaken>>

(* process_event, EXIT of an instance.  `overtaken' remembers the two      *)
(* kinds of EXIT that leave a wrong state: the one of the last instance    *)
(* when the loop is about to write over its "stopped", and the one of an   *)
(* earlier instance when the state of a later one has been written.        *)
ExitCallback(i) ==
  /\ i \in exits
  /\ exits' = exits \ {i}
  /\ state' = "stopped"
  /\ overtaken' = (overtaken \/ (i = started <=> writing # "none"))
  /\ UNCHANGED <<installed, todo, writing, timers, app, live, killed, started,
                 astray>>

-----------------------------------------------------------------------------
AppInit ==
  /\ state = "created" /\ installed = FALSE
  /\ todo = << >> /\ writing = "none" /\ timers = << >>
  /\ app = 0 /\ live = {} /\ killed = {} /\ started = 0
  /\ exits = {} /\ astray = FALSE /\ overtaken = FALSE

Dispatch ==
  \/ \E b \in BOOLEAN : SwitchToInstalling(b) \/ SwitchToRunning(b)
  \/ SwitchToStopped \/ SwitchToPaused \/ SwitchToUnknown
  \/ WriteState

AppNext ==
  \/ \E v \in States : ConfigureState(v)
  \/ \E b \in BOOLEAN : ConfigureInstalled(b)
  \/ Dispatch
  \/ FireTimer
  \/ \E i \in Instances : InstanceEnds(i) \/ ExitCallback(i)

AppSpec == AppInit /\ [][AppNext]_AppVars

(* The event loop runs, and looks at the timers that are due between any   *)
(* two handlers; a killed program ends, and ExecApp's callbacks come.      *)
AppFairness ==
  /\ WF_AppVars(Dispatch) /\ SF_AppVars(FireTimer)
  /\ WF_AppVars(\E i \in killed : InstanceEnds(i))
  /\ WF_AppVars(\E i \in Instances : ExitCallback(i))

AppFairSpec == AppSpec /\ AppFairness

-----------------------------------------------------------------------------
(* The state property tells the truth about the program: "running" or      *)
(* "paused" as long as an instance is there, and only one; none in any     *)
(* other state.  The proxy is late only while a handler is about to write  *)
(* the state and before it hears of the end of its last instance; and it   *)
(* is wrong after an EXIT that crossed the write of a state: ExecApp's     *)
(* thread made it before `state = :running' (application.rb:372), or after *)
(* a newer instance had been started.                                      *)
StateMatchesProgram ==
  ~overtaken /\ writing = "none" /\ started \notin exits =>
    Cardinality(live) = IF state \in {"running", "paused"} THEN 1 ELSE 0

(* Every stop of a running or paused application takes effect: the program *)
(* leaves by itself or is killed, and the proxy learns of it, although     *)
(* other requests, other stops and new instances come in between.          *)
StopTakesEffect ==
  (todo # << >> /\ Head(todo) = "stopped" /\ state \in {"running", "paused"})
    ~> state = "stopped"

(* "a new installation of the application will be performed by the         *)
(* Application RP, which will stay in this state until the installation is *)
(* done" (application.rb, configure :state, installing).                   *)
InstallationEnds == state = "installing" ~> state # "installing"

(* "first, try sending 'exit' on the stdin of the app, and wait for 4s to  *)
(* see if the app acted on it... second, try sending TERM signal"          *)
(* (switch_to_stopped): the signals go to the instance that was asked.     *)
SignalsTheStoppedApp == ~astray
=============================================================================
