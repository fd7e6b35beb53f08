----------------------------- MODULE Lifecycle -----------------------------
(***************************************************************************)
(* Start and shutdown of the process: main.go, pkg/signals, the informer   *)
(* factories, and Run of the controller with its goroutines.               *)
(*                                                                         *)
(*   main:     flags, signal handler, clients, NewController, go Start of  *)
(*             both factories, Run: wait for the caches, leader, worker,   *)
(*             wait for stopCh, return, exit                               *)
(*   handler:  first signal closes stopCh, the second one exits            *)
(*   worker:   takes items; rendering truncates nginx.conf and writes it   *)
(*                                                                         *)
(* An exit of the process ends every goroutine where it is.                *)
(***************************************************************************)
EXTENDS Naturals, Sequences

CONSTANTS Factories, Kinds, \* informer factories, and the kinds of objects
          FactoryOf,        \* FactoryOf[k]: the factory that watches k
          MaxPending        \* bound: items waiting in the queue

ASSUME FactoryAssumption == FactoryOf \in [Kinds -> Factories]
ASSUME PendingAssumption == MaxPending \in Nat

\* What NewController takes an informer of each kind for.
Uses == {"synced", "lister", "handlers"}

VARIABLES main,             \* where main and Run are
          code,             \* exit code
          signals,          \* SIGTERM and SIGINT so far
          handler,          \* "none", then the number of signals it took
          stop,             \* stopCh is closed
          elector,          \* leaderElector: NewLeaderElector may return nil
          informer,         \* per kind: factory.informers (0: not requested)
          taken,            \* the informer each use got (0: none yet)
          toStart,          \* factories whose go Start has not run
          running, synced,  \* informers that run, that have the first list
          pending,          \* items in the queue
          worker,           \* the goroutine of runWorker
          file              \* nginx.conf: "whole" or "cut"

mainVars == <<main, code>>
signalVars == <<signals, handler, stop>>
informerVars == <<informer, taken, toStart, running, synced>>
workVars == <<pending, worker, file>>
vars == <<mainVars, signalVars, elector, informerVars, workVars>>

Alive == main # "exited"

TypeOK ==
    /\ main \in {"flags", "setup", "clients", "controller", "start", "wait", "run", "returned", "exited"}
    /\ code \in {0, 1, 2, 143, 255}
    /\ signals \in 0..3
    /\ handler \in {"none", "0", "1"}
    /\ stop \in BOOLEAN
    /\ elector \in {"none", "nil", "ready"}
    /\ informer \in [Kinds -> Nat]
    /\ taken \in [Kinds \X Uses -> Nat]
    /\ toStart \subseteq Factories
    /\ running \subseteq Kinds \X Nat /\ synced \subseteq running
    /\ pending \in 0..MaxPending
    /\ worker \in {"none", "idle", "busy", "writing", "left"}
    /\ file \in {"whole", "cut"}

Init ==
    /\ main = "flags" /\ code = 0
    /\ signals = 0 /\ handler = "none" /\ stop = FALSE
    /\ elector = "none"
    /\ informer = [k \in Kinds |-> 0]
    /\ taken = [u \in Kinds \X Uses |-> 0]
    /\ toStart = {} /\ running = {} /\ synced = {}
    /\ pending = 0 /\ worker = "none" /\ file = "whole"
------------------------------------------------------------------------------
Exit(c) == main' = "exited" /\ code' = c

\* glog.Fatal ends the process.
GoOrFatal(from, to) ==
    /\ main = from
    /\ \/ main' = to /\ UNCHANGED code
       \/ Exit(255)

\* A port that is in use is an error; ports are only probed and closed again.
ParseFlags ==
    /\ GoOrFatal("flags", "setup")
    /\ UNCHANGED <<signalVars, elector, informerVars, workVars>>

SetupSignalHandler ==
    /\ main = "setup"
    /\ main' = "clients"
    /\ handler' = "0"
    /\ UNCHANGED <<code, signals, stop, elector, informerVars, workVars>>

BuildClients ==
    /\ GoOrFatal("clients", "controller")
    /\ UNCHANGED <<signalVars, elector, informerVars, workVars>>

\* Mutant of InformerFor: every use gets an informer of its own.
InformerForEach(k) == informer[k] + 1

\* InformerFor: the first use creates the informer, later ones share it.
InformerFor(k) == IF informer[k] = 0 THEN 1 ELSE informer[k]

\* NewController asks for one informer after the other.
TakeInformer(k, u) ==
    /\ main = "controller"
    /\ taken[<<k, u>>] = 0
    /\ taken' = [taken EXCEPT ![<<k, u>>] = InformerFor(k)]
    /\ informer' = [informer EXCEPT ![k] = InformerFor(k)]
    /\ UNCHANGED <<mainVars, signalVars, elector, toStart, running, synced, workVars>>

InformersTaken == \A u \in Kinds \X Uses : taken[u] # 0

\* makeLeaderElectionConfig fails without a hostname, or for an unknown kind
\* of lock; setting the callbacks of nothing panics.
NoElectorConfig ==
    /\ main = "controller"
    /\ InformersTaken
    /\ Exit(2)
    /\ UNCHANGED <<signalVars, elector, informerVars, workVars>>

\* The error of NewLeaderElector is dropped.  It refuses a lease that is not
\* longer than the renew deadline; the flags allow it to be equal.
NewElector ==
    /\ main = "controller"
    /\ InformersTaken
    /\ main' = "start"
    /\ elector' \in {"nil", "ready"}
    /\ UNCHANGED <<code, signalVars, informerVars, workVars>>

\* go kubeInformerFactory.Start, go extendIngressInformerFactory.Start, Run.
GoStart ==
    /\ main = "start"
    /\ main' = "wait"
    /\ toStart' = Factories
    /\ UNCHANGED <<code, signalVars, elector, informer, taken, running, synced, workVars>>

\* Mutant of ReadyToRun: the caches of one factory are waited for.
OneFactoryReady ==
    \E f \in Factories : \A k \in Kinds : FactoryOf[k] = f => <<k, taken[<<k, "synced">>]>> \in synced

\* The three HasSynced functions that WaitForCacheSync polls.
ReadyToRun == \A k \in Kinds : <<k, taken[<<k, "synced">>]>> \in synced

\* go leaderRun and the worker.  The nil elector panics in its goroutine.
StartWorkers ==
    /\ main = "wait"
    /\ ReadyToRun
    /\ IF elector = "nil"
       THEN Exit(2) /\ UNCHANGED worker
       ELSE main' = "run" /\ worker' = "idle" /\ UNCHANGED code
    /\ UNCHANGED <<signalVars, elector, informerVars, pending, file>>

\* Mutant of GiveUp: stopCh is not looked at while the caches fill.
WaitOn == FALSE /\ UNCHANGED vars

\* WaitForCacheSync sees stopCh closed: Run returns an error, which is fatal.
GiveUp ==
    /\ main = "wait"
    /\ stop
    /\ Exit(255)
    /\ UNCHANGED <<signalVars, elector, informerVars, workVars>>

\* Mutant of ReturnFromRun: Run does not wait for stopCh.
ReturnAtOnce ==
    /\ main = "run"
    /\ main' = "returned"
    /\ UNCHANGED <<code, signalVars, elector, informerVars, workVars>>

\* <-stopCh; the deferred ShutDown of the queue; nobody is waited for.
ReturnFromRun ==
    /\ main = "run"
    /\ stop
    /\ main' = "returned"
    /\ UNCHANGED <<code, signalVars, elector, informerVars, workVars>>

ReturnFromMain ==
    /\ main = "returned"
    /\ Exit(0)
    /\ UNCHANGED <<signalVars, elector, informerVars, workVars>>
------------------------------------------------------------------------------
\* Without a handler a signal ends the process.
Signal ==
    /\ Alive
    /\ signals < 3
    /\ signals' = signals + 1
    /\ IF handler = "none" THEN Exit(143) ELSE UNCHANGED mainVars
    /\ UNCHANGED <<handler, stop, elector, informerVars, workVars>>

FirstSignal ==
    /\ Alive
    /\ handler = "0" /\ signals >= 1
    /\ handler' = "1"
    /\ stop' = TRUE
    /\ UNCHANGED <<mainVars, signals, elector, informerVars, workVars>>

SecondSignal ==
    /\ Alive
    /\ handler = "1" /\ signals >= 2
    /\ Exit(1)
    /\ UNCHANGED <<signalVars, elector, informerVars, workVars>>

\* Start runs the informers that were requested by then, each once.
StartFactory(f) ==
    /\ Alive
    /\ f \in toStart
    /\ toStart' = toStart \ {f}
    /\ running' = running \cup {<<k, informer[k]>> : k \in {k \in Kinds : FactoryOf[k] = f /\ informer[k] # 0}}
    /\ UNCHANGED <<mainVars, signalVars, elector, informer, taken, synced, workVars>>

\* The API server answers the first list.
Sync(i) ==
    /\ Alive
    /\ ~stop
    /\ i \in running \ synced
    /\ synced' = synced \cup {i}
    /\ UNCHANGED <<mainVars, signalVars, elector, informer, taken, toStart, running, workVars>>

\* A handler of a running informer adds a key.
Arrive ==
    /\ Alive
    /\ running # {} /\ main # "returned"
    /\ pending < MaxPending
    /\ pending' = pending + 1
    /\ UNCHANGED <<mainVars, signalVars, elector, informerVars, worker, file>>

\* Mutant of TakeItem: Get does not wait for an item.
TakeNow ==
    /\ Alive
    /\ worker = "idle"
    /\ worker' = "busy"
    /\ pending' = pending - 1
    /\ UNCHANGED <<mainVars, signalVars, elector, informerVars, file>>

TakeItem ==
    /\ Alive
    /\ worker = "idle" /\ pending > 0
    /\ worker' = "busy"
    /\ pending' = pending - 1
    /\ UNCHANGED <<mainVars, signalVars, elector, informerVars, file>>

\* rebuidNginxConf opens nginx.conf with O_TRUNC, then executes the template.
BeginWrite ==
    /\ Alive
    /\ worker = "busy" /\ pending = 0
    /\ worker' = "writing"
    /\ file' = "cut"
    /\ UNCHANGED <<mainVars, signalVars, elector, informerVars, pending>>

\* The file is written; or the queue was not empty, the ingress is gone, or a
\* panic was recovered.
FinishItem ==
    /\ Alive
    /\ worker \in {"busy", "writing"}
    /\ worker' = "idle"
    /\ file' = "whole"
    /\ UNCHANGED <<mainVars, signalVars, elector, informerVars, pending>>

\* Get of a queue that is shut down and empty; wait.Until sees stopCh closed.
WorkerLeaves ==
    /\ Alive
    /\ worker = "idle" /\ pending = 0 /\ main = "returned"
    /\ worker' = "left"
    /\ UNCHANGED <<mainVars, signalVars, elector, informerVars, pending, file>>

MainNext ==
    \/ ParseFlags \/ SetupSignalHandler \/ BuildClients
    \/ \E k \in Kinds, u \in Uses : TakeInformer(k, u)
    \/ NoElectorConfig \/ NewElector \/ GoStart \/ StartWorkers \/ GiveUp \/ ReturnFromRun \/ ReturnFromMain

HandlerNext == FirstSignal \/ SecondSignal

WorkerNext == TakeItem \/ BeginWrite \/ FinishItem \/ WorkerLeaves

Next ==
    \/ MainNext \/ HandlerNext \/ WorkerNext \/ Signal \/ Arrive
    \/ \E f \in Factories : StartFactory(f)
    \/ \E i \in running : Sync(i)

\* The goroutines go on; nobody has to send a signal, and the API server
\* need not answer.
Spec ==
    /\ Init /\ [][Next]_vars
    /\ WF_vars(MainNext) /\ WF_vars(HandlerNext) /\ WF_vars(WorkerNext)
    /\ \A f \in Factories : WF_vars(StartFactory(f))

Answers == \A k \in Kinds, n \in 1..2 : WF_vars(Sync(<<k, n>>))
------------------------------------------------------------------------------
\* controller.go:416, "Wait for the caches to be synced before starting
\* workers": every lister and every handler the worker relies on belongs to an
\* informer that runs and has the first list.
WorkOnSynced ==
    worker # "none" => \A k \in Kinds, u \in Uses : <<k, taken[<<k, u>>]>> \in synced

\* signal.go:26, "a stop channel is returned which is closed on one of these
\* signals": after a signal the process ends, wherever main, the informers and
\* the worker are, and whether or not the API server answers.
SignalEnds == signals > 0 ~> ~Alive

\* main.go:44-76: once the API server answers, a process that nobody stops gets
\* to work, unless the elector it was to run is nil.
GetsToWork == Answers => (main = "wait" ~> worker # "none" \/ signals > 0 \/ elector = "nil")

\* main.go:74: the exit code says that all is well only if somebody asked the
\* process to stop and it had begun to work.
ZeroIsGraceful == ~Alive /\ code = 0 => stop /\ worker # "none"
==============================================================================
