---------------------------- MODULE ProcessProofs ----------------------------
(***************************************************************************)
(* The process of the controller (Lifecycle), those of nginx that its      *)
(* worker runs (NginxCommand), and the election between the processes of   *)
(* its replicas (LeaderElection), each with its types.                     *)
(*                                                                         *)
(* The worker runs on caches that are synced, for any factories and kinds: *)
(* HasSynced is asked of the informer one use got; that it speaks for the  *)
(* listers and handlers too is what sharing in InformerFor gives.  An exit *)
(* code of zero means a graceful stop.                                     *)
(*                                                                         *)
(* The verdict on an ingress survives the race between reading and Wait:   *)
(* every line of a test, wherever it is, is one that a test of this file   *)
(* prints, so that losing lines cannot turn one verdict into the other.    *)
(*                                                                         *)
(* At most one replica believes it leads, for any number of replicas, any  *)
(* durations with the margin of DurationsAssumption and any faults.        *)
(***************************************************************************)
EXTENDS Lifecycle, NginxCommand, LeaderElection, SequencesExt, TLAPS

\* Every use of a kind has the one informer of the factory.
Shared ==
    \A k \in Kinds, u \in Uses : taken[<<k, u>>] # 0 => taken[<<k, u>>] = informer[k]

\* NewController is through.
AllTaken == \A k \in Kinds, u \in Uses : taken[<<k, u>>] # 0

SyncInv ==
    /\ informer \in [Kinds -> Nat]
    /\ taken \in [Kinds \X Uses -> Nat]
    /\ Shared
    /\ main \in {"start", "wait", "run", "returned"} => AllTaken
    /\ worker # "none" => AllTaken
    /\ WorkOnSynced

LEMMA SyncInit == Init => SyncInv
BY DEF Init, SyncInv, Shared, WorkOnSynced

LEMMA SyncStep == SyncInv /\ [Next]_vars => SyncInv'
<1> SUFFICES ASSUME SyncInv, [Next]_vars PROVE SyncInv' OBVIOUS
<1> USE DEF SyncInv
<1>1. ASSUME NEW k \in Kinds, NEW u \in Uses, TakeInformer(k, u) PROVE SyncInv'
  <2>1. InformerFor(k) \in Nat \ {0} /\ (informer[k] # 0 => InformerFor(k) = informer[k])
    BY DEF InformerFor
  <2>2. informer' \in [Kinds -> Nat] /\ taken' \in [Kinds \X Uses -> Nat]
    BY <1>1, <2>1 DEF TakeInformer
  <2>3. ASSUME NEW j \in Kinds, NEW v \in Uses, taken'[<<j, v>>] # 0
        PROVE  taken'[<<j, v>>] = informer'[j]
    <3>1. CASE j = k /\ v = u BY <3>1, <1>1, <2>1 DEF TakeInformer
    <3>2. CASE j = k /\ v # u
      <4>1. taken'[<<j, v>>] = taken[<<j, v>>] BY <3>2, <1>1 DEF TakeInformer
      <4>2. informer[k] # 0 /\ taken[<<j, v>>] = informer[k] BY <4>1, <3>2, <2>3 DEF Shared
      <4> QED BY <4>1, <4>2, <2>1, <3>2, <1>1 DEF TakeInformer
    <3>3. CASE j # k
      <4>1. taken'[<<j, v>>] = taken[<<j, v>>] /\ informer'[j] = informer[j]
        BY <3>3, <1>1 DEF TakeInformer
      <4> QED BY <4>1, <2>3 DEF Shared
    <3> QED BY <3>1, <3>2, <3>3
  <2>4. worker = "none" BY <1>1 DEF AllTaken, TakeInformer
  <2> QED BY <1>1, <2>2, <2>3, <2>4 DEF TakeInformer, Shared, mainVars, workVars, WorkOnSynced
<1>2. CASE StartWorkers
  <2>1. AllTaken BY <1>2 DEF StartWorkers
  <2>2. ASSUME NEW k \in Kinds, NEW u \in Uses PROVE <<k, taken[<<k, u>>]>> \in synced
    <3>1. taken[<<k, u>>] = taken[<<k, "synced">>] BY <2>1 DEF AllTaken, Shared, Uses
    <3> QED BY <3>1, <1>2 DEF StartWorkers, ReadyToRun
  <2> QED BY <1>2, <2>1, <2>2
          DEF StartWorkers, Exit, informerVars, AllTaken, Shared, WorkOnSynced
<1>3. ASSUME NEW i \in running, Sync(i) PROVE SyncInv'
  BY <1>3 DEF Sync, mainVars, workVars, AllTaken, Shared, WorkOnSynced
<1>4. ASSUME NEW f \in Factories, StartFactory(f) PROVE SyncInv'
  BY <1>4 DEF StartFactory, mainVars, workVars, AllTaken, Shared, WorkOnSynced
<1>5. CASE ParseFlags \/ SetupSignalHandler \/ BuildClients
  BY <1>5 DEF ParseFlags, SetupSignalHandler, BuildClients, GoOrFatal, Exit, informerVars, workVars,
              AllTaken, Shared, WorkOnSynced
<1>6. CASE NoElectorConfig \/ NewElector
  BY <1>6 DEF NoElectorConfig, NewElector, InformersTaken, Exit, informerVars, workVars, AllTaken, Shared, WorkOnSynced, Uses
<1>7. CASE GoStart \/ GiveUp \/ ReturnFromRun \/ ReturnFromMain
  BY <1>7 DEF GoStart, GiveUp, ReturnFromRun, ReturnFromMain, Exit, informerVars, workVars,
              AllTaken, Shared, WorkOnSynced
<1>8. CASE HandlerNext \/ Signal \/ Arrive
  BY <1>8 DEF HandlerNext, FirstSignal, SecondSignal, Signal, Arrive, Exit, mainVars, informerVars,
              workVars, AllTaken, Shared, WorkOnSynced
<1>9. CASE WorkerNext
  BY <1>9 DEF WorkerNext, TakeItem, BeginWrite, FinishItem, WorkerLeaves, mainVars, informerVars,
              AllTaken, Shared, WorkOnSynced
<1>10. CASE UNCHANGED vars
  BY <1>10 DEF vars, mainVars, informerVars, workVars, AllTaken, Shared, WorkOnSynced
<1> QED BY <1>1, <1>2, <1>3, <1>4, <1>5, <1>6, <1>7, <1>8, <1>9, <1>10 DEF Next, MainNext

\* controller.go:416: whatever informers and factories there are, the worker
\* starts only when all its listers and handlers have a synced informer.
THEOREM WorkerOnSyncedCaches == Spec => []WorkOnSynced
<1>1. SyncInv => WorkOnSynced BY DEF SyncInv
<1> QED BY <1>1, SyncInit, SyncStep, PTL DEF Spec
------------------------------------------------------------------------------
\* The types without stop; Boolean state is proved on its own.
DataTypes ==
    /\ main \in {"flags", "setup", "clients", "controller", "start", "wait", "run", "returned", "exited"}
    /\ code \in {0, 1, 2, 143, 255}
    /\ signals \in 0..3
    /\ handler \in {"none", "0", "1"}
    /\ elector \in {"none", "nil", "ready"}
    /\ informer \in [Kinds -> Nat]
    /\ taken \in [Kinds \X Uses -> Nat]
    /\ toStart \subseteq Factories
    /\ running \subseteq Kinds \X Nat /\ synced \subseteq running
    /\ pending \in 0..MaxPending
    /\ worker \in {"none", "idle", "busy", "writing", "left"}
    /\ file \in {"whole", "cut"}

LEMMA DataInit == Init => DataTypes
BY PendingAssumption DEF Init, DataTypes

LEMMA DataStep == DataTypes /\ [Next]_vars => DataTypes'
<1> SUFFICES ASSUME DataTypes, [Next]_vars PROVE DataTypes' OBVIOUS
<1> USE PendingAssumption DEF DataTypes
<1>1. ASSUME NEW k \in Kinds, NEW u \in Uses, TakeInformer(k, u) PROVE DataTypes'
  BY <1>1 DEF TakeInformer, InformerFor, mainVars, signalVars, workVars
<1>2. CASE StartWorkers BY <1>2 DEF StartWorkers, Exit, signalVars, informerVars
<1>3. ASSUME NEW i \in running, Sync(i) PROVE DataTypes'
  BY <1>3 DEF Sync, mainVars, signalVars, workVars
<1>4. ASSUME NEW f \in Factories, StartFactory(f) PROVE DataTypes'
  BY <1>4 DEF StartFactory, mainVars, signalVars, workVars
<1>5. CASE ParseFlags \/ SetupSignalHandler \/ BuildClients
  BY <1>5 DEF ParseFlags, SetupSignalHandler, BuildClients, GoOrFatal, Exit, signalVars, informerVars, workVars
<1>6. CASE NoElectorConfig \/ NewElector
  BY <1>6 DEF NoElectorConfig, NewElector, Exit, signalVars, informerVars, workVars
<1>7. CASE GoStart \/ GiveUp
  BY <1>7 DEF GoStart, GiveUp, Exit, signalVars, informerVars, workVars
<1>8. CASE ReturnFromRun \/ ReturnFromMain
  BY <1>8 DEF ReturnFromRun, ReturnFromMain, Exit, signalVars, informerVars, workVars
<1>9. CASE HandlerNext
  BY <1>9 DEF HandlerNext, FirstSignal, SecondSignal, Exit, mainVars, signalVars, informerVars, workVars
<1>10. CASE Signal BY <1>10 DEF Signal, Exit, mainVars, informerVars, workVars
<1>11. CASE TakeItem \/ Arrive BY <1>11 DEF TakeItem, Arrive, mainVars, signalVars, informerVars
<1>12. CASE BeginWrite \/ FinishItem \/ WorkerLeaves
  BY <1>12 DEF BeginWrite, FinishItem, WorkerLeaves, mainVars, signalVars, informerVars
<1>13. CASE UNCHANGED vars BY <1>13 DEF vars, mainVars, signalVars, informerVars, workVars
<1> QED BY <1>1, <1>2, <1>3, <1>4, <1>5, <1>6, <1>7, <1>8, <1>9, <1>10, <1>11, <1>12, <1>13
        DEF Next, MainNext, WorkerNext

StopType == stop \in BOOLEAN

LEMMA StopStep == StopType /\ [Next]_vars => StopType'
<1> SUFFICES ASSUME StopType, [Next]_vars PROVE StopType' OBVIOUS
<1> USE DEF StopType
<1>1. CASE FirstSignal BY <1>1 DEF FirstSignal
<1>2. CASE ~FirstSignal
  <2>1. stop' = stop
    BY <1>2 DEF Next, MainNext, HandlerNext, WorkerNext, ParseFlags, SetupSignalHandler, BuildClients,
                TakeInformer, NoElectorConfig, NewElector, GoStart, StartWorkers, GiveUp, ReturnFromRun,
                ReturnFromMain, SecondSignal, TakeItem, BeginWrite, FinishItem, WorkerLeaves, Signal,
                Arrive, StartFactory, Sync, signalVars, vars
  <2> QED BY <2>1
<1> QED BY <1>1, <1>2

\* The types of start and shutdown, for any factories, kinds and queue bound.
THEOREM LifecycleTypes == Spec => []TypeOK
<1>1. Init => StopType BY DEF Init, StopType
<1>2. DataTypes /\ StopType => TypeOK BY Zenon DEF DataTypes, StopType, TypeOK
<1> QED BY <1>1, <1>2, DataInit, DataStep, StopStep, PTL DEF Spec
------------------------------------------------------------------------------
\* Main is in Run only after the worker was started, and past it only after
\* stopCh was closed; neither is ever undone.
GracefulInv ==
    /\ main = "run" => worker # "none"
    /\ main = "returned" => stop /\ worker # "none"
    /\ ZeroIsGraceful

LEMMA GracefulInit == Init => GracefulInv
BY DEF Init, GracefulInv, ZeroIsGraceful, Alive

LEMMA GracefulStep == GracefulInv /\ [Next]_vars => GracefulInv'
<1> SUFFICES ASSUME GracefulInv, [Next]_vars PROVE GracefulInv' OBVIOUS
<1> USE DEF GracefulInv, ZeroIsGraceful, Alive
<1>1. CASE \E k \in Kinds, u \in Uses : TakeInformer(k, u)
  BY <1>1 DEF TakeInformer, mainVars, signalVars, workVars
<1>2. CASE StartWorkers BY <1>2 DEF StartWorkers, Exit, signalVars
<1>3. CASE \E i \in running : Sync(i) BY <1>3 DEF Sync, mainVars, signalVars, workVars
<1>4. CASE \E f \in Factories : StartFactory(f)
  BY <1>4 DEF StartFactory, mainVars, signalVars, workVars
<1>5. CASE ParseFlags \/ SetupSignalHandler \/ BuildClients
  BY <1>5 DEF ParseFlags, SetupSignalHandler, BuildClients, GoOrFatal, Exit, signalVars, workVars
<1>6. CASE NoElectorConfig \/ NewElector
  BY <1>6 DEF NoElectorConfig, NewElector, Exit, signalVars, workVars
<1>7. CASE GoStart \/ GiveUp BY <1>7 DEF GoStart, GiveUp, Exit, signalVars, workVars
<1>8. CASE ReturnFromRun BY <1>8 DEF ReturnFromRun, signalVars, workVars
<1>9. CASE ReturnFromMain BY <1>9 DEF ReturnFromMain, Exit, signalVars, workVars
<1>10. CASE HandlerNext \/ Signal
  BY <1>10 DEF HandlerNext, FirstSignal, SecondSignal, Signal, Exit, mainVars, workVars, signalVars
<1>11. CASE WorkerNext \/ Arrive
  BY <1>11 DEF WorkerNext, TakeItem, BeginWrite, FinishItem, WorkerLeaves, Arrive, mainVars, signalVars
<1>12. CASE UNCHANGED vars BY <1>12 DEF vars, mainVars, signalVars, workVars
<1> QED BY <1>1, <1>2, <1>3, <1>4, <1>5, <1>6, <1>7, <1>8, <1>9, <1>10, <1>11, <1>12 DEF Next, MainNext

\* main.go:74: wherever a signal, a fatal error or a panic ends the process,
\* it reports success only after a graceful stop of a working controller.
THEOREM SuccessIsGraceful == Spec => []ZeroIsGraceful
<1>1. GracefulInv => ZeroIsGraceful BY DEF GracefulInv
<1> QED BY <1>1, GracefulInit, GracefulStep, PTL DEF Spec
------------------------------------------------------------------------------
\* Lines that do not contradict the file that is tested.
Honest(lines) ==
    task # "run" => IF test = "good" THEN "failed" \notin lines ELSE "successful" \notin lines

Reading == pc \in {"read", "readAgain", "judge"}

CommandInv ==
    /\ out \in Seq(Lines)
    /\ prog \in {"running", "exited", "closed"}
    /\ prog = "running" => pc = "read"
    /\ pc = "read" => Honest(ToSet(out)) /\ Honest(pipe)
    /\ Reading => Honest(text)
    /\ pc \in {"render", "start", "readAgain", "write"} => text = {}
    \* RunCmd returns what it read as an error.
    /\ pc = "judge" => text = {} \/ err = TRUE
    \* What was read comes from a test of this input.
    /\ task # "run" /\ (pc \in {"start", "read"} \/ text # {}) /\ (Reading \/ pc = "start") => test \in {input, "cut"}

LEMMA CommandInit == NginxInit => CommandInv
<1> SUFFICES ASSUME NginxInit PROVE CommandInv OBVIOUS
<1>1. <<>> \in Seq(Lines) OBVIOUS
<1> QED BY <1>1 DEF NginxInit, CommandInv, Reading

\* The elements that are left after Tail were there before.
LEMMA ToSetOfTail ==
    ASSUME NEW S, NEW s \in Seq(S), s # <<>>
    PROVE  ToSet(Tail(s)) \subseteq ToSet(s) /\ Head(s) \in ToSet(s)
<1>1. DOMAIN Tail(s) = 1..(Len(s) - 1) /\ DOMAIN s = 1..Len(s) /\ Len(s) \in Nat \ {0}
  OBVIOUS
<1>2. \A k \in 1..(Len(s) - 1) : Tail(s)[k] = s[k + 1] /\ k + 1 \in 1..Len(s)
  OBVIOUS
<1>3. Head(s) = s[1]
  OBVIOUS
<1> QED BY <1>1, <1>2, <1>3 DEF ToSet

\* The lines of short outputs.
LEMMA ToSetOfTwo ==
    ASSUME NEW a, NEW b PROVE ToSet(<<a, b>>) = {a, b}
<1>1. DOMAIN <<a, b>> = 1..2 OBVIOUS
<1>2. 1..2 = {1, 2} OBVIOUS
<1> QED BY <1>1, <1>2 DEF ToSet

LEMMA ToSetOfThree ==
    ASSUME NEW a, NEW b, NEW c PROVE ToSet(<<a, b, c>>) = {a, b, c}
<1>1. DOMAIN <<a, b, c>> = 1..3 OBVIOUS
<1>2. 1..3 = {1, 2, 3} OBVIOUS
<1> QED BY <1>1, <1>2 DEF ToSet

\* A test prints one verdict, that of its file.
LEMMA OutputIsHonest ==
    ASSUME NEW t, NEW content, NEW lines \in Output(t, content)
    PROVE  /\ lines \in Seq(Lines)
           /\ t # "run" => IF content = "good" THEN "failed" \notin ToSet(lines)
                                               ELSE "successful" \notin ToSet(lines)
<1>1. lines \in Seq(Lines)
  <2>1. lines \in {<<>>, <<"warn">>, <<"emerg">>, <<"ok", "successful">>, <<"warn", "ok", "successful">>,
                   <<"emerg", "failed">>, <<"warn", "emerg", "failed">>}
    BY DEF Output
  <2>2. <<"warn">> \in Seq(Lines) /\ <<"emerg">> \in Seq(Lines) /\ <<>> \in Seq(Lines) BY DEF Lines
  <2>3. <<"ok", "successful">> \in Seq(Lines) /\ <<"emerg", "failed">> \in Seq(Lines) BY DEF Lines
  <2>4. <<"warn", "ok", "successful">> \in Seq(Lines) BY DEF Lines
  <2>5. <<"warn", "emerg", "failed">> \in Seq(Lines) BY DEF Lines
  <2> QED BY <2>1, <2>2, <2>3, <2>4, <2>5, Zenon
<1>2. CASE t # "run" /\ content = "good"
  <2>1. ToSet(lines) \in {{"ok", "successful"}, {"warn", "ok", "successful"}}
    BY <1>2, ToSetOfTwo, ToSetOfThree DEF Output
  <2> QED BY <1>1, <1>2, <2>1
<1>3. CASE t # "run" /\ content # "good"
  <2>1. ToSet(lines) \in {{"emerg", "failed"}, {"warn", "emerg", "failed"}}
    BY <1>3, ToSetOfTwo, ToSetOfThree DEF Output
  <2> QED BY <1>1, <1>3, <2>1
<1> QED BY <1>1, <1>2, <1>3

\* The invariant action by action.
LEMMA CommandStep == CommandInv /\ [NginxNext]_nginxVars => CommandInv'
<1> SUFFICES ASSUME CommandInv, [NginxNext]_nginxVars PROVE CommandInv' OBVIOUS
<1> USE DEF CommandInv, Honest, Reading
<1>1. CASE Begin BY <1>1 DEF Begin, fileVars, commandVars, memoryVars
<1>2. CASE RenderTest
  BY <1>2 DEF RenderTest, Rendered, Contents, commandVars, memoryVars
<1>3. CASE StartCommand
  <2>1. CASE pc' = "judge" BY <1>3, <2>1 DEF StartCommand, fileVars, commandVars, memoryVars
  <2>2. CASE pc' = "read"
    <3>1. out' \in Output(task, test) BY <1>3, <2>2 DEF StartCommand, commandVars
    <3>2. out' \in Seq(Lines) /\ Honest(ToSet(out')) BY <3>1, OutputIsHonest
    <3> QED BY <1>3, <2>2, <3>2 DEF StartCommand, fileVars, memoryVars
  <2> QED BY <1>3, <2>1, <2>2 DEF StartCommand
<1>4. CASE WriteLine
  <2>1. /\ Tail(out) \in Seq(Lines) /\ Head(out) \in Lines
        /\ ToSet(Tail(out)) \subseteq ToSet(out) /\ Head(out) \in ToSet(out)
    BY <1>4, ToSetOfTail DEF WriteLine
  <2> QED BY <1>4, <2>1 DEF WriteLine, fileVars, memoryVars
<1>5. CASE ExitCommand BY <1>5 DEF ExitCommand, fileVars, memoryVars
<1>6. CASE Wait BY <1>6 DEF Wait, fileVars, memoryVars
<1>7. CASE LeaveDaemon BY <1>7 DEF LeaveDaemon, fileVars, memoryVars
<1>8. CASE Read BY <1>8 DEF Read, fileVars, memoryVars
<1>9. CASE ReadEnd BY <1>9 DEF ReadEnd, Ended, fileVars, commandVars, memoryVars
<1>10. CASE ReadAgain BY <1>10 DEF ReadAgain, fileVars, commandVars, memoryVars
<1>11. CASE JudgeIngress BY <1>11 DEF JudgeIngress, Verdict, fileVars, commandVars
<1>12. CASE JudgeBase BY <1>12 DEF JudgeBase, fileVars, commandVars, memoryVars
<1>13. CASE WriteConf BY <1>13 DEF WriteConf, Rendered, Contents, commandVars, memoryVars
<1>14. CASE JudgeRun BY <1>14 DEF JudgeRun, fileVars, commandVars
<1>15. CASE UNCHANGED nginxVars BY <1>15 DEF nginxVars, fileVars, commandVars, memoryVars
<1> QED BY <1>1, <1>2, <1>3, <1>4, <1>5, <1>6, <1>7, <1>8, <1>9, <1>10, <1>11, <1>12,
           <1>13, <1>14, <1>15 DEF NginxNext, Worker, Command

\* The state of an ingress only changes to the verdict nginx gave on its file.
LEMMA VerdictStep ==
    CommandInv /\ [NginxNext]_nginxVars
        => (state' # state => state' = IF test = "good" THEN "Ready" ELSE "unReady")
<1> SUFFICES ASSUME CommandInv, [NginxNext]_nginxVars, state' # state
             PROVE  state' = IF test = "good" THEN "Ready" ELSE "unReady"
  OBVIOUS
<1>1. JudgeIngress
  BY DEF NginxNext, Worker, Command, Begin, RenderTest, StartCommand, WriteLine, ExitCommand, Wait,
         LeaveDaemon, Read, ReadEnd, ReadAgain, JudgeBase, WriteConf, JudgeRun, memoryVars, nginxVars
<1> QED BY <1>1 DEF JudgeIngress, Verdict, CommandInv, Reading, Honest

\* What nginx refuses takes the place of a Ready specification or of none.
LEMMA InstallStep ==
    CommandInv /\ [NginxNext]_nginxVars
        => (installed' = "bad" /\ installed # "bad" => state = "Ready")
<1> SUFFICES ASSUME CommandInv, [NginxNext]_nginxVars, installed' = "bad", installed # "bad"
             PROVE  state = "Ready"
  OBVIOUS
<1>1. JudgeIngress
  BY DEF NginxNext, Worker, Command, Begin, RenderTest, StartCommand, WriteLine, ExitCommand, Wait,
         LeaveDaemon, Read, ReadEnd, ReadAgain, JudgeBase, WriteConf, JudgeRun, memoryVars, nginxVars
<1>2. Verdict = "Ready" /\ input = "bad" BY <1>1 DEF JudgeIngress
<1>3. "successful" \in text \/ state = "Ready" BY <1>2 DEF Verdict
<1>4. "successful" \in text => test = "good" BY <1>1 DEF JudgeIngress, CommandInv, Reading, Honest
<1>5. "successful" \in text => test \in {input, "cut"}
  BY <1>1 DEF JudgeIngress, CommandInv, Reading
<1> QED BY <1>2, <1>3, <1>4, <1>5

\* What was read of a test of refused contents is an error without "successful".
LEMMA WriteStep ==
    CommandInv /\ [NginxNext]_nginxVars
        => (pc = "judge" /\ pc' = "write" /\ input = "bad" => text = {})
<1> SUFFICES ASSUME CommandInv, [NginxNext]_nginxVars, pc = "judge", pc' = "write", input = "bad",
                    text # {}
             PROVE  FALSE
  OBVIOUS
<1>1. JudgeBase
  BY DEF NginxNext, Worker, Command, Begin, RenderTest, StartCommand, WriteLine, ExitCommand, Wait,
         LeaveDaemon, Read, ReadEnd, ReadAgain, JudgeIngress, WriteConf, JudgeRun, CommandInv, nginxVars
<1>2. err = TRUE BY DEF CommandInv
<1>3. "successful" \in text BY <1>1, <1>2 DEF JudgeBase
<1>4. test \in {"bad", "cut"} BY <1>1 DEF JudgeBase, CommandInv, Reading
<1> QED BY <1>1, <1>3, <1>4 DEF JudgeBase, CommandInv, Reading, Honest

LEMMA CommandInvariant == NginxSpec => []CommandInv
<1> QED BY CommandInit, CommandStep, PTL DEF NginxSpec

\* For every output and every loss of lines: the state of an ingress never
\* says the opposite of what nginx said (controller.go:550-554).
THEOREM VerdictIsAlwaysNginxs == NginxSpec => VerdictIsNginxs
<1> QED BY CommandInvariant, VerdictStep, PTL DEF NginxSpec, VerdictIsNginxs

\* For every output and every loss of lines: contents nginx refuses are let
\* through only when nothing was read at all (extendingress.go:307-315).
THEOREM OnlySilenceEverPasses == NginxSpec => OnlySilencePasses
<1> QED BY CommandInvariant, WriteStep, PTL DEF NginxSpec, OnlySilencePasses

\* A specification nginx refuses is never installed for an ingress that was
\* not Ready (extendingress.go:88).
THEOREM RefusedAlwaysStaysOut == NginxSpec => RefusedStaysOut
<1> QED BY CommandInvariant, InstallStep, PTL DEF NginxSpec, RefusedStaysOut
------------------------------------------------------------------------------
\* The types without and with the flags; Boolean state is proved on its own.
NginxDataTypes ==
    /\ pc \in {"idle", "render", "start", "read", "readAgain", "judge", "write"}
    /\ task \in {"ingress", "base", "run"}
    /\ input \in {"good", "bad"}
    /\ test \in Contents /\ conf \in Contents
    /\ prog \in {"running", "exited", "closed"}
    /\ out \in Seq(Lines) /\ pipe \subseteq Lines /\ text \subseteq Lines
    /\ state \in {"", "Ready", "unReady"}
    /\ installed \in {"none", "good", "bad"}

FlagTypes == daemon \in BOOLEAN /\ err \in BOOLEAN /\ first \in BOOLEAN

LEMMA NginxDataInit == NginxInit => NginxDataTypes
<1>1. <<>> \in Seq(Lines) OBVIOUS
<1> QED BY <1>1 DEF NginxInit, NginxDataTypes, Contents

LEMMA NginxDataStep == NginxDataTypes /\ [NginxNext]_nginxVars => NginxDataTypes'
<1> SUFFICES ASSUME NginxDataTypes, [NginxNext]_nginxVars PROVE NginxDataTypes' OBVIOUS
<1> USE DEF NginxDataTypes
<1>1. CASE Begin BY <1>1 DEF Begin, fileVars, commandVars, memoryVars
<1>2. CASE RenderTest BY <1>2 DEF RenderTest, Rendered, Contents, fileVars, commandVars, memoryVars
<1>3. CASE StartCommand
  <2>1. CASE UNCHANGED commandVars BY <1>3, <2>1 DEF StartCommand, fileVars, commandVars, memoryVars
  <2>2. CASE out' \in Output(task, test) /\ pc' = "read"
    <3>1. out' \in Seq(Lines) BY <2>2, OutputIsHonest
    <3> QED BY <1>3, <2>2, <3>1 DEF StartCommand, fileVars, commandVars, memoryVars
  <2> QED BY <1>3, <2>1, <2>2 DEF StartCommand
<1>4. CASE WriteLine
  <2>1. out # <<>> /\ out \in Seq(Lines) BY <1>4 DEF WriteLine
  <2>2. Tail(out) \in Seq(Lines) /\ Head(out) \in Lines
    <3> HIDE DEF NginxDataTypes
    <3> QED BY <2>1
  <2> QED BY <1>4, <2>2 DEF WriteLine, fileVars, memoryVars
<1>5. CASE ExitCommand \/ Wait \/ LeaveDaemon
  BY <1>5 DEF ExitCommand, Wait, LeaveDaemon, fileVars, memoryVars
<1>6. CASE Read \/ ReadEnd \/ ReadAgain
  BY <1>6 DEF Read, ReadEnd, ReadAgain, fileVars, commandVars, memoryVars
<1>7. CASE JudgeIngress BY <1>7 DEF JudgeIngress, Verdict, fileVars, commandVars
<1>8. CASE JudgeBase BY <1>8 DEF JudgeBase, fileVars, commandVars, memoryVars
<1>9. CASE WriteConf BY <1>9 DEF WriteConf, Rendered, Contents, fileVars, commandVars, memoryVars
<1>10. CASE JudgeRun BY <1>10 DEF JudgeRun, fileVars, commandVars
<1>11. CASE UNCHANGED nginxVars BY <1>11 DEF nginxVars, fileVars, commandVars, memoryVars
<1> QED BY <1>1, <1>2, <1>3, <1>4, <1>5, <1>6, <1>7, <1>8, <1>9, <1>10, <1>11 DEF NginxNext, Worker, Command

LEMMA FlagInit == NginxInit => FlagTypes
BY DEF NginxInit, FlagTypes

LEMMA FlagStep == FlagTypes /\ [NginxNext]_nginxVars => FlagTypes'
<1> SUFFICES ASSUME FlagTypes, [NginxNext]_nginxVars PROVE FlagTypes' OBVIOUS
<1> USE DEF FlagTypes
<1>1. CASE Begin BY <1>1 DEF Begin, commandVars, memoryVars
<1>2. CASE RenderTest BY <1>2 DEF RenderTest, commandVars, memoryVars
<1>3. CASE StartCommand BY <1>3 DEF StartCommand, commandVars, memoryVars
<1>4. CASE WriteLine \/ ExitCommand BY <1>4 DEF WriteLine, ExitCommand, commandVars, memoryVars
<1>5. CASE Wait BY <1>5 DEF Wait, commandVars, memoryVars
<1>6. CASE LeaveDaemon BY <1>6 DEF LeaveDaemon, commandVars, memoryVars
<1>7. CASE Read BY <1>7 DEF Read, commandVars, memoryVars
<1>8. CASE ReadEnd BY <1>8 DEF ReadEnd, commandVars, memoryVars
<1>9. CASE ReadAgain BY <1>9 DEF ReadAgain, commandVars, memoryVars
<1>10. CASE JudgeIngress BY <1>10 DEF JudgeIngress, commandVars, memoryVars
<1>11. CASE JudgeBase BY <1>11 DEF JudgeBase, commandVars, memoryVars
<1>12. CASE WriteConf BY <1>12 DEF WriteConf, commandVars, memoryVars
<1>13. CASE JudgeRun BY <1>13 DEF JudgeRun, commandVars, memoryVars
<1>14. CASE UNCHANGED nginxVars BY <1>14 DEF nginxVars, commandVars, memoryVars
<1> QED BY <1>1, <1>2, <1>3, <1>4, <1>5, <1>6, <1>7, <1>8,
           <1>9, <1>10, <1>11, <1>12, <1>13, <1>14 DEF NginxNext, Worker, Command

\* The types of a command: in particular the files only ever hold contents of
\* the three kinds, whatever rendering leaves behind.
THEOREM CommandTypes == NginxSpec => []NginxTypeOK
<1>1. NginxDataTypes /\ FlagTypes => NginxTypeOK BY Zenon DEF NginxDataTypes, FlagTypes, NginxTypeOK
<1> QED BY <1>1, NginxDataInit, NginxDataStep, FlagInit, FlagStep, PTL DEF NginxSpec
------------------------------------------------------------------------------
\* Left(r) is the longest time a leader may go on without a successful call:
\* the rest of its deadline, the call running then, and the last one.  Every
\* other replica that has seen the leader's record waits longer than that.
LeftOf(c, f, a, d) ==
    IF c # "none" /\ f THEN MaxDelay - a
    ELSE IF d > 0 THEN d - 1 + 2 * MaxDelay
    ELSE IF c = "none" THEN MaxDelay
    ELSE 2 * MaxDelay - a

Left(r) == LeftOf(call[r], final[r], age[r], deadline[r])

Leads(r) == phase[r] = "renew"

\* A leader has the record; whoever else has seen it waits longer than the
\* leader may lead, has not found it expired, and cannot write it.
Outwaits(r, q) ==
    /\ seen[q] => expiry[q] > Left(r)
    /\ seen[q] /\ call[q] = "sent" => ~late[q]
    /\ call[q] = "read" => ~fresh[q]

Kept == \A r \in Replicas : Leads(r) =>
            lock = r /\ \A q \in Replicas \ {r} : Outwaits(r, q)

ElectionInv == ElectionTypeOK /\ Kept

USE NobodyAssumption, DurationsAssumption, FaultsAssumption

LEMMA LeftBounds ==
    ASSUME NEW c, NEW f, NEW a \in 0..MaxDelay, NEW d \in 0..RenewDeadline
    PROVE  LeftOf(c, f, a, d) \in Nat /\ LeftOf(c, f, a, d) < LeaseDuration
<1>1. /\ MaxDelay - a \in Nat /\ MaxDelay - a < LeaseDuration
      /\ 2 * MaxDelay - a \in Nat /\ 2 * MaxDelay - a < LeaseDuration
      /\ MaxDelay \in Nat /\ MaxDelay < LeaseDuration
  OBVIOUS
<1>2. d > 0 => d - 1 + 2 * MaxDelay \in Nat /\ d - 1 + 2 * MaxDelay < LeaseDuration
  OBVIOUS
<1> QED BY <1>1, <1>2 DEF LeftOf

\* A call that begins or fails leaves no more time, a Tick takes one away.
LEMMA LeftShrinks ==
    ASSUME NEW c \in {"sent", "read"}, NEW f \in BOOLEAN,
           NEW a \in 0..MaxDelay, NEW d \in 0..RenewDeadline
    PROVE  /\ LeftOf("sent", d = 0, 0, d) <= LeftOf("none", f, a, d)
           /\ ~f => LeftOf("none", f, a, d) <= LeftOf(c, f, a, d)
           /\ a < MaxDelay =>
                LeftOf(c, f, a + 1, IF d = 0 THEN 0 ELSE d - 1) < LeftOf(c, f, a, d)
           /\ d > 0 => LeftOf("none", f, a, d - 1) < LeftOf("none", f, a, d)
<1>1. MaxDelay \in Nat \ {0} /\ MaxDelay <= 2 * MaxDelay - a /\ 2 * MaxDelay \in Nat
  OBVIOUS
<1>2. CASE d = 0 BY <1>1, <1>2 DEF LeftOf
<1>3. CASE d = 1 BY <1>1, <1>3 DEF LeftOf
<1>4. CASE d > 1 BY <1>1, <1>4 DEF LeftOf
<1> QED BY <1>2, <1>3, <1>4

LEMMA ElectionInvInit == ElectionInit => ElectionInv
<1> SUFFICES ASSUME ElectionInit PROVE ElectionInv OBVIOUS
<1>1. ElectionTypeOK BY DEF ElectionInit, ElectionTypeOK
<1>2. Kept BY DEF ElectionInit, Kept, Leads
<1> QED BY <1>1, <1>2 DEF ElectionInv

LEMMA KeptByStartTry ==
    ASSUME ElectionInv, NEW s \in Replicas, StartTry(s) PROVE ElectionInv'
<1>1. ElectionTypeOK' BY DEF ElectionInv, ElectionTypeOK, StartTry, tries, timers
<1>2. ASSUME NEW r \in Replicas, NEW q \in Replicas \ {r}, Leads(r), Outwaits(r, q)
      PROVE  Outwaits(r, q)'
  <2>1. Left(r)' <= Left(r)
    <3>1. CASE r = s
      <4>1. call[r] = "none" /\ call'[r] = "sent" /\ age'[r] = 0 /\ final'[r] = (deadline[r] = 0) /\ deadline'[r] = deadline[r]
        BY <1>2, <3>1 DEF ElectionInv, ElectionTypeOK, StartTry, tries, timers, Leads
      <4> QED BY <4>1, LeftShrinks DEF Left, ElectionInv, ElectionTypeOK
    <3>2. CASE r # s
      <4>1. Left(r)' = Left(r) BY <3>2 DEF Left, StartTry, timers, ElectionInv, ElectionTypeOK
      <4> QED BY <4>1, LeftBounds DEF Left, ElectionInv, ElectionTypeOK
    <3> QED BY <3>1, <3>2
  <2>2. Left(r) \in Nat /\ Left(r)' \in Nat BY <1>1, LeftBounds DEF ElectionInv, ElectionTypeOK, Left
  <2>3. seen'[q] => expiry'[q] > Left(r)'
    <3>1. expiry[q] \in Nat BY DEF ElectionInv, ElectionTypeOK
    <3>2. seen[q] => expiry[q] > Left(r) BY <1>2 DEF Outwaits
    <3> QED BY <3>1, <3>2, <2>1, <2>2 DEF StartTry, timers
  <2>4. seen'[q] /\ call'[q] = "sent" => ~late'[q]
    <3>1. CASE q = s
      <4>1. seen[q] => expiry[q] # 0
        BY <2>2, <1>2 DEF ElectionInv, ElectionTypeOK, Outwaits
      <4> QED BY <4>1, <3>1 DEF ElectionInv, ElectionTypeOK, StartTry
    <3>2. CASE q # s
      BY <3>2, <1>2 DEF ElectionInv, ElectionTypeOK, StartTry, timers, Outwaits
    <3> QED BY <3>1, <3>2
  <2>5. call'[q] = "read" => ~fresh'[q]
    BY <1>2 DEF ElectionInv, ElectionTypeOK, StartTry, Outwaits
  <2> QED BY <2>3, <2>4, <2>5 DEF Outwaits
<1> QED BY <1>1, <1>2 DEF ElectionInv, Kept, StartTry, Leads

\* Reading: who has not seen the record waits for it from now on, and a record
\* that the replica waits for is not taken.
LEMMA KeptByReadLock ==
    ASSUME ElectionInv, NEW s \in Replicas, ReadLock(s) PROVE ElectionInv'
<1>1. ElectionTypeOK'
  <2>1. seen' \in [Replicas -> BOOLEAN] BY DEF ElectionInv, ElectionTypeOK, ReadLock
  <2>2. expiry' \in [Replicas -> 0..LeaseDuration]
    <3>1. (IF seen[s] \/ lock = Nobody THEN expiry[s] ELSE LeaseDuration) \in 0..LeaseDuration
      BY DEF ElectionInv, ElectionTypeOK
    <3> QED BY <3>1 DEF ElectionInv, ElectionTypeOK, ReadLock
  <2>3. /\ phase' \in [Replicas -> {"acquire", "renew", "stopped"}]
        /\ election' \in [Replicas -> BOOLEAN]
        /\ call' \in [Replicas -> {"none", "sent", "read"}]
        /\ fresh' \in [Replicas -> BOOLEAN]
    <3>1. CASE MayTake(s) BY <3>1 DEF ElectionInv, ElectionTypeOK, ReadLock
    <3>2. CASE ~MayTake(s) BY <3>2 DEF ElectionInv, ElectionTypeOK, ReadLock, Fail
    <3> QED BY <3>1, <3>2
  <2> QED BY <2>1, <2>2, <2>3 DEF ElectionInv, ElectionTypeOK, ReadLock
<1>2. ASSUME NEW r \in Replicas, Leads(r)' PROVE Leads(r) /\ lock' = lock /\ Left(r)' <= Left(r)
  <2>1. Leads(r) /\ lock' = lock
    <3>1. phase'[r] = phase[r] \/ phase'[r] = "stopped" BY DEF ElectionInv, ElectionTypeOK, ReadLock, Fail
    <3> QED BY <3>1, <1>2 DEF ReadLock, Leads
  <2>2. /\ age'[r] = age[r] /\ final'[r] = final[r] /\ deadline'[r] = deadline[r]
        /\ age[r] \in 0..MaxDelay /\ deadline[r] \in 0..RenewDeadline /\ final[r] \in BOOLEAN
    BY DEF ElectionInv, ElectionTypeOK, ReadLock
  <2>3. CASE call'[r] = call[r]
    <3>1. Left(r)' = Left(r) BY <2>2, <2>3 DEF Left
    <3>2. Left(r) \in Nat BY <2>2, LeftBounds DEF Left
    <3> QED BY <3>1, <3>2, <2>1
  <2>4. CASE call'[r] # call[r]
    <3>1. r = s /\ call[r] = "sent" BY <2>4 DEF ElectionInv, ElectionTypeOK, ReadLock, Fail
    <3>2. MayTake(s) BY <3>1, <2>1 DEF ElectionInv, Kept, MayTake
    <3>3. call'[r] = "read" BY <3>1, <3>2 DEF ElectionInv, ElectionTypeOK, ReadLock
    <3>4. Left(r)' = Left(r) BY <3>1, <3>3, <2>2 DEF Left, LeftOf
    <3>5. Left(r) \in Nat BY <2>2, LeftBounds DEF Left
    <3> QED BY <3>4, <3>5, <2>1
  <2> QED BY <2>1, <2>3, <2>4
<1>3. ASSUME NEW r \in Replicas, NEW q \in Replicas \ {r}, Leads(r)', Leads(r), lock = r, Outwaits(r, q)
      PROVE  Outwaits(r, q)'
  <2>1. Left(r) \in Nat /\ Left(r)' \in Nat /\ Left(r)' < LeaseDuration /\ Left(r)' <= Left(r)
    BY <1>1, <1>2, <1>3, LeftBounds DEF ElectionInv, ElectionTypeOK, Left
  <2>2. expiry[q] \in Nat BY DEF ElectionInv, ElectionTypeOK
  <2>3. CASE q # s
    <3>1. /\ expiry'[q] = expiry[q] /\ seen'[q] = seen[q] /\ late'[q] = late[q]
          /\ call'[q] = call[q] /\ fresh'[q] = fresh[q]
      BY <2>3 DEF ElectionInv, ElectionTypeOK, ReadLock, Fail
    <3> QED BY <3>1, <2>1, <2>2, <1>3 DEF Outwaits
  <2>4. CASE q = s
    <3>1. ~MayTake(s) BY <2>4, <1>3 DEF MayTake, Outwaits, ReadLock
    <3>2. call'[q] = "none" BY <3>1, <2>4 DEF ReadLock, Fail, ElectionInv, ElectionTypeOK
    <3>3. expiry'[q] = IF seen[q] THEN expiry[q] ELSE LeaseDuration
      BY <2>4, <1>3 DEF ReadLock, ElectionInv, ElectionTypeOK
    <3> QED BY <3>2, <3>3, <2>1, <2>2, <1>3 DEF Outwaits
  <2> QED BY <2>3, <2>4
<1> QED BY <1>1, <1>2, <1>3 DEF ElectionInv, Kept

\* A call that fails leaves the record and everybody's timers alone.
LEMMA KeptByFail ==
    ASSUME ElectionInv, NEW s \in Replicas, call[s] # "none", Fail(s), ElectionTypeOK',
           UNCHANGED <<lock, age, late, final, fresh, seen, timers>>
    PROVE  ElectionInv'
<1>1. ASSUME NEW r \in Replicas, Leads(r)' PROVE Leads(r) /\ Left(r)' <= Left(r)
  <2>1. Leads(r) BY <1>1 DEF ElectionInv, ElectionTypeOK, Fail, Leads
  <2>2. age[r] \in 0..MaxDelay /\ deadline[r] \in 0..RenewDeadline /\ final[r] \in BOOLEAN
    BY DEF ElectionInv, ElectionTypeOK
  <2>3. CASE r # s
    <3>1. call'[r] = call[r] BY <2>3 DEF Fail, ElectionInv, ElectionTypeOK
    <3> QED BY <3>1, <2>1, <2>2, LeftBounds DEF Left, timers
  <2>4. CASE r = s
    <3>1. ~final[r] /\ call[r] \in {"sent", "read"} /\ call'[r] = "none"
      BY <2>4, <2>1, <1>1 DEF Fail, ElectionInv, ElectionTypeOK, Leads
    <3> QED BY <3>1, <2>1, <2>2, LeftShrinks DEF Left, timers
  <2> QED BY <2>3, <2>4
<1>2. ASSUME NEW r \in Replicas, NEW q \in Replicas \ {r}, Leads(r)', Leads(r), Outwaits(r, q)
      PROVE  Outwaits(r, q)'
  <2>1. Left(r) \in Nat /\ Left(r)' \in Nat /\ Left(r)' <= Left(r) /\ expiry[q] \in Nat
    BY <1>1, <1>2, LeftBounds DEF ElectionInv, ElectionTypeOK, Left
  <2>2. call'[q] = call[q] \/ call'[q] = "none" BY DEF Fail, ElectionInv, ElectionTypeOK
  <2>3. seen[q] => expiry[q] > Left(r)' BY <2>1, <1>2 DEF Outwaits
  <2> QED BY <2>2, <2>3, <1>2 DEF Outwaits, timers
<1> QED BY <1>1, <1>2 DEF ElectionInv, Kept

LEMMA KeptByLoss ==
    ASSUME ElectionInv, NEW s \in Replicas, Conflict(s) \/ LoseCall(s) PROVE ElectionInv'
<1>1. Fail(s) /\ UNCHANGED <<lock, age, late, final, fresh, seen, timers, ticking>>
  BY DEF Conflict, LoseCall
<1>2. ElectionTypeOK'
  <2>1. faults' \in Nat BY DEF ElectionInv, ElectionTypeOK, Conflict, LoseCall
  <2>2. phase' \in [Replicas -> {"acquire", "renew", "stopped"}] /\ election' \in [Replicas -> BOOLEAN]
    BY <1>1 DEF ElectionInv, ElectionTypeOK, Fail
  <2> QED BY <1>1, <2>1, <2>2 DEF ElectionInv, ElectionTypeOK, Fail, timers
<1> QED BY <1>1, <1>2, KeptByFail DEF Conflict, LoseCall

\* While a replica leads nobody else can write.
LEMMA WriterAlone ==
    ASSUME ElectionInv, NEW s \in Replicas, Write(s), NEW r \in Replicas, Leads(r)
    PROVE  r = s
BY DEF ElectionInv, Kept, Outwaits, Write

\* Nobody has seen what was just written.
LEMMA KeptByWrite ==
    ASSUME ElectionInv, NEW s \in Replicas, WriteLock(s) \/ LoseAnswer(s) PROVE ElectionInv'
<1>1. ElectionTypeOK'
  <2>1. CASE WriteLock(s) BY <2>1 DEF ElectionInv, ElectionTypeOK, WriteLock, Write
  <2>2. CASE LoseAnswer(s) BY <2>2 DEF ElectionInv, ElectionTypeOK, LoseAnswer, Write, Fail, timers
  <2> QED BY <2>1, <2>2
<1>2. Write(s) BY DEF WriteLock, LoseAnswer
<1>3. ASSUME NEW r \in Replicas, Leads(r)' PROVE r = s
  <2>1. Leads(r) \/ r = s
    BY <1>3 DEF WriteLock, LoseAnswer, Fail, Leads, ElectionInv, ElectionTypeOK
  <2> QED BY <2>1, <1>2, WriterAlone
<1>4. lock' = s /\ \A q \in Replicas \ {s} : ~seen'[q] /\ ~fresh'[q]
  BY DEF WriteLock, LoseAnswer, Write
<1> QED BY <1>1, <1>3, <1>4 DEF ElectionInv, Kept, Outwaits

LEMMA KeptByRestart ==
    ASSUME ElectionInv, NEW s \in Replicas, Restart(s) PROVE ElectionInv'
<1>1. ElectionTypeOK' BY DEF ElectionInv, ElectionTypeOK, Restart
<1>2. ASSUME NEW r \in Replicas, Leads(r)' PROVE r # s /\ Leads(r) /\ Left(r)' = Left(r)
  BY <1>2 DEF ElectionInv, ElectionTypeOK, Restart, Leads, Left
<1>3. ASSUME NEW r \in Replicas, NEW q \in Replicas \ {r}, r # s, Left(r)' = Left(r), Outwaits(r, q)
      PROVE  Outwaits(r, q)'
  BY <1>3 DEF ElectionInv, ElectionTypeOK, Restart, Outwaits
<1> QED BY <1>1, <1>2, <1>3 DEF ElectionInv, Kept, Restart

LEMMA KeptBySetElection ==
    ASSUME ElectionInv, NEW s \in Replicas, SetElection(s) PROVE ElectionInv'
BY DEF ElectionInv, ElectionTypeOK, SetElection, tries, timers, Kept, Leads, Outwaits, Left

\* Time takes as much from the leader as from those who wait.
LEMMA KeptByTick == ASSUME ElectionInv, Tick PROVE ElectionInv'
<1>1. ElectionTypeOK' BY DEF ElectionInv, ElectionTypeOK, Tick, CountDown, MayPass
<1>2. ASSUME NEW r \in Replicas, Leads(r) PROVE Left(r)' < Left(r)
  <2>1. /\ age[r] \in 0..MaxDelay /\ deadline[r] \in 0..RenewDeadline /\ final[r] \in BOOLEAN
        /\ call[r] \in {"none", "sent", "read"} /\ MayPass(r)
        /\ call'[r] = call[r] /\ final'[r] = final[r]
        /\ age'[r] = IF call[r] = "none" THEN age[r] ELSE age[r] + 1
        /\ deadline'[r] = IF deadline[r] = 0 THEN 0 ELSE deadline[r] - 1
    BY DEF ElectionInv, ElectionTypeOK, Tick, CountDown
  <2>2. CASE call[r] = "none"
    <3>1. deadline[r] > 0 BY <2>1, <2>2, <1>2 DEF MayPass, Leads
    <3> QED BY <3>1, <2>1, <2>2, LeftShrinks DEF Left
  <2>3. CASE call[r] # "none"
    <3>1. age[r] < MaxDelay BY <2>1, <2>3 DEF MayPass
    <3> QED BY <3>1, <2>1, <2>3, LeftShrinks DEF Left
  <2> QED BY <2>2, <2>3
<1>3. ASSUME NEW r \in Replicas, NEW q \in Replicas \ {r}, Leads(r), Outwaits(r, q)
      PROVE  Outwaits(r, q)'
  <2>1. Left(r) \in Nat /\ Left(r)' \in Nat /\ Left(r)' < Left(r) /\ expiry[q] \in Nat
    BY <1>1, <1>2, <1>3, LeftBounds DEF ElectionInv, ElectionTypeOK, Left
  <2>2. expiry'[q] = IF expiry[q] = 0 THEN 0 ELSE expiry[q] - 1 BY DEF Tick, CountDown
  <2> QED BY <2>1, <2>2, <1>3 DEF Outwaits, Tick
<1> QED BY <1>1, <1>3 DEF ElectionInv, Kept, Tick, Leads

LEMMA ElectionInvNext == ElectionInv /\ [ElectionNext]_electionVars => ElectionInv'
<1> SUFFICES ASSUME ElectionInv, [ElectionNext]_electionVars PROVE ElectionInv' OBVIOUS
<1>1. CASE \E r \in Replicas :
            Replica(r) \/ SetElection(r) \/ LoseCall(r) \/ LoseAnswer(r) \/ Restart(r)
  BY <1>1, KeptByStartTry, KeptByReadLock, KeptByLoss, KeptByWrite, KeptBySetElection, KeptByRestart
     DEF Replica
<1>2. CASE Tick BY <1>2, KeptByTick
<1>3. CASE UNCHANGED electionVars
  BY <1>3 DEF ElectionInv, ElectionTypeOK, electionVars, tries, timers, Kept, Leads, Outwaits, Left
<1> QED BY <1>1, <1>2, <1>3 DEF ElectionNext

\* The variables keep their types; the timers stay within the durations.
THEOREM ElectionTypes == ElectionSpec => []ElectionTypeOK
<1>1. ElectionInv => ElectionTypeOK BY DEF ElectionInv
<1> QED BY <1>1, ElectionInvInit, ElectionInvNext, PTL DEF ElectionSpec

\* leaderelection.go:170-275: for any number of replicas, whatever is lost and
\* whenever they restart, at most one of them believes that it leads.
THEOREM AtMostOneLeader == ElectionSpec => []OneLeader
<1>1. ElectionInv => OneLeader BY DEF ElectionInv, Kept, OneLeader, Leads
<1> QED BY <1>1, ElectionInvInit, ElectionInvNext, PTL DEF ElectionSpec
==============================================================================
