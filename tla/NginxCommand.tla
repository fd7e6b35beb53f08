---------------------------- MODULE NginxCommand ----------------------------
(***************************************************************************)
(* How the worker runs nginx (cmd/nginx.go): it renders a file, starts the *)
(* command, reads the command's stderr through a pipe and looks for the    *)
(* verdict in what it read.                                                *)
(*                                                                         *)
(*   nginx --lines--> pipe --ReadLine--> text --> state of the ingress     *)
(*     | exits                ^                                            *)
(*     +----> go cmd.Wait() --+ closes the read end                        *)
(*                                                                         *)
(* Wait does not wait for the reader: what is in the pipe when it closes   *)
(* the read end is lost, so text has the lines of any beginning of the     *)
(* output.  A daemon that nginx leaves behind may keep the write end open. *)
(*                                                                         *)
(* The worker tests an ingress ("ingress"), then the config maps ("base"), *)
(* writes nginx.conf, and starts or reloads nginx ("run").                 *)
(***************************************************************************)
EXTENDS Sequences

VARIABLES pc,               \* where the worker is
          task,             \* "ingress", "base" or "run"
          input,            \* what it renders: "good" or refused by nginx, "bad"
          test,             \* nginx-test.conf, "cut" if the template failed halfway
          conf,             \* nginx.conf
          out, prog,        \* lines the command has to print; "running", "exited",
                            \* or "closed" with the read end of the pipe
          daemon,           \* a child of the command holds the write end
          pipe,             \* the lines in it
          text, err,        \* what RunCmd returns: lines, and whether an error
          state,            \* Status.State of the ingress
          installed,        \* the ingress in memory
          first             \* extendIngressCfg.Start

fileVars == <<test, conf>>
commandVars == <<out, prog, daemon, pipe>>
memoryVars == <<state, installed, first>>
nginxVars == <<pc, task, input, fileVars, commandVars, text, err, memoryVars>>

Lines == {"warn", "ok", "successful", "emerg", "failed"}
Contents == {"good", "bad", "cut"}

NginxTypeOK ==
    /\ pc \in {"idle", "render", "start", "read", "readAgain", "judge", "write"}
    /\ task \in {"ingress", "base", "run"}
    /\ input \in {"good", "bad"}
    /\ test \in Contents /\ conf \in Contents
    /\ prog \in {"running", "exited", "closed"}
    /\ daemon \in BOOLEAN /\ err \in BOOLEAN /\ first \in BOOLEAN
    /\ out \in Seq(Lines) /\ pipe \subseteq Lines /\ text \subseteq Lines
    /\ state \in {"", "Ready", "unReady"}
    /\ installed \in {"none", "good", "bad"}

NginxInit ==
    /\ pc = "idle" /\ task = "run" /\ input = "good"
    /\ test = "good" /\ conf = "good"
    /\ out = <<>> /\ prog = "closed" /\ daemon = FALSE
    /\ pipe = {}
    /\ text = {} /\ err = FALSE
    /\ state = "" /\ installed = "none" /\ first = TRUE
------------------------------------------------------------------------------
\* Each call of the worker, one after the other; the next item may be anything.
Begin ==
    /\ pc = "idle"
    /\ task' \in {"ingress", "base"}
    /\ input' \in {"good", "bad"}
    /\ pc' = "render"
    /\ text' = {} /\ err' = FALSE
    /\ UNCHANGED <<fileVars, commandVars, memoryVars>>

\* Mutant of Rendered: nothing at all is left.
RenderedOrEmpty(content) == {content, "empty"}

\* What rebuidNginxConf leaves in a file: an error of Execute is only logged.
Rendered(content) == {content, "cut"}

\* rebuidNginxConf of nginx-test.conf.  Without a template it panics (and
\* syncHandler recovers); without a file there is an error and no command.
RenderTest ==
    /\ pc = "render"
    /\ \/ pc' = "idle" /\ UNCHANGED <<test, err>>
       \/ pc' = "judge" /\ err' = TRUE /\ UNCHANGED test
       \/ pc' = "start" /\ test' \in Rendered(input) /\ UNCHANGED err
    /\ UNCHANGED <<task, input, conf, commandVars, text, memoryVars>>

\* What nginx prints: a test ends with its verdict, start and reload with
\* nothing or with what they refuse.  A refusal may quote a directive or a
\* parameter, of which none contains "successful" or "failed".
Output(t, content) ==
    IF t = "run" THEN {<<>>, <<"warn">>, <<"emerg">>}
    ELSE IF content = "good" THEN {<<"ok", "successful">>, <<"warn", "ok", "successful">>}
    ELSE {<<"emerg", "failed">>, <<"warn", "emerg", "failed">>}

\* cmd.Start and go cmd.Wait(); nginx becomes a daemon when it is started.
StartCommand ==
    /\ pc = "start"
    /\ \/ /\ pc' = "judge" /\ err' = TRUE
          /\ UNCHANGED commandVars
       \/ /\ pc' = "read"
          /\ out' \in Output(task, test)
          /\ prog' = "running"
          /\ daemon' \in IF task = "run" /\ first THEN BOOLEAN ELSE {FALSE}
          /\ pipe' = {}
          /\ UNCHANGED err
    /\ UNCHANGED <<task, input, fileVars, text, memoryVars>>

WriteLine ==
    /\ prog = "running" /\ out # <<>>
    /\ out' = Tail(out)
    /\ pipe' = pipe \cup {Head(out)}
    /\ UNCHANGED <<pc, task, input, fileVars, prog, daemon, text, err, memoryVars>>

ExitCommand ==
    /\ prog = "running" /\ out = <<>>
    /\ prog' = "exited"
    /\ UNCHANGED <<pc, task, input, fileVars, out, daemon, pipe, text, err, memoryVars>>

\* The daemon may close its stderr.
LeaveDaemon ==
    /\ daemon
    /\ daemon' = FALSE
    /\ UNCHANGED <<pc, task, input, fileVars, out, prog, pipe, text, err, memoryVars>>

\* Mutant of Wait: the read end is left to the reader.
NeverClosed == FALSE /\ UNCHANGED nginxVars

\* The goroutine of cmd.Wait: the process is gone, the pipe is closed.
Wait ==
    /\ prog = "exited"
    /\ prog' = "closed"
    /\ pipe' = {}
    /\ UNCHANGED <<pc, task, input, fileVars, out, daemon, text, err, memoryVars>>

\* ReadLine fills its buffer with what is in the pipe.
Read ==
    /\ pc = "read"
    /\ pipe # {}
    /\ text' = text \cup pipe
    /\ pipe' = {}
    /\ UNCHANGED <<pc, task, input, fileVars, out, prog, daemon, err, memoryVars>>

\* The pipe is closed, or nobody is left to write to it.  A command that said
\* something returns it as an error; otherwise stderr is read a second time.
Ended == prog = "closed" \/ (pipe = {} /\ prog = "exited" /\ ~daemon)

ReadEnd ==
    /\ pc = "read" /\ Ended
    /\ \/ text = {} /\ pc' = "readAgain" /\ UNCHANGED err
       \/ text # {} /\ pc' = "judge" /\ err' = TRUE
    /\ UNCHANGED <<task, input, fileVars, commandVars, text, memoryVars>>

\* Nothing comes any more; the deferred Close.
ReadAgain ==
    /\ pc = "readAgain" /\ Ended
    /\ pc' = "judge"
    /\ UNCHANGED <<task, input, fileVars, commandVars, text, err, memoryVars>>
------------------------------------------------------------------------------
\* Mutant of Verdict: a test that was not seen to fail was successful.
VerdictUnlessFailed == IF "failed" \in text THEN "unReady" ELSE "Ready"

\* updateExtendIngressStatus
Verdict ==
    IF "failed" \in text THEN "unReady"
    ELSE IF "successful" \in text THEN "Ready"
    ELSE state

\* syncHandler: install what is Ready; otherwise log err.  When RunCmd returned
\* none that panics before the write, of a state that would be the old one.
\* Only the leader writes the state, and the API server may refuse it.
JudgeIngress ==
    /\ pc = "judge" /\ task = "ingress"
    /\ state' \in {state, Verdict}
    /\ installed' = IF Verdict = "Ready" THEN input ELSE installed
    /\ pc' = "idle"
    /\ UNCHANGED <<task, input, fileVars, commandVars, text, err, first>>

\* Mutant of JudgeBase: only contents that were seen to fail are kept out.
WriteUnlessFailed ==
    /\ pc = "judge" /\ task = "base"
    /\ pc' = IF err /\ "failed" \in text THEN "start" ELSE "write"
    /\ task' = IF err /\ "failed" \in text THEN "run" ELSE task
    /\ text' = {} /\ err' = FALSE
    /\ UNCHANGED <<input, fileVars, commandVars, memoryVars>>

\* rebuildNginxConf: an error without "successful" leaves nginx.conf alone.
JudgeBase ==
    /\ pc = "judge" /\ task = "base"
    /\ pc' = IF err /\ "successful" \notin text THEN "start" ELSE "write"
    /\ task' = IF err /\ "successful" \notin text THEN "run" ELSE task
    /\ text' = {} /\ err' = FALSE
    /\ UNCHANGED <<input, fileVars, commandVars, memoryVars>>

\* rebuidNginxConf of nginx.conf, whose error is not looked at.
WriteConf ==
    /\ pc = "write"
    /\ \/ pc' = "idle" /\ UNCHANGED <<task, conf>>
       \/ /\ pc' = "start" /\ task' = "run"
          /\ conf' \in {conf} \cup Rendered(IF "bad" \in {input, installed} THEN "bad" ELSE "good")
    /\ UNCHANGED <<input, test, commandVars, text, err, memoryVars>>

\* startOrReloadNginx only logs; Start is false afterwards.
JudgeRun ==
    /\ pc = "judge" /\ task = "run"
    /\ pc' = "idle"
    /\ first' = FALSE
    /\ UNCHANGED <<task, input, fileVars, commandVars, text, err, state, installed>>

Worker ==
    \/ RenderTest \/ StartCommand \/ Read \/ ReadEnd \/ ReadAgain
    \/ JudgeIngress \/ JudgeBase \/ WriteConf \/ JudgeRun

Command == WriteLine \/ ExitCommand

NginxNext == Begin \/ Worker \/ Command \/ Wait \/ LeaveDaemon

\* Commands end, and the goroutines go on.  The daemon need not close its end.
NginxSpec ==
    /\ NginxInit /\ [][NginxNext]_nginxVars
    /\ WF_nginxVars(Worker) /\ WF_nginxVars(Command) /\ WF_nginxVars(Wait)
------------------------------------------------------------------------------
\* controller.go:550-554: whatever part of the output is lost, the state of an
\* ingress only changes to the verdict nginx gave.
VerdictIsNginxs ==
    [][state' # state => state' = IF test = "good" THEN "Ready" ELSE "unReady"]_nginxVars

\* extendingress.go:88, "check the servers and upstreams parse by ingress is
\* valid": what nginx refuses is not installed, unless it takes the place of a
\* specification that was Ready (the state a lost verdict leaves).
RefusedStaysOut ==
    [][installed' = "bad" /\ installed # "bad" => state = "Ready"]_nginxVars

\* extendingress.go:307-315: config maps that nginx refuses get past the test
\* only when nothing at all of its output was read (RunCmd then returns no
\* error): a part of the output is never taken for success.
OnlySilencePasses ==
    [][pc = "judge" /\ pc' = "write" /\ input = "bad" => text = {}]_nginxVars

\* RunCmd always returns: a daemon that keeps the pipe open cannot hold the
\* worker, and nothing else does.
Returns == pc # "idle" ~> pc = "idle"
==============================================================================
