--------------------------- MODULE LeaderElection ---------------------------
(***************************************************************************)
(* The replicas of the controller compete for a lease                      *)
(* (controller.go:266-311 over client-go's tools/leaderelection).  The     *)
(* lease is one record at the API server, written only over the version    *)
(* that was read.  A candidate times a record from when it first sees it,  *)
(* on its own clock, and takes it over when it has not changed for         *)
(* LeaseDuration.  The leader gives up when no renewal succeeded for       *)
(* RenewDeadline.                                                          *)
(*                                                                         *)
(* Time passes in Ticks, the same for all replicas.  A timer counts down   *)
(* to 0; a renewal gets a new version of the record, so it is enough to    *)
(* know who has seen the current one.  RetryPeriod is left out: a try may  *)
(* start at any moment.                                                    *)
(***************************************************************************)
EXTENDS Naturals

CONSTANTS Replicas,
          Nobody,           \* the lease does not exist yet
          LeaseDuration, RenewDeadline,
          MaxDelay,         \* longest time of one tryAcquireOrRenew
          MaxFaults         \* bound: lost calls and restarts in a run

ASSUME NobodyAssumption == Nobody \notin Replicas

\* NewLeaderElector wants LeaseDuration > RenewDeadline; the rest of the
\* margin is what two calls may take.
ASSUME DurationsAssumption ==
    /\ LeaseDuration \in Nat /\ RenewDeadline \in Nat \ {0} /\ MaxDelay \in Nat \ {0}
    /\ LeaseDuration >= RenewDeadline + 2 * MaxDelay

ASSUME FaultsAssumption == MaxFaults \in Nat

VARIABLES lock,             \* HolderIdentity of the record
          phase,            \* "acquire", "renew" (leading), "stopped"
          call,             \* the running try: "none", "sent", "read" (after Get)
          age,              \* how long it has been running
          late,             \* its time.Now() was after the observed record's expiry
          final,            \* the Poll's RenewDeadline had passed when it began
          fresh,            \* the version its Get returned is still current
          seen,             \* observedRecord is the current record
          expiry,           \* time until observedTime + LeaseDuration
          deadline,         \* time until RenewDeadline
          ticking,          \* the goroutine of electionRun exists
          election,         \* controller.election
          faults

tries == <<call, age, late, final>>
timers == <<expiry, deadline>>
electionVars == <<lock, phase, tries, fresh, seen, timers, ticking, election, faults>>

ElectionTypeOK ==
    /\ lock \in Replicas \cup {Nobody}
    /\ phase \in [Replicas -> {"acquire", "renew", "stopped"}]
    /\ call \in [Replicas -> {"none", "sent", "read"}]
    /\ age \in [Replicas -> 0..MaxDelay]
    /\ late \in [Replicas -> BOOLEAN]
    /\ final \in [Replicas -> BOOLEAN]
    /\ fresh \in [Replicas -> BOOLEAN]
    /\ seen \in [Replicas -> BOOLEAN]
    /\ expiry \in [Replicas -> 0..LeaseDuration]
    /\ deadline \in [Replicas -> 0..RenewDeadline]
    /\ ticking \in [Replicas -> BOOLEAN]
    /\ election \in [Replicas -> BOOLEAN]
    /\ faults \in Nat

ElectionInit ==
    /\ lock = Nobody
    /\ phase = [r \in Replicas |-> "acquire"]
    /\ call = [r \in Replicas |-> "none"]
    /\ age = [r \in Replicas |-> 0]
    /\ late = [r \in Replicas |-> FALSE]
    /\ final = [r \in Replicas |-> FALSE]
    /\ fresh = [r \in Replicas |-> FALSE]
    /\ seen = [r \in Replicas |-> FALSE]
    /\ expiry = [r \in Replicas |-> 0]
    /\ deadline = [r \in Replicas |-> 0]
    /\ ticking = [r \in Replicas |-> FALSE]
    /\ election = [r \in Replicas |-> FALSE]
    /\ faults = 0
------------------------------------------------------------------------------
\* tryAcquireOrRenew is called by the loops of acquire and renew.
StartTry(r) ==
    /\ phase[r] # "stopped"
    /\ call[r] = "none"
    /\ call' = [call EXCEPT ![r] = "sent"]
    /\ age' = [age EXCEPT ![r] = 0]
    /\ late' = [late EXCEPT ![r] = (expiry[r] = 0)]
    /\ final' = [final EXCEPT ![r] = (phase[r] = "renew" /\ deadline[r] = 0)]
    /\ UNCHANGED <<lock, phase, fresh, seen, timers, ticking, election, faults>>

\* A try that failed.  When renew gives up, Run returns and OnStoppedLeading
\* clears the flag; nothing calls Run again.
Fail(r) ==
    LET stops == phase[r] = "renew" /\ final[r]
    IN  /\ call' = [call EXCEPT ![r] = "none"]
        /\ phase' = IF stops THEN [phase EXCEPT ![r] = "stopped"] ELSE phase
        /\ election' = IF stops THEN [election EXCEPT ![r] = FALSE] ELSE election

\* Mutant of MayTake: the time of an older record counts for a new one.
MayTakeUnseen(r) == lock \in {Nobody, r} \/ late[r]

\* Mutant of MayTake: only a record of one's own is renewed.
MayRenew(r) == lock \in {Nobody, r}

\* There is no record, it is the replica's own, or it was seen before and has expired.
MayTake(r) == lock \in {Nobody, r} \/ (seen[r] /\ late[r])

\* Get returns the record; one that was not seen before is timed from now on.
ReadLock(r) ==
    /\ call[r] = "sent"
    /\ IF MayTake(r)
       THEN /\ call' = [call EXCEPT ![r] = "read"]
            /\ fresh' = [fresh EXCEPT ![r] = TRUE]
            /\ UNCHANGED <<phase, election>>
       ELSE Fail(r) /\ UNCHANGED fresh
    /\ seen' = [seen EXCEPT ![r] = (lock # Nobody)]
    /\ expiry' = [expiry EXCEPT ![r] = IF seen[r] \/ lock = Nobody THEN @ ELSE LeaseDuration]
    /\ UNCHANGED <<lock, age, late, final, deadline, ticking, faults>>

\* Create or Update arrives: the version read must be the current one.
Write(r) ==
    /\ call[r] = "read"
    /\ fresh[r]
    /\ lock' = r
    /\ fresh' = [q \in Replicas |-> FALSE]
    /\ UNCHANGED <<age, late, final>>

\* The first success starts electionRun, every success a new Poll of renew.
WriteLock(r) ==
    /\ Write(r)
    /\ call' = [call EXCEPT ![r] = "none"]
    /\ phase' = [phase EXCEPT ![r] = "renew"]
    /\ seen' = [q \in Replicas |-> q = r]
    /\ expiry' = [expiry EXCEPT ![r] = LeaseDuration]
    /\ deadline' = [deadline EXCEPT ![r] = RenewDeadline]
    /\ ticking' = [ticking EXCEPT ![r] = TRUE]
    /\ UNCHANGED <<election, faults>>

\* Somebody else wrote between Get and Update.
Conflict(r) ==
    /\ call[r] = "read"
    /\ ~fresh[r]
    /\ Fail(r)
    /\ UNCHANGED <<lock, age, late, final, fresh, seen, timers, ticking, faults>>

\* The API server cannot be reached.
LoseCall(r) ==
    /\ faults < MaxFaults
    /\ faults' = faults + 1
    /\ call[r] # "none"
    /\ Fail(r)
    /\ UNCHANGED <<lock, age, late, final, fresh, seen, timers, ticking>>

\* The record is written, but the answer is lost.
LoseAnswer(r) ==
    /\ faults < MaxFaults
    /\ faults' = faults + 1
    /\ Write(r)
    /\ Fail(r)
    /\ seen' = [q \in Replicas |-> FALSE]
    /\ UNCHANGED <<timers, ticking>>

\* electionRun: a ticker sets the flag every second, for ever.
SetElection(r) ==
    /\ ticking[r]
    /\ ~election[r]
    /\ election' = [election EXCEPT ![r] = TRUE]
    /\ UNCHANGED <<lock, phase, tries, fresh, seen, timers, ticking, faults>>

\* The container restarts, under the same hostname.
Restart(r) ==
    /\ faults < MaxFaults
    /\ faults' = faults + 1
    /\ phase' = [phase EXCEPT ![r] = "acquire"]
    /\ call' = [call EXCEPT ![r] = "none"]
    /\ seen' = [seen EXCEPT ![r] = FALSE]
    /\ expiry' = [expiry EXCEPT ![r] = 0]
    /\ deadline' = [deadline EXCEPT ![r] = 0]
    /\ ticking' = [ticking EXCEPT ![r] = FALSE]
    /\ election' = [election EXCEPT ![r] = FALSE]
    /\ UNCHANGED <<lock, age, late, final, fresh>>

\* Mutant of MayPass: a Poll whose deadline has passed goes on waiting.
CallsEnd(r) == call[r] # "none" => age[r] < MaxDelay

\* A try ends within MaxDelay; Poll makes its last try when the deadline passes.
MayPass(r) ==
    /\ call[r] # "none" => age[r] < MaxDelay
    /\ ~(phase[r] = "renew" /\ call[r] = "none" /\ deadline[r] = 0)

\* Mutant of CountDown: the timer goes on to run at 0.
CountOn(t) == [r \in Replicas |-> IF t[r] = 0 THEN LeaseDuration + 1 ELSE t[r] - 1]

CountDown(t) == [r \in Replicas |-> IF t[r] = 0 THEN 0 ELSE t[r] - 1]

Tick ==
    /\ \A r \in Replicas : MayPass(r)
    /\ age' = [r \in Replicas |-> IF call[r] = "none" THEN age[r] ELSE age[r] + 1]
    /\ expiry' = CountDown(expiry)
    /\ deadline' = CountDown(deadline)
    /\ UNCHANGED <<lock, phase, call, late, final, fresh, seen, ticking, election, faults>>

Replica(r) == StartTry(r) \/ ReadLock(r) \/ WriteLock(r) \/ Conflict(r)

ElectionNext ==
    \/ \E r \in Replicas :
        Replica(r) \/ SetElection(r) \/ LoseCall(r) \/ LoseAnswer(r) \/ Restart(r)
    \/ Tick

\* The loops, the tickers and time go on; faults need not happen.
ElectionSpec ==
    /\ ElectionInit /\ [][ElectionNext]_electionVars
    /\ WF_electionVars(Tick)
    /\ \A r \in Replicas : WF_electionVars(Replica(r)) /\ WF_electionVars(SetElection(r))
------------------------------------------------------------------------------
\* leaderelection.go:170-275: nobody takes the lease while the replica that
\* had it still believes it leads, whatever calls and answers are lost.
OneLeader == \A r, q \in Replicas : phase[r] = "renew" /\ phase[q] = "renew" => r = q

\* controller.go:639 needs somebody to write the statuses: from some point on
\* a leader does, unless every replica has once lost the lease and left.
SomebodyWrites ==
    \/ <>[](\E r \in Replicas : phase[r] = "renew" /\ election[r])
    \/ <>[](\A r \in Replicas : phase[r] = "stopped")

\* controller.go:292-294, OnStoppedLeading clears the flag and reports "lost
\* master" when the elector "stops leading" (leaderelection.go:113): a replica
\* that gave up the lease does not write statuses any more.
StoppedIsSilent == \A r \in Replicas : phase[r] = "stopped" => ~election[r]
==============================================================================
