--------------------------- MODULE ManagedRuntime ---------------------------
(***************************************************************************)
(* Framework::run and drive_shards                                         *)
(* (crates/gloam-commands/src/framework.rs, registration.rs).               *)
(*                                                                         *)
(* One loop consumes the event stream of all shards: it reaps the tasks     *)
(* that ended, synchronizes the registry at the first READY, routes the     *)
(* event and spawns what it resolves to into a JoinSet.  Any error ends the *)
(* loop, dropping the JoinSet (which aborts its tasks) before the shards    *)
(* are shut down.  The future of run may be dropped at any await, and run   *)
(* may be called again on the same Framework: the permits are the           *)
(* Framework's and outlive a run, everything else is made anew.             *)
(* A task is here no more than a slot and how it ended; Execution has its    *)
(* inside.  The shards and Discord are external.                            *)
(***************************************************************************)
EXTENDS Integers, Sequences, FiniteSets

CONSTANTS Shards,      \* shards of the recommended set
          Tasks,       \* names for the tasks of the JoinSet, reused; Slots + 1 are enough
          Slots,       \* max_concurrent_commands
          MaxEvents,   \* bound on the events the shards of a run deliver
          MaxRuns      \* bound on the calls of run, one after the other

ASSUME ManagedRuntimeAssumption ==
  /\ IsFiniteSet(Tasks)
  /\ Slots \in Nat \ {0}
  /\ MaxEvents \in Nat
  /\ MaxRuns \in Nat \ {0}

VARIABLES registers,     \* Registration is Global or Guild
          connected,     \* external: shards that have had a READY
          delivered,     \* external: number of events delivered so far
          stream,        \* events waiting in the shard manager's channel
          closed,        \* every shard has ended; the stream ends when empty
          pc,            \* where the loop is
          current,       \* the event it is processing
          synchronized,  \* the loop's local flag
          syncs,         \* history: bulk overwrites sent
          task,          \* what the task of each name does, "unused" when there is none
          free,          \* available permits of Framework.command_slots
          runs,          \* calls of run so far
          result         \* what run will return

gateway == <<connected, delivered, stream, closed>>
loop == <<pc, current, synchronized, syncs, runs, result>>
work == <<task, free>>
vars == <<registers, gateway, loop, work>>

\* "COMMAND" is an interaction with something to execute, "BROKEN" one that
\* prepare_dispatch or try_execute fails on, "OTHER" any event that is ignored or
\* unregistered, "FAULT" an Err item of the stream.
Kinds == {"READY", "COMMAND", "BROKEN", "OTHER", "FAULT"}
Fresh == {t \in Tasks : task[t] = "unused"}
Owners == {t \in Tasks : task[t] \in {"running", "aborting"}}

TypeOK ==
  /\ registers \in BOOLEAN
  /\ connected \subseteq Shards
  /\ delivered \in 0..MaxEvents
  /\ stream \in Seq(Kinds)
  /\ closed \in BOOLEAN
  /\ pc \in {"polling", "received", "reaped", "synchronizing", "routing", "draining",
             "leaving", "stopping", "stopped"}
  /\ current \in Kinds
  /\ synchronized \in BOOLEAN
  /\ syncs \in Nat
  /\ task \in [Tasks -> {"unused", "running", "ended", "panicked", "aborting"}]
  /\ free \in 0..Slots
  /\ runs \in 1..MaxRuns
  /\ result \in {"none", "Ok", "Error", "Cancelled"}

Init ==
  /\ registers \in BOOLEAN
  /\ connected = {}
  /\ delivered = 0
  /\ stream = <<>>
  /\ closed = FALSE
  /\ pc = "polling"
  /\ current = "OTHER"
  /\ synchronized = ~registers
  /\ syncs = 0
  /\ task = [t \in Tasks |-> "unused"]
  /\ free = Slots
  /\ runs = 1
  /\ result = "none"

-----------------------------------------------------------------------------
(* The gateway (external).  A shard's first dispatch is READY; it may be       *)
(* READY again after it identifies anew.                                      *)

Deliver(s, kind) ==
  /\ ~closed
  /\ delivered < MaxEvents
  /\ kind \in {"COMMAND", "BROKEN"} => s \in connected
  /\ connected' = IF kind = "READY" THEN connected \cup {s} ELSE connected
  /\ delivered' = delivered + 1
  /\ stream' = Append(stream, kind)
  /\ UNCHANGED <<registers, closed, loop, work>>

ShardsEnd ==
  /\ ~closed
  /\ closed' = TRUE
  /\ UNCHANGED <<registers, connected, delivered, stream, loop, work>>

-----------------------------------------------------------------------------
(* The loop.                                                               *)

GoTo(place) == pc' = place

\* Mutant: the JoinSet is leaked (detach_all) instead of dropped.
LeakJoinSet == UNCHANGED task

\* Dropping the JoinSet requests the abort of what runs and forgets the rest.
DropJoinSet ==
  task' = [t \in Tasks |->
             CASE task[t] = "running" -> "aborting"
               [] task[t] \in {"ended", "panicked"} -> "unused"
               [] OTHER -> task[t]]

\* drive_shards returns an error.
Fail ==
  /\ GoTo("stopping")
  /\ result' = "Error"
  /\ DropJoinSet

NextEvent ==
  /\ pc = "polling"
  /\ \/ /\ stream # <<>>
        /\ current' = Head(stream)
        /\ stream' = Tail(stream)
        /\ GoTo("received")
     \/ /\ stream = <<>> /\ closed
        /\ GoTo("draining")
        /\ UNCHANGED <<current, stream>>
  /\ UNCHANGED <<registers, runs, connected, delivered, closed, synchronized, syncs, result, work>>

\* Mutant: a JoinError is ignored like an ordinary command error.
ReapIgnoringPanics ==
  /\ pc \in {"received", "draining"}
  /\ task' = [t \in Tasks |-> IF task[t] \in {"ended", "panicked"} THEN "unused" ELSE task[t]]
  /\ GoTo(IF pc = "received" THEN "reaped" ELSE "leaving")
  /\ UNCHANGED <<registers, runs, gateway, current, synchronized, syncs, free, result>>

\* reap_completed_commands: a panicked task is an error of the loop, an ordinary
\* command error is not.
Reap ==
  /\ pc \in {"received", "draining"}
  /\ \/ /\ \E t \in Tasks : task[t] = "panicked"
        /\ Fail
     \/ /\ \A t \in Tasks : task[t] # "panicked"
        /\ task' = [t \in Tasks |-> IF task[t] = "ended" THEN "unused" ELSE task[t]]
        /\ GoTo(IF pc = "received" THEN "reaped" ELSE "leaving")
        /\ UNCHANGED result
  /\ UNCHANGED <<registers, runs, gateway, current, synchronized, syncs, free>>

\* `event?`, then the first READY of a registering framework.  Its payload may
\* not parse.
Inspect ==
  /\ pc = "reaped"
  /\ \/ current = "FAULT" /\ Fail /\ UNCHANGED syncs
     \/ /\ current = "READY" /\ ~synchronized
        /\ \/ GoTo("synchronizing") /\ syncs' = syncs + 1 /\ UNCHANGED <<result, task>>
           \/ Fail /\ UNCHANGED syncs
     \/ /\ current # "FAULT"
        /\ current = "READY" => synchronized
        /\ GoTo("routing")
        /\ UNCHANGED <<syncs, result, task>>
  /\ UNCHANGED <<registers, runs, gateway, current, synchronized, free>>

\* Mutant: the flag is not set.
SynchronizeAgain ==
  /\ pc = "synchronizing"
  /\ \/ GoTo("routing") /\ UNCHANGED <<result, task>>
     \/ Fail
  /\ UNCHANGED <<registers, runs, gateway, current, synchronized, syncs, free>>

\* The bulk overwrite returns.
Synchronize ==
  /\ pc = "synchronizing"
  /\ \/ GoTo("routing") /\ synchronized' = TRUE /\ UNCHANGED <<result, task>>
     \/ Fail /\ UNCHANGED synchronized
  /\ UNCHANGED <<registers, runs, gateway, current, syncs, free>>

\* Mutant: the loop awaits a slot, as Semaphore::acquire_owned would.
DropWhenFullNever == FALSE

\* try_execute returned None: the interaction is dropped without a word.
DropWhenFull == free = 0 /\ UNCHANGED work

\* Mutant: the future does not capture its permit.
SpawnUncaptured ==
  /\ free > 0
  /\ UNCHANGED free
  /\ \E t \in Fresh : task' = [task EXCEPT ![t] = "running"]

SpawnCommand ==
  /\ free > 0
  /\ free' = free - 1
  /\ \E t \in Fresh : task' = [task EXCEPT ![t] = "running"]

\* prepare_dispatch and what follows it.
Route ==
  /\ pc = "routing"
  /\ \/ current = "COMMAND" /\ GoTo("polling") /\ UNCHANGED result
        /\ (SpawnCommand \/ DropWhenFull)
     \/ current = "BROKEN" /\ Fail /\ UNCHANGED free
     \/ current \in {"READY", "OTHER"} /\ GoTo("polling") /\ UNCHANGED <<work, result>>
  /\ UNCHANGED <<registers, runs, gateway, current, synchronized, syncs>>

\* The loop returns Ok(()) at the end of the stream; its JoinSet goes with it.
Return ==
  /\ pc = "leaving"
  /\ GoTo("stopping")
  /\ result' = "Ok"
  /\ DropJoinSet
  /\ UNCHANGED <<registers, runs, gateway, current, synchronized, syncs, free>>

ShutdownResult(ok) == IF result = "Ok" /\ ~ok THEN "Error" ELSE result

Shutdown ==
  /\ pc = "stopping"
  /\ GoTo("stopped")
  /\ closed' = TRUE
  /\ \E ok \in BOOLEAN : result' = ShutdownResult(ok)
  /\ UNCHANGED <<registers, runs, connected, delivered, stream, current, synchronized, syncs, work>>

\* The caller drops the future of run (a timeout, a select) at one of its awaits:
\* next_event, the bulk overwrite or the shutdown of the shards.
Cancel ==
  /\ pc \in {"polling", "synchronizing", "stopping"}
  /\ GoTo("stopped")
  /\ closed' = TRUE
  /\ result' = "Cancelled"
  /\ DropJoinSet
  /\ UNCHANGED <<registers, connected, delivered, stream, current, synchronized, syncs,
                 runs, free>>

\* run is called again: a new client, new shards, a new JoinSet and a new flag;
\* aborted tasks of the last run may still hold their permits.
RunAgain ==
  /\ pc = "stopped"
  /\ runs < MaxRuns
  /\ runs' = runs + 1
  /\ GoTo("polling")
  /\ connected' = {}
  /\ delivered' = 0
  /\ stream' = <<>>
  /\ closed' = FALSE
  /\ current' = "OTHER"
  /\ synchronized' = ~registers
  /\ syncs' = 0
  /\ result' = "none"
  /\ UNCHANGED <<registers, work>>

-----------------------------------------------------------------------------
(* The tasks.                                                              *)

\* Mutant: a permit is returned by the future and again by its owner.
EndTaskTwice(t, how) ==
  /\ task' = [task EXCEPT ![t] = how]
  /\ free' = free + 2
  /\ UNCHANGED <<registers, gateway, loop>>

EndTask(t, how) ==
  /\ task' = [task EXCEPT ![t] = how]
  /\ free' = free + 1
  /\ UNCHANGED <<registers, gateway, loop>>

TaskEnds(t) == task[t] = "running" /\ EndTask(t, "ended")

TaskPanics(t) == task[t] = "running" /\ EndTask(t, "panicked")

\* The abort takes effect at the task's next await, or it ended first.
TaskGoes(t) == task[t] = "aborting" /\ EndTask(t, "unused")

-----------------------------------------------------------------------------

LoopStep ==
  NextEvent \/ Reap \/ Inspect \/ Synchronize \/ Route \/ Return \/ Shutdown

Done ==
  /\ pc = "stopped"
  /\ Owners = {}
  /\ UNCHANGED vars

Next ==
  \/ \E s \in Shards, kind \in Kinds : Deliver(s, kind)
  \/ ShardsEnd
  \/ LoopStep
  \/ Cancel
  \/ RunAgain
  \/ \E t \in Tasks : TaskEnds(t) \/ TaskPanics(t) \/ TaskGoes(t)
  \/ Done

Spec == Init /\ [][Next]_vars

\* The loop's task is polled, REST calls return and aborts take effect.  Handlers
\* may run for ever, and no shard has to deliver anything.
FairSpec ==
  Spec /\ WF_vars(LoopStep) /\ \A t \in Tasks : WF_vars(TaskGoes(t))

-----------------------------------------------------------------------------
(* Safety.                                                                 *)

\* A registering framework overwrites Discord's commands once in a run, and before
\* it runs any; one that does not register never does.  READY comes once per shard, and
\* again whenever a shard identifies anew.
SynchronizedOnceBeforeCommands ==
  /\ syncs <= 1
  /\ registers /\ (\E t \in Tasks : task[t] \in {"running", "ended", "panicked"})
       => syncs = 1 /\ synchronized
  /\ ~registers => syncs = 0

\* The permits out are those of the tasks that run or are being aborted, those a
\* former run left behind included: a framework run again starts with fewer free
\* slots, never with more, and none is lost with a future that never started.
SlotsAccounted == free + Cardinality(Owners) = Slots

\* Once the loop is over, however it ended, every task it spawned has been told to abort:
\* run neither returns nor is dropped with a task left that nobody stops.  Such a task
\* still runs to its next await, with its permit.
NoTaskOutlivesLoop ==
  pc \in {"stopping", "stopped"} => \A t \in Tasks : task[t] \in {"unused", "aborting"}

\* A handler's panic found in the JoinSet ends the run with an error: it is
\* forgotten only by a step that fails, or with the JoinSet of a loop that has
\* already reaped for the last time or whose caller dropped it.
PanicsReported ==
  [][\A t \in Tasks :
       task[t] = "panicked" /\ task'[t] = "unused"
         => result' \in {"Error", "Cancelled"} \/ pc = "leaving"]_vars

-----------------------------------------------------------------------------
(* Liveness.                                                               *)

\* The loop always comes back for the next event although handlers hang and
\* every slot is taken: saturation never stops the gateway from being polled.
KeepsPolling == pc \notin {"polling", "stopped"} ~> pc \in {"polling", "stopped"}

\* After the last run every slot comes back, whichever run's tasks held them.
ShutdownReturnsSlots ==
  pc \in {"stopping", "stopped"} /\ runs = MaxRuns ~> (pc = "stopped" /\ free = Slots)
=============================================================================
