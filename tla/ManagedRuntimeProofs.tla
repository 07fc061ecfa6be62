------------------------- MODULE ManagedRuntimeProofs -------------------------
(* Theorems about ManagedRuntime, for any number of shards, slots and events   *)
(* and any number of runs.                                                    *)
EXTENDS ManagedRuntime, FiniteSetTheorems, TLAPS

\* The event that will synchronize the registry has reached the loop.
FirstReadyAtHand ==
  \/ pc \in {"received", "reaped"} /\ current = "READY"
  \/ pc = "synchronizing"

\* While a registering loop has not met its first READY, no command can reach it:
\* in the channel every command is behind a READY, and so is whatever a connected
\* shard sends next.
ReadyFirst ==
  registers /\ ~synchronized /\ pc \notin {"stopping", "stopped"} /\ ~FirstReadyAtHand =>
    /\ \A i \in 1..Len(stream) :
         stream[i] = "COMMAND" => \E j \in 1..Len(stream) : j < i /\ stream[j] = "READY"
    /\ connected # {} => \E j \in 1..Len(stream) : stream[j] = "READY"
    /\ pc \in {"received", "reaped", "routing"} => current # "COMMAND"

\* What the loop's flag, its place and the overwrites sent say of each other.
FlagTellsSyncs ==
  /\ syncs \in {0, 1}
  /\ registers /\ synchronized => syncs = 1
  /\ registers /\ ~synchronized /\ syncs = 1 => pc \in {"synchronizing", "stopping", "stopped"}
  /\ pc = "synchronizing" => registers /\ ~synchronized /\ syncs = 1
  /\ ~registers => synchronized /\ syncs = 0
  /\ registers /\ (\E t \in Tasks : task[t] \in {"running", "ended", "panicked"}) => synchronized

RuntimeInv == TypeOK /\ ReadyFirst /\ FlagTellsSyncs /\ SlotsAccounted /\ NoTaskOutlivesLoop
\* Dropping the JoinSet forgets tasks that hold no permit; every other task keeps it.
LEMMA DropKeepsOwners ==
  ASSUME TypeOK, DropJoinSet
  PROVE  /\ task' \in [Tasks -> {"unused", "running", "ended", "panicked", "aborting"}]
         /\ Owners' = Owners
         /\ \A t \in Tasks : task'[t] \in {"unused", "aborting"}
  BY DEF DropJoinSet, TypeOK, Owners

LEMMA OwnersFinite == IsFiniteSet(Owners) /\ Cardinality(Owners) \in Nat
<1>1. IsFiniteSet(Owners)
  BY ManagedRuntimeAssumption, FS_Subset DEF Owners
<1>. QED
  BY <1>1, FS_CardinalityType

\* How the first run and every later one begin.
LEMMA FreshRun ==
  ASSUME Init
  PROVE  /\ registers \in BOOLEAN /\ synchronized \in BOOLEAN
         /\ registers <=> ~synchronized
         /\ connected = {} /\ delivered = 0 /\ stream = <<>> /\ stream \in Seq(Kinds)
         /\ closed = FALSE /\ pc = "polling" /\ current = "OTHER" /\ current \in Kinds
         /\ syncs = 0 /\ free = Slots /\ runs = 1 /\ result = "none"
         /\ task = [t \in Tasks |-> "unused"]
<1>1. current \in Kinds
  BY DEF Init, Kinds
<1>2. stream \in Seq(Kinds)
  BY DEF Init
<1>. QED
  BY <1>1, <1>2, Zenon DEF Init

LEMMA NextRun ==
  ASSUME RunAgain, TypeOK
  PROVE  /\ registers' = registers /\ synchronized' \in BOOLEAN
         /\ registers <=> ~synchronized'
         /\ connected' = {} /\ delivered' = 0 /\ stream' = <<>> /\ stream' \in Seq(Kinds)
         /\ closed' = FALSE /\ pc' = "polling" /\ current' = "OTHER" /\ current' \in Kinds
         /\ syncs' = 0 /\ result' = "none" /\ runs' = runs + 1 /\ runs < MaxRuns
         /\ pc = "stopped" /\ task' = task /\ free' = free
<1>1. current' \in Kinds
  BY DEF RunAgain, Kinds
<1>2. stream' \in Seq(Kinds)
  BY DEF RunAgain
<1>3. registers \in BOOLEAN
  BY DEF TypeOK
<1>. QED
  BY <1>1, <1>2, <1>3, Zenon DEF RunAgain, GoTo, work

LEMMA RunAgainTyped ==
  ASSUME RunAgain, TypeOK
  PROVE  TypeOK'
<1>1. /\ registers' \in BOOLEAN /\ synchronized' \in BOOLEAN
      /\ connected' \subseteq Shards /\ stream' \in Seq(Kinds) /\ closed' \in BOOLEAN
      /\ current' \in Kinds /\ pc' = "polling" /\ result' = "none"
  BY NextRun, Zenon DEF TypeOK
<1>2. delivered' = 0 /\ syncs' = 0 /\ runs' = runs + 1 /\ runs < MaxRuns
  BY NextRun, Zenon
<1>3. task' = task /\ free' = free
  BY NextRun, Zenon
<1>. QED
  BY <1>1, <1>2, <1>3, ManagedRuntimeAssumption DEF TypeOK

LEMMA InitRuntime == Init => RuntimeInv
<1>. SUFFICES ASSUME Init PROVE RuntimeInv
  OBVIOUS
<1>0. TypeOK
  BY FreshRun, ManagedRuntimeAssumption DEF TypeOK
<1>1. ReadyFirst /\ FlagTellsSyncs /\ NoTaskOutlivesLoop
  BY FreshRun DEF ReadyFirst, FlagTellsSyncs, NoTaskOutlivesLoop
<1>2. Owners = {}
  BY DEF Init, Owners
<1>3. SlotsAccounted
  BY <1>2, FS_EmptySet, ManagedRuntimeAssumption DEF Init, SlotsAccounted
<1>. QED
  BY <1>0, <1>1, <1>3 DEF RuntimeInv

\* The permits: a spawn and the end of a task change both sides of the sum, and
\* nothing else touches either.
LEMMA SlotsStep ==
  ASSUME TypeOK, SlotsAccounted, [Next]_vars
  PROVE  SlotsAccounted' /\ free' \in 0..Slots
<1>. USE ManagedRuntimeAssumption, OwnersFinite DEF SlotsAccounted
<1>1. CASE UNCHANGED work \/ (UNCHANGED free /\ Owners' = Owners)
  BY <1>1 DEF work, Owners, TypeOK
<1>2. ASSUME NEW t \in Tasks, task[t] = "unused", free > 0, free' = free - 1,
             task' = [task EXCEPT ![t] = "running"]
      PROVE  SlotsAccounted' /\ free' \in 0..Slots
  <2>1. Owners' = Owners \cup {t} /\ t \notin Owners
    BY <1>2 DEF Owners, TypeOK
  <2>2. Cardinality(Owners') = Cardinality(Owners) + 1
    BY <2>1, FS_AddElement
  <2>. QED
    BY <1>2, <2>2 DEF TypeOK
<1>3. ASSUME NEW t \in Tasks, TaskEnds(t) \/ TaskPanics(t) \/ TaskGoes(t)
      PROVE  SlotsAccounted' /\ free' \in 0..Slots
  <2>1. Owners' = Owners \ {t} /\ t \in Owners
    BY <1>3 DEF TaskEnds, TaskPanics, TaskGoes, EndTask, Owners, TypeOK
  <2>2. Cardinality(Owners') = Cardinality(Owners) - 1
    BY <2>1, FS_RemoveElement
  <2>3. IsFiniteSet(Owners') /\ Cardinality(Owners') \in Nat
    BY <2>1, FS_RemoveElement, FS_CardinalityType
  <2>4. free' = free + 1
    BY <1>3 DEF TaskEnds, TaskPanics, TaskGoes, EndTask
  <2>. QED
    BY <2>2, <2>3, <2>4 DEF TypeOK
<1>4. CASE \E s \in Shards, kind \in Kinds : Deliver(s, kind)
  BY <1>1, <1>4 DEF Deliver
<1>5. CASE ShardsEnd
  BY <1>1, <1>5 DEF ShardsEnd
<1>6. CASE NextEvent
  BY <1>1, <1>6 DEF NextEvent
<1>7. CASE Reap
  <2>1. CASE Fail /\ UNCHANGED free
    BY <1>1, <2>1, DropKeepsOwners DEF Fail
  <2>2. CASE /\ task' = [t \in Tasks |-> IF task[t] = "ended" THEN "unused" ELSE task[t]]
             /\ UNCHANGED free
    BY <1>1, <2>2 DEF Owners, TypeOK
  <2>. QED
    BY <1>7, <2>1, <2>2 DEF Reap
<1>8. CASE Inspect
  BY <1>1, <1>8, DropKeepsOwners DEF Inspect, Fail, work
<1>9. CASE Synchronize
  BY <1>1, <1>9, DropKeepsOwners DEF Synchronize, Fail, work
<1>10. CASE Route
  <2>1. CASE SpawnCommand
    BY <1>2, <2>1 DEF SpawnCommand, Fresh
  <2>2. CASE UNCHANGED work
    BY <1>1, <2>2
  <2>3. CASE Fail /\ UNCHANGED free
    BY <1>1, <2>3, DropKeepsOwners DEF Fail
  <2>. QED
    BY <1>10, <2>1, <2>2, <2>3 DEF Route, DropWhenFull
<1>11. CASE Return
  BY <1>1, <1>11, DropKeepsOwners DEF Return
<1>12. CASE Shutdown
  BY <1>1, <1>12 DEF Shutdown
<1>13. CASE Cancel
  BY <1>1, <1>13, DropKeepsOwners DEF Cancel
<1>14. CASE RunAgain
  BY <1>1, <1>14 DEF RunAgain
<1>15. CASE UNCHANGED vars
  BY <1>1, <1>15 DEF vars
<1>. QED
  BY <1>3, <1>4, <1>5, <1>6, <1>7, <1>8, <1>9, <1>10, <1>11, <1>12, <1>13, <1>14, <1>15
     DEF Next, LoopStep, Done

LEMMA TypeStep ==
  ASSUME TypeOK, SlotsAccounted, [Next]_vars
  PROVE  TypeOK'
<1>0. free' \in 0..Slots
  BY SlotsStep
<1>. USE <1>0, ManagedRuntimeAssumption DEF TypeOK
<1>1. ASSUME NEW s \in Shards, NEW kind \in Kinds, Deliver(s, kind) PROVE TypeOK'
  BY <1>1 DEF Deliver, loop, work
<1>2. CASE ShardsEnd
  BY <1>2 DEF ShardsEnd, loop, work
<1>3. CASE NextEvent
  BY <1>3 DEF NextEvent, GoTo, work
<1>4. CASE Reap
  BY <1>4, DropKeepsOwners DEF Reap, GoTo, Fail, gateway
<1>5. CASE Inspect
  BY <1>5, DropKeepsOwners DEF Inspect, GoTo, Fail, gateway
<1>6. CASE Synchronize
  BY <1>6, DropKeepsOwners DEF Synchronize, GoTo, Fail, gateway
<1>7. CASE Route
  BY <1>7, DropKeepsOwners
     DEF Route, GoTo, Fail, gateway, SpawnCommand, DropWhenFull, Fresh, work
<1>8. CASE Return \/ Cancel
  BY <1>8, DropKeepsOwners DEF Return, Cancel, GoTo, gateway
<1>9. CASE Shutdown
  BY <1>9 DEF Shutdown, ShutdownResult, GoTo, work
<1>10. CASE RunAgain
  BY <1>10, RunAgainTyped
<1>11. ASSUME NEW t \in Tasks, TaskEnds(t) \/ TaskPanics(t) \/ TaskGoes(t) PROVE TypeOK'
  BY <1>11 DEF TaskEnds, TaskPanics, TaskGoes, EndTask, gateway, loop
<1>12. CASE UNCHANGED vars
  BY <1>12 DEF vars, gateway, loop, work
<1>. QED
  BY <1>1, <1>2, <1>3, <1>4, <1>5, <1>6, <1>7, <1>8, <1>9, <1>10, <1>11, <1>12
     DEF Next, LoopStep, Done

\* Every way out of the loop drops the JoinSet, and nothing is spawned after it.
LEMMA LoopEndsAloneStep ==
  ASSUME RuntimeInv, [Next]_vars
  PROVE  NoTaskOutlivesLoop'
<1>. USE DEF RuntimeInv, NoTaskOutlivesLoop
<1>1. CASE \E s \in Shards, kind \in Kinds : Deliver(s, kind)
  BY <1>1 DEF Deliver, loop, work
<1>2. CASE ShardsEnd
  BY <1>2 DEF ShardsEnd, loop, work
<1>3. CASE NextEvent
  BY <1>3 DEF NextEvent, GoTo, work
<1>4. CASE Reap
  BY <1>4, DropKeepsOwners DEF Reap, GoTo, Fail
<1>5. CASE Inspect
  BY <1>5, DropKeepsOwners DEF Inspect, GoTo, Fail
<1>6. CASE Synchronize
  BY <1>6, DropKeepsOwners DEF Synchronize, GoTo, Fail
<1>7. CASE Route
  BY <1>7, DropKeepsOwners DEF Route, GoTo, Fail
<1>8. CASE Return \/ Cancel
  BY <1>8, DropKeepsOwners DEF Return, Cancel
<1>9. CASE Shutdown
  BY <1>9 DEF Shutdown, GoTo, work
<1>10. CASE RunAgain
  BY <1>10 DEF RunAgain, GoTo
<1>11. ASSUME NEW t \in Tasks, TaskEnds(t) \/ TaskPanics(t) \/ TaskGoes(t)
       PROVE  NoTaskOutlivesLoop'
  BY <1>11 DEF TaskEnds, TaskPanics, TaskGoes, EndTask, loop, TypeOK
<1>12. CASE UNCHANGED vars
  BY <1>12 DEF vars, loop, work
<1>. QED
  BY <1>1, <1>2, <1>3, <1>4, <1>5, <1>6, <1>7, <1>8, <1>9, <1>10, <1>11, <1>12
     DEF Next, LoopStep, Done

\* The flag is set by the only overwrite of the run, which comes before any spawn.
LEMMA FlagStep ==
  ASSUME RuntimeInv, [Next]_vars
  PROVE  FlagTellsSyncs'
<1>. USE DEF RuntimeInv, FlagTellsSyncs
<1>1. CASE \E s \in Shards, kind \in Kinds : Deliver(s, kind)
  BY <1>1 DEF Deliver, loop, work
<1>2. CASE ShardsEnd
  BY <1>2 DEF ShardsEnd, loop, work
<1>3. CASE NextEvent
  BY <1>3 DEF NextEvent, GoTo, work
<1>4. CASE Reap
  BY <1>4, DropKeepsOwners DEF Reap, GoTo, Fail, TypeOK
<1>5. CASE Inspect
  BY <1>5, DropKeepsOwners DEF Inspect, GoTo, Fail
<1>6. CASE Synchronize
  <2>0. pc = "synchronizing" /\ registers' = registers /\ syncs' = syncs
    BY <1>6 DEF Synchronize
  <2>1. CASE pc' = "routing" /\ synchronized' = TRUE /\ task' = task
    BY <2>0, <2>1
  <2>2. CASE Fail /\ UNCHANGED synchronized
    BY <2>0, <2>2, DropKeepsOwners DEF GoTo, Fail
  <2>. QED
    BY <1>6, <2>1, <2>2 DEF Synchronize, GoTo
<1>7. CASE Route
  <2>1. CASE SpawnCommand /\ pc = "routing" /\ current = "COMMAND"
    <3>1. registers => synchronized
      BY <2>1 DEF ReadyFirst, FirstReadyAtHand
    <3>. QED
      BY <1>7, <2>1, <3>1 DEF Route, GoTo, SpawnCommand, Fresh, TypeOK, Fail
  <2>2. CASE Fail
    BY <1>7, <2>2, DropKeepsOwners DEF Route, GoTo, Fail
  <2>3. CASE UNCHANGED work
    BY <1>7, <2>3, DropKeepsOwners DEF Route, GoTo, work, Fail
  <2>. QED
    BY <1>7, <2>1, <2>2, <2>3 DEF Route, DropWhenFull
<1>8. CASE Return \/ Cancel
  BY <1>8, DropKeepsOwners DEF Return, Cancel, GoTo
<1>9. CASE Shutdown
  BY <1>9 DEF Shutdown, GoTo, work
<1>10. CASE RunAgain
  <2>1. \A t \in Tasks : task'[t] \in {"unused", "aborting"}
    BY <1>10, NextRun DEF NoTaskOutlivesLoop
  <2>2. /\ registers' = registers /\ syncs' = 0 /\ pc' = "polling"
        /\ registers => ~synchronized'
        /\ ~registers => synchronized'
    BY <1>10, NextRun, Zenon
  <2>. QED
    BY <2>1, <2>2
<1>11. ASSUME NEW t \in Tasks, TaskEnds(t) \/ TaskPanics(t) \/ TaskGoes(t)
       PROVE  FlagTellsSyncs'
  BY <1>11 DEF TaskEnds, TaskPanics, TaskGoes, EndTask, loop, TypeOK
<1>12. CASE UNCHANGED vars
  BY <1>12 DEF vars, loop, work
<1>. QED
  BY <1>1, <1>2, <1>3, <1>4, <1>5, <1>6, <1>7, <1>8, <1>9, <1>10, <1>11, <1>12
     DEF Next, LoopStep, Done

\* The channel keeps the order of the gateway: a READY comes before the shard's
\* interactions, and stays before them until the loop takes it.
LEMMA ReadyFirstStep ==
  ASSUME RuntimeInv, [Next]_vars
  PROVE  ReadyFirst'
<1>. USE DEF RuntimeInv, ReadyFirst, FirstReadyAtHand
<1>1. ASSUME NEW s \in Shards, NEW kind \in Kinds, Deliver(s, kind) PROVE ReadyFirst'
  <2>. SUFFICES ASSUME registers, ~synchronized, pc \notin {"stopping", "stopped"},
                       ~FirstReadyAtHand
                PROVE  ReadyFirst'
    BY <1>1 DEF Deliver, loop
  <2>1. /\ Len(stream) \in Nat
        /\ Len(stream') = Len(stream) + 1
        /\ stream'[Len(stream) + 1] = kind
        /\ \A i \in 1..Len(stream) : stream'[i] = stream[i]
    BY <1>1 DEF Deliver, TypeOK
  <2>2. \A i \in 1..Len(stream') :
          stream'[i] = "COMMAND" => \E j \in 1..Len(stream') : j < i /\ stream'[j] = "READY"
    <3>. SUFFICES ASSUME NEW i \in 1..Len(stream'), stream'[i] = "COMMAND"
                  PROVE  \E j \in 1..Len(stream') : j < i /\ stream'[j] = "READY"
      OBVIOUS
    <3>1. CASE i \in 1..Len(stream)
      BY <2>1, <3>1
    <3>2. CASE i = Len(stream) + 1
      <4>1. connected # {}
        BY <1>1, <2>1, <3>2 DEF Deliver
      <4>. QED
        BY <2>1, <3>2, <4>1
    <3>. QED
      BY <2>1, <3>1, <3>2
  <2>3. connected' # {} => \E j \in 1..Len(stream') : stream'[j] = "READY"
    <3>1. CASE kind = "READY"
      BY <2>1, <3>1
    <3>2. CASE kind # "READY"
      BY <1>1, <2>1, <3>2 DEF Deliver
    <3>. QED
      BY <3>1, <3>2
  <2>. QED
    BY <1>1, <2>2, <2>3 DEF Deliver, loop
<1>2. CASE ShardsEnd
  BY <1>2 DEF ShardsEnd, loop
<1>3. CASE NextEvent
  <2>1. CASE stream = <<>> /\ UNCHANGED <<current, stream>> /\ pc' = "draining"
    BY <1>3, <2>1 DEF NextEvent
  <2>2. CASE /\ stream # <<>> /\ current' = Head(stream) /\ stream' = Tail(stream)
             /\ pc' = "received" /\ pc = "polling"
    <3>. SUFFICES ASSUME registers, ~synchronized, Head(stream) # "READY"
                  PROVE  ReadyFirst'
      BY <1>3, <2>2 DEF NextEvent
    <3>1. /\ Len(stream) \in Nat \ {0}
          /\ Len(stream') = Len(stream) - 1
          /\ stream[1] = Head(stream)
          /\ \A i \in 1..Len(stream') : stream'[i] = stream[i + 1]
      BY <2>2 DEF TypeOK
    <3>2. current' # "COMMAND"
      BY <2>2, <3>1
    <3>3. ASSUME NEW k \in 1..Len(stream), stream[k] = "READY"
          PROVE  k - 1 \in 1..Len(stream') /\ stream'[k - 1] = "READY"
      BY <3>1, <3>3
    <3>4. connected # {} => \E j \in 1..Len(stream') : stream'[j] = "READY"
      <4>1. connected # {} => \E k \in 1..Len(stream) : stream[k] = "READY"
        BY <2>2
      <4>. QED
        BY <3>3, <4>1
    <3>5. \A i \in 1..Len(stream') :
            stream'[i] = "COMMAND" => \E j \in 1..Len(stream') : j < i /\ stream'[j] = "READY"
      <4>. SUFFICES ASSUME NEW i \in 1..Len(stream'), stream'[i] = "COMMAND"
                    PROVE  \E j \in 1..Len(stream') : j < i /\ stream'[j] = "READY"
        OBVIOUS
      <4>1. PICK k \in 1..Len(stream) : k < i + 1 /\ stream[k] = "READY"
        BY <2>2, <3>1
      <4>. QED
        BY <3>1, <3>3, <4>1
    <3>. QED
      BY <1>3, <2>2, <3>2, <3>4, <3>5 DEF NextEvent
  <2>. QED
    BY <1>3, <2>1, <2>2 DEF NextEvent, GoTo
<1>4. CASE Reap
  BY <1>4 DEF Reap, GoTo, Fail, gateway
<1>5. CASE Inspect
  BY <1>5 DEF Inspect, GoTo, Fail, gateway
<1>6. CASE Synchronize
  BY <1>6 DEF Synchronize, GoTo, Fail, gateway
<1>7. CASE Route
  BY <1>7 DEF Route, GoTo, Fail, gateway
<1>8. CASE Return \/ Cancel \/ Shutdown
  BY <1>8 DEF Return, Cancel, Shutdown, GoTo
<1>9. CASE RunAgain
  <2>1. stream' = <<>> /\ connected' = {} /\ pc' = "polling"
    BY <1>9, NextRun, Zenon
  <2>. QED
    BY <2>1
<1>10. ASSUME NEW t \in Tasks, TaskEnds(t) \/ TaskPanics(t) \/ TaskGoes(t)
       PROVE  ReadyFirst'
  BY <1>10 DEF TaskEnds, TaskPanics, TaskGoes, EndTask, gateway, loop
<1>11. CASE UNCHANGED vars
  BY <1>11 DEF vars, gateway, loop
<1>. QED
  BY <1>1, <1>2, <1>3, <1>4, <1>5, <1>6, <1>7, <1>8, <1>9, <1>10, <1>11
     DEF Next, LoopStep, Done

LEMMA RuntimeStep == RuntimeInv /\ [Next]_vars => RuntimeInv'
  BY TypeStep, SlotsStep, LoopEndsAloneStep, FlagStep, ReadyFirstStep DEF RuntimeInv

LEMMA RuntimeInvariant == Spec => []RuntimeInv
<1>. QED
  BY InitRuntime, RuntimeStep, PTL DEF Spec

-----------------------------------------------------------------------------

\* The variables of the loop, the channel and the tasks keep their types.
THEOREM RuntimeTypeCorrect == Spec => []TypeOK
<1>1. RuntimeInv => TypeOK
  BY DEF RuntimeInv
<1>. QED
  BY <1>1, RuntimeInvariant, PTL

\* No slot is lost or doubled over any number of runs, ended or cancelled, whose
\* tasks return, panic or are aborted, before their first poll included.
THEOREM SlotsAreAccounted == Spec => []SlotsAccounted
<1>1. RuntimeInv => SlotsAccounted
  BY DEF RuntimeInv
<1>. QED
  BY <1>1, RuntimeInvariant, PTL

\* However run ends, each of its tasks has been told to abort.
THEOREM LoopEndsAlone == Spec => []NoTaskOutlivesLoop
<1>1. RuntimeInv => NoTaskOutlivesLoop
  BY DEF RuntimeInv
<1>. QED
  BY <1>1, RuntimeInvariant, PTL

\* A registering framework overwrites Discord's commands at most once in a run and
\* before it spawns any, whatever READYs the shards send and in whatever order.
THEOREM RegistersFirst == Spec => []SynchronizedOnceBeforeCommands
<1>1. RuntimeInv => SynchronizedOnceBeforeCommands
  BY DEF RuntimeInv, FlagTellsSyncs, SynchronizedOnceBeforeCommands
<1>. QED
  BY <1>1, RuntimeInvariant, PTL

\* No handler's panic is lost unless the loop was leaving or its caller dropped it.
THEOREM PanicsAreReported == Spec => PanicsReported
<1>. DEFINE Lost == \E t \in Tasks : task[t] = "panicked" /\ task'[t] = "unused"
            Excused == result' \in {"Error", "Cancelled"} \/ pc = "leaving"
<1>1. RuntimeInv /\ [Next]_vars /\ Lost => Excused
  <2>. SUFFICES ASSUME RuntimeInv, [Next]_vars, Lost PROVE Excused
    OBVIOUS
  <2>1. ~UNCHANGED task
    OBVIOUS
  <2>2. CASE Reap
    BY <2>2 DEF Reap, Fail
  <2>3. CASE Inspect \/ Synchronize
    BY <2>1, <2>3 DEF Inspect, Synchronize, Fail
  <2>4. CASE Route
    BY <2>1, <2>4 DEF Route, Fail, SpawnCommand, DropWhenFull, Fresh, work, RuntimeInv, TypeOK
  <2>5. CASE Return \/ Cancel
    BY <2>5 DEF Return, Cancel
  <2>6. CASE NextEvent \/ Shutdown \/ RunAgain
    BY <2>1, <2>6 DEF NextEvent, Shutdown, RunAgain, work
  <2>7. CASE ShardsEnd \/ \E s \in Shards, kind \in Kinds : Deliver(s, kind)
    BY <2>1, <2>7 DEF ShardsEnd, Deliver, work
  <2>8. ASSUME NEW t \in Tasks, TaskEnds(t) \/ TaskPanics(t) \/ TaskGoes(t) PROVE Excused
    BY <2>8 DEF TaskEnds, TaskPanics, TaskGoes, EndTask, RuntimeInv, TypeOK
  <2>9. CASE UNCHANGED vars
    BY <2>1, <2>9 DEF vars, work
  <2>. QED
    BY <2>2, <2>3, <2>4, <2>5, <2>6, <2>7, <2>8, <2>9 DEF Next, LoopStep, Done
<1>2. RuntimeInv /\ [Next]_vars =>
        [\A t \in Tasks : task[t] = "panicked" /\ task'[t] = "unused" => Excused]_vars
  BY <1>1
<1>. QED
  BY <1>2, RuntimeInvariant, PTL DEF Spec, PanicsReported
=============================================================================
