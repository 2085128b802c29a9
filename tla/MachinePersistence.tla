------------------------- MODULE MachinePersistence -------------------------
(***************************************************************************)
(* One instance of a state machine and its row in the MachineState table.  *)
(* Every transition of the interpreter emits an event that nobody awaits   *)
(* (xstate-persistence machineRegistration.ts); each event is handled by   *)
(* machineStatePersist, whose database calls are the operations modelled   *)
(* here: "find" the row, "check" its counter, "select" it once more to     *)
(* "insert" or "update" it, which is TypeORM's save, and "delete".         *)
(*                                                                         *)
(* deployment says who answers them. "local": the agent's own process has  *)
(* one database connection, which serves calls in the order they are made, *)
(* and a crash takes the calls with it. "remote": the plugin is a REST     *)
(* client (isRESTClient); handlers run in another process, in any order,   *)
(* and outlive a crash of this one.                                        *)
(***************************************************************************)
EXTENDS Naturals, Sequences, SequencesExt

CONSTANTS Deployments,  \* of "local" and "remote"
          Cleanups,     \* values of cleanupOnFinalState: "unset", "on", "off"
          MaxVersion,   \* for each deployment, a bound on the transitions of the machine
          MaxRun        \*   and on the times it is started

ASSUME PersistenceAssumption ==
    /\ Deployments \subseteq {"local", "remote"}
    /\ Cleanups \subseteq {"unset", "on", "off"}
    /\ MaxVersion \in [Deployments -> Nat \ {0}]
    /\ MaxRun \in [Deployments -> Nat \ {0}]

VARIABLES deployment,
          cleanup,  \* the option the machine was registered with
          phase,    \* "new", "up", "down", "booting" or "stuck"
          over,     \* the machine reached a final state, and stopped
          run,      \* history: how often the machine has been started
          count,    \* _eventCounter of this run
          ver,      \* the state it is in, numbered by the transitions to it
          found,    \* the row a resuming caller found active
          row,      \* the stored row, or NoRow
          queue,    \* database calls made and not yet answered
          refused   \* history: the insert of the present state failed

options == <<deployment, cleanup>>
vars == <<options, phase, over, run, count, ver, found, row, queue, refused>>

NoRow == [count |-> 0, ver |-> 0, completed |-> FALSE]
Row == [count : Nat \ {0}, ver : Nat \ {0}, completed : BOOLEAN]

Init ==
    /\ deployment \in Deployments
    /\ cleanup \in Cleanups
    /\ phase = "new"
    /\ over = FALSE
    /\ run = 1
    /\ count = 0
    /\ ver = 0
    /\ found = NoRow
    /\ row = NoRow
    /\ queue = <<>>
    /\ refused = FALSE
-----------------------------------------------------------------------------
(* A call knows the event it is made for: its counter, the state, whether  *)
(* it is an xstate.init event and whether the state is final. completed is *)
(* what "find" told the handler about the row it will overwrite.           *)
Call(op, c, v, init, done) ==
    [op |-> op, count |-> c, ver |-> v, init |-> init, done |-> done, completed |-> FALSE]

DeleteCall == Call("delete", 0, 0, FALSE, TRUE)

(* onChange emits and does not wait. In a final state the interpreter      *)
(* stops, and onDone deletes the row if the option was given: at once,     *)
(* while the last events are still being handled.                          *)
Transition(done) ==
    /\ phase \in {"new", "up"}
    /\ ~over
    /\ ver < MaxVersion[deployment]
    /\ ver' = ver + 1
    /\ count' = count + 1
    /\ phase' = "up"
    /\ over' = done
    /\ queue' = queue
                  \o <<Call("find", count', ver', phase = "new", done)>>
                  \o (IF done /\ cleanup = "on" THEN <<DeleteCall>> ELSE <<>>)
    /\ refused' = FALSE
    /\ UNCHANGED <<options, run, found, row>>

Crash ==
    /\ phase \in {"up", "booting"}
    /\ phase' = "down"
    /\ found' = NoRow
    /\ queue' = IF deployment = "local" THEN <<>> ELSE queue
    /\ UNCHANGED <<options, over, run, count, ver, row, refused>>

\* A slip in the next operator: what was found is not handed on.
FindActiveForgetful ==
    /\ phase = "down"
    /\ run < MaxRun[deployment]
    /\ row # NoRow /\ ~row.completed
    /\ phase' = "booting"
    /\ UNCHANGED <<options, over, run, count, ver, found, row, queue, refused>>

\* interpreterStartOrResume finds the row among the active ones.
FindActive ==
    /\ phase = "down"
    /\ run < MaxRun[deployment]
    /\ row # NoRow /\ ~row.completed
    /\ found' = row
    /\ phase' = "booting"
    /\ UNCHANGED <<options, over, run, count, ver, row, queue, refused>>

\* A slip in the next operators: the machine starts anew.
VersionFromStart == 1

\* The registration's counter starts at the row's, read once more.
ResumedCounter == row.count
ResumedVersion == found.ver

(* The machine starts in the state found before, and the init event of the *)
(* start is emitted like any other. If the row is gone by now, it does not.*)
Resume ==
    /\ phase = "booting"
    /\ row # NoRow
    /\ phase' = "up"
    /\ over' = FALSE
    /\ run' = run + 1
    /\ ver' = ResumedVersion
    /\ count' = ResumedCounter + 1
    /\ found' = NoRow
    /\ queue' = Append(queue, Call("find", count', ver', TRUE, FALSE))
    /\ refused' = FALSE
    /\ UNCHANGED <<options, row>>

ResumeGone ==
    /\ phase = "booting"
    /\ row = NoRow
    /\ phase' = "stuck"
    /\ found' = NoRow
    /\ UNCHANGED <<options, over, run, count, ver, row, queue, refused>>
-----------------------------------------------------------------------------
\* A slip in the next operator: a pool of connections, and any order.
ServableInAnyOrder == 1 .. Len(queue)

Servable == {j \in 1 .. Len(queue) : deployment = "local" => j = 1}

\* The handler goes on to its next call, which joins the others; or it ends.
GoOn(j, op, completed) ==
    queue' = Append(RemoveAt(queue, j), [queue[j] EXCEPT !.op = op, !.completed = completed])
End(j) == queue' = RemoveAt(queue, j)

\* The init event of a resumed machine is not stored.
Find(j) ==
    /\ queue[j].op = "find"
    /\ IF queue[j].init /\ queue[j].count > 1 THEN End(j) ELSE GoOn(j, "check", row.completed)
    /\ UNCHANGED <<row, refused>>

Older(call) == row.count > call.count

\* A slip in the next operator: a handler that is refused starts over.
CheckAndRetry(j) ==
    /\ queue[j].op = "check"
    /\ GoOn(j, IF Older(queue[j]) THEN "find" ELSE "select", queue[j].completed)
    /\ UNCHANGED <<row, refused>>

Check(j) ==
    /\ queue[j].op = "check"
    /\ IF Older(queue[j]) THEN End(j) ELSE GoOn(j, "select", queue[j].completed)
    /\ UNCHANGED <<row, refused>>

\* save looks for the row itself, and makes up its mind.
Select(j) ==
    /\ queue[j].op = "select"
    /\ GoOn(j, IF row = NoRow THEN "insert" ELSE "update", queue[j].completed)
    /\ UNCHANGED <<row, refused>>

\* A slip in the next operator: the delete of onDone is thought to be enough.
CleansUpUnlessOnDone(call) == call.done /\ cleanup = "unset"

CleansUp(call) == call.done /\ cleanup # "off"

\* A completion date that was found stays; a final state sets one.
Completed(call) == call.completed \/ call.done

\* save leaves the columns alone that it is given no value for.
Stored(call) ==
    [count |-> call.count, ver |-> call.ver, completed |-> row.completed \/ Completed(call)]

\* What was saved, if it is a final state, is cleaned up.
Saved(j) == IF CleansUp(queue[j]) THEN GoOn(j, "delete", queue[j].completed) ELSE End(j)

OfPresentState(call) == call.count = count /\ call.ver = ver

\* If another handler has stored the row since, its key is taken: the call rejects.
Insert(j) ==
    /\ queue[j].op = "insert"
    /\ \/ /\ row = NoRow
          /\ row' = Stored(queue[j])
          /\ Saved(j)
          /\ UNCHANGED refused
       \/ /\ row # NoRow
          /\ End(j)
          /\ refused' = (refused \/ OfPresentState(queue[j]))
          /\ UNCHANGED row

\* If the row was deleted since, nothing is updated, and nobody is told.
Update(j) ==
    /\ queue[j].op = "update"
    /\ row' = IF row = NoRow THEN NoRow ELSE Stored(queue[j])
    /\ Saved(j)
    /\ UNCHANGED refused

Delete(j) ==
    /\ queue[j].op = "delete"
    /\ row' = NoRow
    /\ End(j)
    /\ UNCHANGED refused

Serve ==
    \E j \in Servable :
        /\ Find(j) \/ Check(j) \/ Select(j) \/ Insert(j) \/ Update(j) \/ Delete(j)
        /\ UNCHANGED <<options, phase, over, run, count, ver, found>>

Next ==
    \/ \E done \in BOOLEAN : Transition(done)
    \/ Crash
    \/ FindActive
    \/ Resume
    \/ ResumeGone
    \/ Serve

\* The database answers; when the machine moves or the process dies is open.
Spec == Init /\ [][Next]_vars /\ WF_vars(Serve)
-----------------------------------------------------------------------------
TypeOK ==
    /\ deployment \in Deployments /\ cleanup \in Cleanups
    /\ phase \in {"new", "up", "down", "booting", "stuck"}
    /\ over \in BOOLEAN
    /\ run \in 1 .. MaxRun[deployment]
    /\ count \in Nat
    /\ ver \in 0 .. MaxVersion[deployment]
    /\ row \in Row \cup {NoRow}
    /\ found \in IF phase = "booting" THEN Row ELSE {NoRow}
    /\ queue \in Seq([op : {"find", "check", "select", "insert", "update", "delete"}, count : Nat,
                      ver : Nat, init : BOOLEAN, done : BOOLEAN, completed : BOOLEAN])
    /\ refused \in BOOLEAN

(* The stored row is never replaced by that of an earlier transition, over *)
(* any number of runs: "We are using the event counter and evenDate to     *)
(* ensure we do not overwrite newer states" (machineRegistration.ts:71).   *)
(* So it is with one connection; remote handlers overtake each other.      *)
NewerStatesStay ==
    [][deployment = "local" /\ row # NoRow /\ row' # NoRow => row'.count >= row.count]_vars

(* With one connection, and every handler done, the row of a live machine  *)
(* holds its state, and its counter does not run ahead of the machine's;   *)
(* and a machine that is over leaves no row to resume: none at all, unless *)
(* the caller turned cleanup off. Neither the early delete of onDone nor   *)
(* the late one of the last event's handler is undone by another handler.  *)
(* One thing goes wrong: of states whose handlers overlap while there is no*)
(* row, all are inserted and one is stored. Then the row is there, and is  *)
(* that of an earlier state, to be resumed even if the machine is over.    *)
QuietMeansSaved ==
    deployment = "local" /\ phase = "up" /\ queue = <<>> =>
        IF refused THEN row # NoRow /\ ~row.completed /\ row.ver < ver
        ELSE IF ~over THEN row.ver = ver /\ row.count <= count
        ELSE IF cleanup = "off" THEN row.completed
        ELSE row = NoRow

(* Every emitted event is handled in the end, one way or the other: stored,*)
(* skipped as the init event of a resumed machine, or refused as older.    *)
EveryEventIsHandled == <>[](queue = <<>>)

(* With one connection, saving in the background is saving in order: the   *)
(* row follows the machine forward, and a resumed machine is one the row   *)
(* held (machineRegistration.ts, MachineStatePersistence.ts, the store). A *)
(* remote deployment does not promise this, and shows nothing here.        *)
Promised(value, otherwise) == IF deployment = "local" THEN value ELSE otherwise

Durability == INSTANCE MachineDurability WITH
    mem <- Promised(ver, 0), disk <- Promised(row.ver, 0), over <- Promised(over, FALSE)
ImplementsDurability == Durability!Spec
=============================================================================
