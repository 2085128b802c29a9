--------------------------- MODULE KeyValueStore ---------------------------
(* One key of a Keyv store (keyv.ts) over the tiered adapter (tiered/       *)
(* index.ts): a local Map before a remote store, each wrapped in a Keyv of  *)
(* its own.  Every call is a sequence of awaited steps; an entry carries    *)
(* its expiry with it, and a reader that meets one that is over deletes the *)
(* key in a later step.                                                     *)
EXTENDS Integers

CONSTANTS
    Client, Value,
    Lifetime,       \* the ttl values a set is given, 0 for none
    None,
    Orders,         \* how calls may meet: one after the other, or at once
    MaxTime,        \* bound on the clock
    MaxCalls        \* bound on the calls of a run

Op == {"set", "get", "getMany", "getManyAsValueData", "delete", "has"}

\* A row is what Keyv serialises; its expiry is 0 when it has no lifetime. The
\* Keyv around a store wraps the row in one of its own, with its own expiry.
Row == [value : Value, expires : Nat]
Copy == [row : Row, until : Nat]

ASSUME KeyValueAssumption ==
    /\ Lifetime \subseteq Nat /\ MaxTime \in Nat /\ MaxCalls \in Nat
    /\ Orders \subseteq {"inTurn", "atOnce"}
    /\ None \notin Row \cup Copy \cup Op

VARIABLES
    now,
    local,      \* the Map: a row and the expiry the Keyv around it knows
    remote,     \* the remote store: the same
    call,       \* what each client is doing
    late,       \* deletions a call of the client left behind, not awaited
    calls,      \* calls made so far
    order,
    overlapped, \* history: calls have met since a lone write was done
    settled     \* history: a lone set is done, and none has changed the key since

history == <<overlapped, settled>>
vars == <<now, local, remote, call, late, calls, order, history>>

Store == {"local", "remote"}

Call == [op : Op \cup {None},
         step : {"done", "local", "evict", "remote", "evictRemote", "fill", "write", "remove", "has"},
         row : Row \cup {None}, until : Nat,
         ttl : Lifetime \cup {0}, todo : SUBSET Store, alone : BOOLEAN]

Idle == [op |-> None, step |-> "done", row |-> None, until |-> 0,
         ttl |-> 0, todo |-> {}, alone |-> FALSE]

Deadline(ttl) == IF ttl = 0 THEN 0 ELSE now + ttl

Past(time) == time # 0 /\ now > time

Busy(c) == call[c].step # "done" \/ late[c] # {}

TypeOK ==
    /\ now \in 0 .. MaxTime /\ calls \in 0 .. MaxCalls
    /\ local \in {None} \cup Copy
    /\ remote \in {None} \cup Copy
    /\ call \in [Client -> Call]
    /\ late \in [Client -> SUBSET Store]
    /\ order \in Orders /\ overlapped \in BOOLEAN /\ settled \in BOOLEAN

Init ==
    /\ now = 0 /\ local = None /\ remote = None
    /\ call = [c \in Client |-> Idle] /\ late = [c \in Client |-> {}]
    /\ calls = 0 /\ order \in Orders /\ overlapped = FALSE /\ settled = FALSE

-----------------------------------------------------------------------------
\* Calls.  In turn, has and getManyAsValueData are left out: see the README.

Begin(c, op, first, row, ttl, todo) ==
    LET alone == \A d \in Client : ~Busy(d) IN
    /\ call[c].step = "done" /\ calls < MaxCalls
    /\ order = "inTurn" => alone /\ op \notin {"has", "getManyAsValueData"}
    /\ calls' = calls + 1
    /\ call' = [d \in Client |->
                  IF d = c THEN [op |-> op, step |-> first, row |-> row, until |-> 0,
                                 ttl |-> ttl, todo |-> todo, alone |-> alone]
                           ELSE [call[d] EXCEPT !.alone = FALSE]]
    /\ overlapped' = (overlapped \/ ~alone)
    /\ settled' = (settled /\ op \notin {"set", "delete"})
    /\ UNCHANGED <<now, local, remote, late, order>>

Set(c, v, ttl) ==
    Begin(c, "set", "write", [value |-> v, expires |-> Deadline(ttl)], ttl, Store)

Get(c) == Begin(c, "get", "local", None, 0, {})

GetMany(c) == Begin(c, "getMany", "local", None, 0, {})

GetManyAsValueData(c) == Begin(c, "getManyAsValueData", "local", None, 0, {})

\* A slip in the next operator: what was copied into the Map is left there.
DeleteRemote(c) == Begin(c, "delete", "remove", None, 0, {"remote"})

Delete(c) == Begin(c, "delete", "remove", None, 0, Store)

Has(c) == Begin(c, "has", "has", None, 0, {})

-----------------------------------------------------------------------------
\* The stores.

Clear(s) ==
    /\ local' = IF s = "local" THEN None ELSE local
    /\ remote' = IF s = "remote" THEN None ELSE remote

\* A call that is done with its last store; a lone write makes up for the past.
Left(c, s, then, row) ==
    LET todo == call[c].todo \ {s} IN
    /\ call' = [call EXCEPT ![c].todo = todo,
                            ![c].step = IF todo = {} THEN then ELSE @,
                            ![c].row = IF todo = {} THEN row ELSE @]
    /\ overlapped' = (overlapped /\ ~(todo = {} /\ call[c].alone))
    /\ settled' = (settled \/ (todo = {} /\ call[c].alone /\ call[c].step = "write"))

\* A slip in the next operator: the lifetime is taken for a date.
DeadlinesFromZero(c) == {call[c].ttl}

\* The Keyv around a store reckons an expiry of its own, between the start of the
\* call and its write.
Deadlines(c) == IF call[c].ttl = 0 THEN {0} ELSE call[c].row.expires .. Deadline(call[c].ttl)

Write(c, s) ==
    /\ call[c].step = "write" /\ s \in call[c].todo
    /\ \E until \in Deadlines(c) :
          LET copy == [row |-> call[c].row, until |-> until] IN
          /\ local' = IF s = "local" THEN copy ELSE local
          /\ remote' = IF s = "remote" THEN copy ELSE remote
    /\ Left(c, s, "local", None)
    /\ UNCHANGED <<now, late, calls, order>>

Remove(c, s) ==
    /\ call[c].step = "remove" /\ s \in call[c].todo
    /\ Clear(s)
    /\ Left(c, s, "done", None)
    /\ UNCHANGED <<now, late, calls, order>>

RemoveLate(c, s) ==
    /\ s \in late[c]
    /\ Clear(s)
    /\ late' = [late EXCEPT ![c] = @ \ {s}]
    /\ UNCHANGED <<now, call, calls, order, history>>

-----------------------------------------------------------------------------
\* Reads.

Answer(c, row) ==
    /\ call' = [call EXCEPT ![c].step = "done", ![c].row = row]
    /\ UNCHANGED late

Raw(c) == call[c].op = "getManyAsValueData"

\* The outer Keyv looks at the expiry of the row, and in what a raw bulk read gives
\* it at that of the wrapper: there the row is still wrapped.  Of a bulk read the
\* deletion is not awaited.
Judge(c, row, until) ==
    LET over == Past(IF Raw(c) THEN until ELSE row.expires) IN
    \/ ~over /\ Answer(c, row)
    \/ /\ over /\ call[c].op \in {"getMany", "getManyAsValueData"}
       /\ call' = [call EXCEPT ![c].step = "done", ![c].row = None]
       /\ late' = [late EXCEPT ![c] = Store]
    \/ /\ over /\ call[c].op \in {"get", "set"}
       /\ call' = [call EXCEPT ![c].step = "remove", ![c].row = None, ![c].todo = Store]
       /\ UNCHANGED late

ReadLocal(c) ==
    /\ call[c].step = "local"
    /\ \/ /\ local = None
          /\ call' = [call EXCEPT ![c].step = "remote"] /\ UNCHANGED late
       \/ /\ local # None /\ Past(local.until)
          /\ call' = [call EXCEPT ![c].step = "evict"] /\ UNCHANGED late
       \/ /\ local # None /\ ~Past(local.until)
          /\ Judge(c, local.row, local.until)
    /\ UNCHANGED <<now, local, remote, calls, order, history>>

Evict(c) ==
    /\ call[c].step = "evict"
    /\ Clear("local")
    /\ call' = [call EXCEPT ![c].step = "remote"]
    /\ UNCHANGED <<now, late, calls, order, history>>

\* Only a raw read is told the expiry of the wrapper.
ReadRemote(c) ==
    /\ call[c].step = "remote"
    /\ \/ remote = None /\ Answer(c, None)
       \/ /\ remote # None /\ Past(remote.until)
          /\ call' = [call EXCEPT ![c].step = "evictRemote"] /\ UNCHANGED late
       \/ /\ remote # None /\ ~Past(remote.until)
          /\ call' = [call EXCEPT ![c].step = "fill", ![c].row = remote.row,
                                  ![c].until = IF Raw(c) THEN remote.until ELSE 0]
          /\ UNCHANGED late
    /\ UNCHANGED <<now, local, remote, calls, order, history>>

EvictRemote(c) ==
    /\ call[c].step = "evictRemote"
    /\ Clear("remote")
    /\ Answer(c, None)
    /\ UNCHANGED <<now, calls, order, history>>

\* A slip in the next operator: the value is copied without its expiry.
FillBare(c) ==
    /\ call[c].step = "fill"
    /\ local' = [row |-> [call[c].row EXCEPT !.expires = 0], until |-> 0]
    /\ Judge(c, call[c].row, call[c].until)
    /\ UNCHANGED <<now, remote, calls, order, history>>

\* The row is copied with what is left of the wrapper's lifetime, as far as the read
\* was told it; none left is taken for no lifetime.  One that is over is deleted from
\* the Map, unawaited, as Judge deletes it from both stores.
Fill(c) ==
    LET until == call[c].until IN
    /\ call[c].step = "fill"
    /\ local' = IF Past(until) THEN local
                ELSE [row |-> call[c].row, until |-> IF until = now THEN 0 ELSE until]
    /\ Judge(c, call[c].row, until)
    /\ UNCHANGED <<now, remote, calls, order, history>>

\* A slip in the next operator: what the Map holds is not unwrapped.
AnswerHasWrapped(c) ==
    /\ call[c].step = "has"
    /\ Answer(c, local)
    /\ UNCHANGED <<now, local, remote, calls, order, history>>

\* The answer of the local store is a promise, which is always true: the remote
\* store is never asked.
AnswerHas(c) ==
    /\ call[c].step = "has"
    /\ Answer(c, IF local = None THEN None ELSE local.row)
    /\ UNCHANGED <<now, local, remote, calls, order, history>>

-----------------------------------------------------------------------------
Tick ==
    /\ now < MaxTime /\ now' = now + 1
    /\ UNCHANGED <<local, remote, call, late, calls, order, history>>

\* The process stops and starts: the Map and the calls are gone.
Restart ==
    /\ local' = None
    /\ call' = [c \in Client |-> Idle] /\ late' = [c \in Client |-> {}]
    /\ overlapped' = FALSE
    /\ UNCHANGED <<now, remote, calls, order, settled>>

Next ==
    \/ \E c \in Client :
         \/ \E v \in Value, ttl \in Lifetime : Set(c, v, ttl)
         \/ Get(c) \/ GetMany(c) \/ GetManyAsValueData(c) \/ Delete(c) \/ Has(c)
         \/ ReadLocal(c) \/ Evict(c) \/ ReadRemote(c) \/ EvictRemote(c) \/ Fill(c) \/ AnswerHas(c)
         \/ \E s \in Store : Write(c, s) \/ Remove(c, s) \/ RemoveLate(c, s)
    \/ Tick
    \/ Restart

Spec == Init /\ [][Next]_vars

-----------------------------------------------------------------------------
\* What the store promises.

Fresh == remote # None /\ ~Past(remote.row.expires)

Held == IF Fresh THEN remote.row ELSE None

Heard ==
    [c \in Client |-> IF call[c].step = "done" /\ call[c].op \in {"set", "get", "getMany"}
                        THEN <<call[c].row>> ELSE <<>>]

Map == INSTANCE KeyValueMap WITH entry <- Held, heard <- Heard

(* Calls that are made one after the other, none left unfinished, see one  *)
(* map, whatever the two stores hold: through expiries, copies that were    *)
(* made on the way and restarts between any two steps.                      *)
InTurnIsAMap ==
    [][order = "inTurn" => (Map!Next \/ UNCHANGED <<now, Held, Heard>>)]_vars

(* Only calls that meet can set the two stores apart, and a set or a delete *)
(* that meets no other call brings them together again: with nothing under  *)
(* way the Map has no row, the row of the remote store, or one that is over.*)
LoneWriteHeals ==
    (~overlapped /\ \A c \in Client : ~Busy(c))
        => \/ local = None
           \/ remote # None /\ local.row = remote.row
           \/ Past(local.row.expires)

(* What a set that met no other call has written stands until a set or a    *)
(* delete begins, or it is over: whatever reads and copies meet each other   *)
(* from then on, through restarts and evictions in either store, it stays in *)
(* the remote store, and every read of either kind but has is told it.       *)
LoneSetStands ==
    [][(settled /\ Fresh)
          => /\ remote' = remote
             /\ \A c \in Client :
                   call[c].step # "done" /\ call'[c].step = "done" /\ call'[c].op \notin {None, "has"}
                     => call'[c].row = remote.row]_vars
=============================================================================
