---------------------------- MODULE MachineStart ----------------------------
(***************************************************************************)
(* interpreterStartOrResume (xstate-persistence machineRegistration.ts):   *)
(* callers that start a new instance of one state machine, or resume one,  *)
(* and the rows of its instances in the MachineState table.                *)
(*                                                                         *)
(* A caller is an async function that works on what its queries answered,  *)
(* while other callers run. machineStateInit's clean-up is two steps: the  *)
(* deletes of the done and the expired rows with the query for the active  *)
(* ones, then the deletes of what the query found.                         *)
(***************************************************************************)
EXTENDS Naturals, FiniteSets

CONSTANTS Caller,      \* calls of interpreterStartOrResume, each made once
          Instance,    \* instance ids
          NoId,        \* no id given, or none chosen yet
          Types,       \* values of stateType that callers use
          Ids,         \* instance ids callers give, or NoId
          Singleton,   \* values of singletonCheck
          CleanAll,    \* values of cleanupAllOtherInstances
          NoRegistration, \* values of noRegistration
          AtStart      \* what a row may be before the first call

ASSUME StartAssumption ==
    /\ NoId \notin Instance
    /\ Types \subseteq {"new", "existing", "auto"}
    /\ Ids \subseteq Instance \cup {NoId}
    /\ Singleton \subseteq BOOLEAN
    /\ CleanAll \subseteq BOOLEAN
    /\ NoRegistration \subseteq BOOLEAN
    /\ AtStart \subseteq {"absent", "active", "timed", "expired", "done"}

VARIABLES rows,     \* as AtStart; "timed" is active with an expiry date to come
          live,     \* the instances whose machine runs and is registered to
                    \* be persisted, whatever the table says
          pc,       \* where each call is
          opts,     \* its options
          target,   \* the instance it starts or resumes
          new,      \* whether it starts it
          others,   \* the rows it is about to delete
          alone     \* history: the calls that nothing put a row beside so far

vars == <<rows, live, pc, opts, target, new, others, alone>>

NoOpts == [type |-> "none", id |-> NoId, singleton |-> FALSE, clean |-> FALSE, noreg |-> FALSE]
Over == {"started", "resumed", "rejected", "threw"}

Active == {i \in Instance : rows[i] \in {"active", "timed"}}

\* There is an unused id for every caller: a random id is never taken.
Init ==
    /\ rows \in [Instance -> AtStart]
    /\ Cardinality({i \in Instance : rows[i] = "absent"}) >= Cardinality(Caller)
    /\ live \in SUBSET Active
    /\ pc = [c \in Caller |-> "idle"]
    /\ opts = [c \in Caller |-> NoOpts]
    /\ target = [c \in Caller |-> NoId]
    /\ new = [c \in Caller |-> FALSE]
    /\ others = [c \in Caller |-> {}]
    /\ alone = {}

Call(c) ==
    \E type \in Types, id \in Ids, singleton \in Singleton, clean \in CleanAll,
       noreg \in NoRegistration :
        /\ pc[c] = "idle"
        /\ alone' = {d \in {c} : \A e \in Caller : pc[e] \in Over \cup {"idle"}}
        /\ opts' = [opts EXCEPT ![c] = [type |-> type, id |-> id, singleton |-> singleton,
                                        clean |-> clean, noreg |-> noreg]]
        /\ pc' = [pc EXCEPT ![c] = "find"]
        /\ UNCHANGED <<rows, live, target, new, others>>
-----------------------------------------------------------------------------
\* A call that is over, one way or the other, has its options no longer.
Return(c, how) ==
    /\ pc' = [pc EXCEPT ![c] = how]
    /\ opts' = [opts EXCEPT ![c] = NoOpts]

\* machineStatesFindActive with the caller's id, if it gave one.
Found(c) == {i \in Active : opts[c].id \in {NoId, i}}

(* Only "new" and "existing" are looked at. An existing instance is looked *)
(* for by its id when there is one, so no other one is found.              *)
SingletonRefuses(c) ==
    /\ opts[c].singleton
    /\ \/ opts[c].type = "new" /\ Found(c) # {}
       \/ opts[c].type = "existing" /\ opts[c].id = NoId /\ Cardinality(Found(c)) > 1

\* A slip in the next operator: only a given id is compared.
RefusesSameId(c) ==
    \/ opts[c].type = "new" /\ opts[c].id # NoId /\ Found(c) # {}
    \/ opts[c].type = "existing" /\ Found(c) = {}

Refuses(c) ==
    \/ SingletonRefuses(c)
    \/ opts[c].type = "new" /\ opts[c].id # NoId /\ Found(c) # {}
    \/ opts[c].type = "existing" /\ Found(c) = {}

StartsNew(c) == opts[c].type = "new" \/ Found(c) = {}

\* A new instance may ask for the active ones to go before anything else.
FindToPurge(c) ==
    /\ pc[c] = "find"
    /\ opts[c].type = "new" /\ opts[c].clean /\ Found(c) # {}
    /\ others' = [others EXCEPT ![c] = Found(c)]
    /\ pc' = [pc EXCEPT ![c] = "purge"]
    /\ UNCHANGED <<rows, live, opts, target, new, alone>>

DeleteRows(c) == rows' = [i \in Instance |-> IF i \in others[c] THEN "absent" ELSE rows[i]]

Purge(c) ==
    /\ pc[c] = "purge"
    /\ DeleteRows(c)
    /\ others' = [others EXCEPT ![c] = {}]
    /\ pc' = [pc EXCEPT ![c] = "decide"]
    /\ UNCHANGED <<live, opts, target, new, alone>>

(* What was found decides, at once: refuse, start a new instance, under    *)
(* the given id or a random one, or resume the instance updated last.      *)
Deciding(c) ==
    \/ pc[c] = "decide"
    \/ pc[c] = "find" /\ ~(opts[c].type = "new" /\ opts[c].clean /\ Found(c) # {})

Refuse(c) ==
    /\ Deciding(c)
    /\ Refuses(c)
    /\ Return(c, "rejected")
    /\ UNCHANGED <<rows, live, target, new, others, alone>>

Unused == {i \in Instance : rows[i] = "absent" /\ \A d \in Caller : target[d] # i}

StartNew(c) ==
    \E i \in IF opts[c].id = NoId THEN Unused ELSE {opts[c].id} :
        /\ Deciding(c)
        /\ ~Refuses(c)
        /\ StartsNew(c)
        /\ target' = [target EXCEPT ![c] = i]
        /\ new' = [new EXCEPT ![c] = TRUE]
        /\ pc' = [pc EXCEPT ![c] = IF opts[c].clean THEN "init" ELSE "start"]
        /\ UNCHANGED <<rows, live, opts, others, alone>>

(* assertNonExpired calls getTime on what the query answered. expiresAt    *)
(* went through JSON (MachineStateStore.machineInfoFrom), so it is a text, *)
(* and a row that has one makes the call throw. Without registration the   *)
(* machine starts at once from what was found, and nothing is cleaned up.  *)
ResumeFound(c) ==
    \E i \in Found(c) :
        /\ Deciding(c)
        /\ ~Refuses(c)
        /\ ~StartsNew(c)
        /\ target' = [target EXCEPT ![c] = i]
        /\ \/ rows[i] = "timed" /\ Return(c, "threw")
           \/ rows[i] # "timed" /\ opts[c].noreg /\ Return(c, "resumed")
           \/ /\ rows[i] # "timed" /\ ~opts[c].noreg
              /\ pc' = [pc EXCEPT ![c] = IF opts[c].clean THEN "register" ELSE "get"]
              /\ UNCHANGED opts
        /\ UNCHANGED <<rows, live, new, others, alone>>
-----------------------------------------------------------------------------
\* A slip in the next operator: instances with a date to come are passed over.
OthersOfUntimed(c) == {i \in Instance \ {target[c]} : rows[i] = "active"}

\* The instance to resume is not one of the others; a new one has no row yet.
OthersOf(c) == IF new[c] THEN Active ELSE Active \ {target[c]}

(* machineStateInit with cleanupAllOtherInstances, up to its query. A new  *)
(* instance is initialised before anything is started, and once more when  *)
(* it is registered.                                                       *)
Sweep(c) ==
    /\ pc[c] \in {"init", "register"}
    /\ rows' = [i \in Instance |-> IF rows[i] \in {"done", "expired"} THEN "absent" ELSE rows[i]]
    /\ others' = [others EXCEPT ![c] = OthersOf(c)]
    /\ pc' = [pc EXCEPT ![c] = IF @ = "init" THEN "initClean" ELSE "registerClean"]
    /\ UNCHANGED <<live, opts, target, new, alone>>

Clean(c) ==
    /\ pc[c] \in {"initClean", "registerClean"}
    /\ DeleteRows(c)
    /\ others' = [others EXCEPT ![c] = {}]
    /\ pc' = [pc EXCEPT ![c] = IF @ = "initClean" /\ ~opts[c].noreg THEN "register"
                                 ELSE IF new[c] THEN "start"
                                 ELSE "get"]
    /\ UNCHANGED <<live, opts, target, new, alone>>

\* The registration of an existing instance reads its row, which must be there.
Get(c) ==
    /\ pc[c] = "get"
    /\ Return(c, IF rows[target[c]] = "absent" THEN "threw" ELSE "resumed")
    /\ live' = IF rows[target[c]] = "absent" THEN live ELSE live \cup {target[c]}
    /\ UNCHANGED <<rows, target, new, others, alone>>

(* A new machine starts, and the call waits a moment for it. Its first     *)
(* event is emitted; without registration nothing will ever be stored.     *)
Start(c) ==
    /\ pc[c] = "start"
    /\ live' = IF opts[c].noreg THEN live ELSE live \cup {target[c]}
    /\ pc' = [pc EXCEPT ![c] = "wait"]
    /\ UNCHANGED <<rows, opts, target, new, others, alone>>

(* The first event is persisted. If the id has a row, that row's count is  *)
(* higher and its completion and expiry dates are kept: it stays what it   *)
(* was. This may come after the answer too, by the last case of Elsewhere. *)
Persist(c) ==
    /\ pc[c] = "wait" /\ ~opts[c].noreg
    /\ target[c] \in live /\ rows[target[c]] = "absent"
    /\ rows' = [rows EXCEPT ![target[c]] = "active"]
    /\ UNCHANGED <<live, pc, opts, target, new, others, alone>>

Answer(c) ==
    /\ pc[c] = "wait"
    /\ Return(c, "started")
    /\ UNCHANGED <<rows, live, target, new, others, alone>>

(* Meanwhile a machine ends, its last state stored or removed; or a row    *)
(* expires; or a machine whose row was deleted, or is not there yet, makes *)
(* another transition, and persisting that puts the row back.              *)
Elsewhere ==
    \E i \in Instance :
        /\ \/ /\ i \in live
              /\ live' = live \ {i}
              /\ \E last \in {"done", "absent"} : rows' = [rows EXCEPT ![i] = last]
              /\ UNCHANGED alone
           \/ /\ rows[i] = "timed"
              /\ rows' = [rows EXCEPT ![i] = "expired"]
              /\ UNCHANGED <<live, alone>>
           \/ /\ i \in live /\ rows[i] = "absent"
              /\ rows' = [rows EXCEPT ![i] = "active"]
              /\ alone' = {}
              /\ UNCHANGED live
        /\ UNCHANGED <<pc, opts, target, new, others>>

Step(c) ==
    \/ FindToPurge(c) \/ Purge(c) \/ Refuse(c) \/ StartNew(c) \/ ResumeFound(c)
    \/ Sweep(c) \/ Clean(c) \/ Get(c) \/ Start(c) \/ Persist(c) \/ Answer(c)

Next == Elsewhere \/ \E c \in Caller : Call(c) \/ Step(c)

Spec == Init /\ [][Next]_vars
-----------------------------------------------------------------------------
(* A call ends and met neither another call nor a machine that put its row *)
(* back. What went before may have been any overlap.                       *)
Answered(c) == c \in alone /\ pc[c] \notin Over /\ pc'[c] \in {"started", "resumed"}

(* A call that cleans up all other instances leaves its own instance, and  *)
(* none but its own, active: what it resumed survives its own clean-up.    *)
(* Only an instance resumed without registration is not initialised, and   *)
(* cleans nothing up; a new one has been by then.                          *)
CleanCallLeavesItsOwn ==
    [][\A c \in Caller : Answered(c) /\ opts[c].clean /\ (new[c] \/ ~opts[c].noreg) =>
          /\ Active' \subseteq {target'[c]}
          /\ ~new[c] => rows'[target'[c]] # "absent"]_vars

(* A call without an id that asks for the singleton check starts a machine *)
(* only when no other one is active: "@throws {Error} If there are multiple*)
(* active instances of the machine and singletonCheck is true"             *)
(* (machineRegistration.ts:296).                                           *)
SingletonStartsAlone ==
    [][\A c \in Caller : Answered(c) /\ new[c] /\ opts[c].singleton /\ opts[c].id = NoId =>
          Active' \subseteq {target'[c]}]_vars
=============================================================================
