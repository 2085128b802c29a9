------------------------- MODULE MachineStartProofs -------------------------
(***************************************************************************)
(* Theorems about MachineStart, for any calls, instances, options and rows *)
(* at the start. A call is followed only as long as it is in alone: then   *)
(* no other call is under way, and no row becomes active but by its own    *)
(* doing, so that what it found bounds what is there later.                *)
(***************************************************************************)
EXTENDS MachineStart, TLAPS

USE StartAssumption

Option == [type : Types \cup {"none"}, id : Ids \cup {NoId}, singleton : BOOLEAN, clean : BOOLEAN,
           noreg : BOOLEAN]
Chosen == {"init", "initClean", "register", "registerClean", "start", "wait", "get"}
Place == {"idle", "find", "purge", "decide"} \cup Chosen \cup Over

TypeInv ==
    /\ rows \in [Instance -> {"absent", "active", "timed", "expired", "done"}]
    /\ live \subseteq Instance
    /\ pc \in [Caller -> Place]
    /\ opts \in [Caller -> Option]
    /\ target \in [Caller -> Instance \cup {NoId}]
    /\ new \in [Caller -> BOOLEAN]
    /\ others \in [Caller -> SUBSET Instance]
    /\ alone \subseteq Caller
    /\ \A c \in Caller : pc[c] \in Chosen => target[c] \in Instance

\* A call is to start an instance only once it has decided to.
Undecided(c) == pc[c] \in {"idle", "find", "purge", "decide"} => ~new[c]
Decided(c) ==
    /\ pc[c] \in {"init", "initClean", "start", "wait"} => new[c]
    /\ pc[c] = "get" => ~new[c]
    /\ pc[c] \in {"register", "registerClean", "get"} => ~opts[c].noreg

Lone(c) == c \in alone => \A d \in Caller \ {c} : pc[d] \in Over \cup {"idle"}

(* What a call with cleanupAllOtherInstances leaves: what its query has    *)
(* found is all that is active, but for what it resumes; then nothing is,  *)
(* until the instance it starts is stored.                                 *)
Kept(c) == IF new[c] THEN {} ELSE {target[c]}
Cleaning(c) ==
    c \in alone /\ opts[c].clean =>
        /\ pc[c] \in {"initClean", "registerClean"} => Active \subseteq others[c] \cup Kept(c)
        /\ pc[c] \in {"start", "get"} => Active \subseteq Kept(c)
        /\ pc[c] = "wait" => Active \subseteq {target[c]}

\* What a call with singletonCheck and no id goes on with: no active instance.
OnlyOne(c) ==
    c \in alone /\ opts[c].singleton /\ opts[c].id = NoId /\ new[c] /\ pc[c] \notin Over =>
        /\ pc[c] # "wait" => Active = {}
        /\ pc[c] = "wait" => Active \subseteq {target[c]}

CallInv(c) == Undecided(c) /\ Decided(c) /\ Lone(c) /\ Cleaning(c) /\ OnlyOne(c)
IInv == TypeInv /\ \A c \in Caller : CallInv(c)
-----------------------------------------------------------------------------
\* The steps of one call, with its arrival; nothing else is done for a call.
Moves(c) == Call(c) \/ Step(c)

LEMMA ReturnType ==
    ASSUME TypeInv, NEW c \in Caller, NEW how \in Over, Return(c, how)
    PROVE  /\ pc' \in [Caller -> Place] /\ opts' \in [Caller -> Option]
           /\ \A d \in Caller : pc'[d] \in Chosen => pc[d] \in Chosen
  <1>1. NoOpts \in Option
    BY DEF NoOpts, Option
  <1> QED
    BY <1>1 DEF Return, TypeInv, Place, Chosen, Over

LEMMA TypeStep == TypeInv /\ [Next]_vars => TypeInv'
  <1> SUFFICES ASSUME TypeInv, [Next]_vars PROVE TypeInv'
    OBVIOUS
  <1>1. ASSUME NEW c \in Caller, Call(c) PROVE TypeInv'
    BY <1>1 DEF Call, TypeInv, Place, Chosen, Over, Option
  <1>2. ASSUME NEW c \in Caller, Step(c) PROVE TypeInv'
    <2>1. CASE FindToPurge(c) \/ Purge(c)
      BY <2>1 DEF FindToPurge, Purge, DeleteRows, Found, Active, TypeInv, Place, Chosen
    <2>7. CASE Refuse(c)
      BY <2>7, ReturnType DEF Refuse, TypeInv, Over
    <2>2. CASE StartNew(c)
      BY <2>2 DEF StartNew, Unused, TypeInv, Place, Chosen, Option
    <2>3. CASE ResumeFound(c)
      <3>1. PICK i \in Instance : /\ UNCHANGED <<rows, live, new, others, alone>>
                                 /\ target' = [target EXCEPT ![c] = i]
        BY <2>3 DEF ResumeFound, Found, Active
      <3>2. CASE \E how \in Over : Return(c, how)
        BY <3>1, <3>2, ReturnType DEF TypeInv
      <3>3. CASE UNCHANGED opts /\ \E next \in Chosen : pc' = [pc EXCEPT ![c] = next]
        BY <3>1, <3>3 DEF TypeInv, Place
      <3> QED
        BY <2>3, <3>2, <3>3 DEF ResumeFound, Over, Chosen
    <2>4. CASE Sweep(c)
      BY <2>4 DEF Sweep, OthersOf, Active, TypeInv, Place, Chosen
    <2>5. CASE Clean(c)
      BY <2>5 DEF Clean, DeleteRows, TypeInv, Place, Chosen
    <2>6. CASE Get(c) \/ Answer(c)
      <3>1. PICK how \in Over : Return(c, how)
        BY <2>6 DEF Get, Answer, Over
      <3> QED
        BY <2>6, <3>1, ReturnType DEF Get, Answer, TypeInv, Chosen
    <2>8. CASE Start(c) \/ Persist(c)
      BY <2>8 DEF Start, Persist, TypeInv, Place, Chosen
    <2> QED
      BY <1>2, <2>1, <2>2, <2>3, <2>4, <2>5, <2>6, <2>7, <2>8 DEF Step
  <1>3. CASE Elsewhere
    BY <1>3 DEF Elsewhere, TypeInv
  <1>4. CASE UNCHANGED vars
    BY <1>4 DEF vars, TypeInv
  <1> QED
    BY <1>1, <1>2, <1>3, <1>4 DEF Next

\* A call that is in alone is the only one that can move, but for arrivals.
LEMMA OthersRest ==
    ASSUME IInv, NEW c \in Caller, NEW d \in Caller \ {c}, Moves(d), c \in alone'
    PROVE  FALSE
  <1>1. Lone(c)
    BY DEF IInv, CallInv
  <1>2. Call(d) => alone' \subseteq {d}
    BY DEF Call
  <1>3. Step(d) => c \in alone /\ pc[d] \notin Over \cup {"idle"}
    BY DEF Step, FindToPurge, Purge, Refuse, StartNew, ResumeFound, Deciding, Sweep, Clean, Get, Start,
       Persist, Answer, Over
  <1> QED
    BY <1>1, <1>2, <1>3 DEF Moves, Lone

\* What the steps of d leave of another call.
LEMMA OwnStep ==
    ASSUME TypeInv, NEW c \in Caller, NEW d \in Caller \ {c}, Moves(d)
    PROVE  pc'[c] = pc[c] /\ opts'[c] = opts[c] /\ new'[c] = new[c] /\ target'[c] = target[c]
           /\ others'[c] = others[c]
  BY DEF TypeInv, Moves, Call, Step, FindToPurge, Purge, Refuse, StartNew, ResumeFound,
         Sweep, Clean, Get, Start, Persist, Answer, Return

\* No row becomes active but by Persist, or beside a call that is in alone no more.
LEMMA ActiveShrinks ==
    ASSUME TypeInv, NEW c \in Caller, Step(c), ~Persist(c)
    PROVE  Active' \subseteq Active
  BY DEF TypeInv, Active, Step, FindToPurge, Purge, Refuse, StartNew, ResumeFound,
         Sweep, Clean, Get, Start, Answer, DeleteRows

LEMMA ActiveElsewhere ==
    ASSUME TypeInv, Elsewhere, alone' # {} PROVE Active' \subseteq Active
  BY DEF TypeInv, Active, Elsewhere

LEMMA DeletedIsGone ==
    ASSUME TypeInv, NEW c \in Caller, DeleteRows(c) PROVE Active' = Active \ others[c]
  BY DEF TypeInv, Active, DeleteRows

\* What a call that arrives, or takes a step, does to what is known of it.
LEMMA ArrivalKeeps ==
    ASSUME IInv, NEW c \in Caller, Call(c) PROVE CallInv(c)'
  <1>1. /\ pc[c] = "idle" /\ pc'[c] = "find" /\ ~new[c] /\ new'[c] = new[c]
        /\ \A d \in Caller \ {c} : pc'[d] = pc[d]
    BY DEF Call, IInv, TypeInv, CallInv, Undecided
  <1>2. c \in alone' => \A d \in Caller : pc[d] \in Over \cup {"idle"}
    BY DEF Call
  <1> QED
    BY <1>1, <1>2 DEF CallInv, Undecided, Decided, Lone, Cleaning, OnlyOne

LEMMA LoneStays ==
    ASSUME IInv, NEW c \in Caller, Step(c) PROVE alone' = alone /\ Lone(c)'
  <1>1. alone' = alone
    BY DEF Step, FindToPurge, Purge, Refuse, StartNew, ResumeFound,
         Sweep, Clean, Get, Start, Persist, Answer
  <1>2. \A d \in Caller \ {c} : pc'[d] = pc[d]
    BY OwnStep DEF IInv, Moves
  <1> QED
    BY <1>1, <1>2 DEF IInv, CallInv, Lone

LEMMA StepKeeps ==
    ASSUME IInv, NEW c \in Caller, Step(c) PROVE CallInv(c)'
  <1>1. alone' = alone /\ Lone(c)' /\ TypeInv /\ CallInv(c)
    BY LoneStays DEF IInv
  <1>2. CASE FindToPurge(c) \/ Purge(c)
    <2>1. pc[c] \in {"find", "purge"} /\ pc'[c] \in {"purge", "decide"} /\ new' = new /\ opts' = opts
      BY <1>1, <1>2 DEF FindToPurge, Purge, TypeInv
    <2> QED
      BY <1>1, <2>1 DEF CallInv, Undecided, Decided, Cleaning, OnlyOne
  <1>3. CASE Refuse(c)
    <2>1. pc'[c] = "rejected"
      BY <1>1, <1>3 DEF Refuse, Return, TypeInv
    <2> QED
      BY <1>1, <2>1 DEF CallInv, Undecided, Decided, Cleaning, OnlyOne, Over
  <1>4. CASE StartNew(c)
    <2>1. /\ pc'[c] \in {"init", "start"} /\ (opts[c].clean => pc'[c] = "init")
          /\ new'[c] = TRUE /\ opts' = opts
      BY <1>1, <1>4 DEF StartNew, TypeInv
    <2>2. opts[c].singleton /\ opts[c].id = NoId => Active = {}
      <3>1. opts[c].id = NoId => Found(c) = Active
        BY DEF Found
      <3> QED
        BY <1>4, <3>1 DEF StartNew, Refuses, SingletonRefuses, StartsNew
    <2>3. UNCHANGED rows
      BY <1>4 DEF StartNew
    <2> QED
      BY <1>1, <2>1, <2>2, <2>3 DEF CallInv, Undecided, Decided, Cleaning, OnlyOne, Active
  <1>5. CASE ResumeFound(c)
    <2>1. pc[c] \in {"find", "decide"} /\ pc'[c] \in {"threw", "resumed", "register", "get"}
          /\ (pc'[c] \in {"register", "get"} =>
                opts' = opts /\ ~opts[c].noreg /\ (opts[c].clean => pc'[c] = "register"))
          /\ new' = new
      BY <1>1, <1>5 DEF ResumeFound, Return, Deciding, TypeInv
    <2> QED
      BY <1>1, <2>1 DEF CallInv, Undecided, Decided, Cleaning, OnlyOne, Over
  <1>6. CASE Sweep(c)
    <2>1. pc[c] \in {"init", "register"} /\ pc'[c] \in {"initClean", "registerClean"} /\ new' = new
          /\ target' = target /\ others'[c] = OthersOf(c) /\ opts' = opts
          /\ (pc'[c] = "initClean" <=> pc[c] = "init")
      BY <1>1, <1>6 DEF Sweep, TypeInv
    <2>2. Active' \subseteq Active
      BY <1>1, <1>6, ActiveShrinks DEF Step, Sweep, Persist
    <2>3. Active \subseteq OthersOf(c) \cup Kept(c)
      BY DEF OthersOf, Kept
    <2>4. Kept(c)' = Kept(c)
      BY <2>1 DEF Kept
    <2> QED
      BY <1>1, <2>1, <2>2, <2>3, <2>4 DEF CallInv, Undecided, Decided, Cleaning, OnlyOne, Over
  <1>7. CASE Clean(c)
    <2>1. pc[c] \in {"initClean", "registerClean"} /\ new' = new /\ target' = target
          /\ opts' = opts
          /\ pc'[c] = IF pc[c] = "initClean" /\ ~opts[c].noreg THEN "register"
                      ELSE IF new[c] THEN "start" ELSE "get"
      BY <1>1, <1>7 DEF Clean, TypeInv
    <2>2. Active' = Active \ others[c]
      BY <1>1, <1>7, DeletedIsGone DEF Clean
    <2>3. Kept(c)' = Kept(c)
      BY <2>1 DEF Kept
    <2> QED
      BY <1>1, <2>1, <2>2, <2>3 DEF CallInv, Undecided, Decided, Cleaning, OnlyOne, Over
  <1>8. CASE Start(c)
    <2>1. pc[c] = "start" /\ pc'[c] = "wait" /\ UNCHANGED <<rows, new, target, opts>>
      BY <1>1, <1>8 DEF Start, TypeInv
    <2>2. new[c] /\ Kept(c) = {} /\ Active' = Active
      BY <1>1, <2>1 DEF CallInv, Decided, Kept, Active
    <2> QED
      BY <1>1, <2>1, <2>2 DEF CallInv, Undecided, Decided, Cleaning, OnlyOne, Over
  <1>9. CASE Persist(c)
    <2>1. pc[c] = "wait" /\ UNCHANGED <<pc, new, target, opts>>
      BY <1>9 DEF Persist
    <2>2. Active' \subseteq Active \cup {target[c]}
      BY <1>1, <1>9 DEF Persist, Active, TypeInv
    <2> QED
      BY <1>1, <2>1, <2>2 DEF CallInv, Undecided, Decided, Cleaning, OnlyOne, Over
  <1>10. CASE Get(c) \/ Answer(c)
    <2>1. pc'[c] \in {"threw", "resumed", "started"}
      BY <1>1, <1>10 DEF Get, Answer, Return, TypeInv
    <2> QED
      BY <1>1, <2>1 DEF CallInv, Undecided, Decided, Cleaning, OnlyOne, Over
  <1> QED
    BY <1>2, <1>3, <1>4, <1>5, <1>6, <1>7, <1>8, <1>9, <1>10 DEF Step

LEMMA Inductive == IInv /\ [Next]_vars => IInv'
  <1> SUFFICES ASSUME IInv, [Next]_vars PROVE IInv'
    OBVIOUS
  <1>1. TypeInv'
    BY TypeStep DEF IInv
  <1>2. ASSUME NEW c \in Caller, NEW d \in Caller, Moves(d) PROVE CallInv(c)'
    <2>1. CASE c = d
      BY <1>2, <2>1, ArrivalKeeps, StepKeeps DEF Moves
    <2>2. CASE c # d
      <3>1. /\ pc'[c] = pc[c] /\ opts'[c] = opts[c] /\ new'[c] = new[c]
            /\ target'[c] = target[c] /\ c \notin alone'
        BY <1>2, <2>2, OwnStep, OthersRest DEF IInv
      <3> QED
        BY <3>1 DEF IInv, CallInv, Undecided, Decided, Lone, Cleaning, OnlyOne
    <2> QED
      BY <2>1, <2>2
  <1>3. ASSUME NEW c \in Caller, Elsewhere \/ UNCHANGED vars PROVE CallInv(c)'
    <2>1. UNCHANGED <<pc, opts, target, new, others>> /\ alone' \subseteq alone
      BY <1>3 DEF Elsewhere, vars
    <2>2. alone' # {} => Active' \subseteq Active
      BY <1>3, ActiveElsewhere DEF vars, Active, IInv
    <2>3. Kept(c)' = Kept(c)
      BY <2>1 DEF Kept
    <2>4. Undecided(c)' /\ Decided(c)' /\ Lone(c)'
      BY <2>1 DEF IInv, CallInv, Undecided, Decided, Lone
    <2> QED
      BY <2>1, <2>2, <2>3, <2>4 DEF IInv, CallInv, Cleaning, OnlyOne
  <1> QED
    BY <1>1, <1>2, <1>3 DEF IInv, Next, Moves
LEMMA InitInv == Init => IInv
  <1> SUFFICES ASSUME Init PROVE IInv
    OBVIOUS
  <1>1. TypeInv
    BY DEF Init, TypeInv, Active, Place, Chosen, Option, NoOpts
  <1> QED
    BY <1>1 DEF Init, IInv, CallInv, Undecided, Decided, Lone, Cleaning, OnlyOne

(* What the calls of interpreterStartOrResume hold at each of their steps, *)
(* however they overlap: the types, that an instance is chosen before it   *)
(* is started or resumed, and, for a call that met no other, what is left  *)
(* active once it has cleaned up or passed the singleton check.            *)
THEOREM InductiveInvariant == Spec => []IInv
  BY InitInv, Inductive, PTL DEF Spec
-----------------------------------------------------------------------------
\* A call is answered by its own step: another one's would end alone.
LEMMA AnsweredMoves ==
    ASSUME IInv, [Next]_vars, NEW c \in Caller, Answered(c)
    PROVE  /\ \/ Get(c) /\ rows[target[c]] # "absent"
              \/ ResumeFound(c) /\ opts[c].noreg
              \/ Answer(c)
           /\ Active' = Active
  <1>1. pc'[c] \in {"started", "resumed"} /\ pc'[c] # pc[c]
    BY DEF Answered, Over
  <1>2. Moves(c)
    <2>1. ASSUME NEW d \in Caller \ {c}, Moves(d) PROVE FALSE
      BY <1>1, <2>1, OwnStep DEF IInv
    <2>2. ~Elsewhere /\ ~UNCHANGED vars
      BY <1>1 DEF Elsewhere, vars
    <2> QED
      BY <2>1, <2>2 DEF Next, Moves
  <1>3. \/ Get(c) /\ rows[target[c]] # "absent"
        \/ ResumeFound(c) /\ opts[c].noreg
        \/ Answer(c)
    BY <1>1, <1>2 DEF Moves, Call, Step, FindToPurge, Purge, Refuse, StartNew, ResumeFound, Sweep, Clean,
       Get, Start, Persist, Return, IInv, TypeInv
  <1>4. UNCHANGED rows
    BY <1>3 DEF Get, ResumeFound, Answer
  <1> QED
    BY <1>3, <1>4 DEF Active

(* A call with cleanupAllOtherInstances that meets no other leaves none    *)
(* but its own instance active, and what it resumes is still there, for    *)
(* any number of instances, whatever calls overlapped before it. A new     *)
(* instance may go without registration, one that is resumed may not.      *)
THEOREM CleanCallsAlways == Spec => CleanCallLeavesItsOwn
  <1>1. IInv /\ [Next]_vars =>
            [\A c \in Caller : Answered(c) /\ opts[c].clean /\ (new[c] \/ ~opts[c].noreg) =>
                /\ Active' \subseteq {target'[c]}
                /\ ~new[c] => rows'[target'[c]] # "absent"]_vars
    <2> SUFFICES ASSUME IInv, [Next]_vars, NEW c \in Caller, Answered(c), opts[c].clean,
                        new[c] \/ ~opts[c].noreg
                 PROVE  /\ Active' \subseteq {target'[c]}
                        /\ ~new[c] => rows'[target'[c]] # "absent"
      OBVIOUS
    <2>1. TypeInv /\ Undecided(c) /\ Decided(c) /\ Cleaning(c) /\ c \in alone /\ Active' = Active
      BY AnsweredMoves DEF IInv, CallInv, Answered
    <2>2. CASE Get(c) /\ rows[target[c]] # "absent"
      <3>1. UNCHANGED <<rows, target>>
        BY <2>2 DEF Get
      <3>2. ~new[c] /\ Active \subseteq {target[c]}
        BY <2>1, <2>2 DEF Get, Decided, Cleaning, Kept
      <3> QED
        BY <2>1, <2>2, <3>1, <3>2
    <2>3. CASE ResumeFound(c) /\ opts[c].noreg
      BY <2>1, <2>3 DEF ResumeFound, Deciding, Undecided
    <2>4. CASE Answer(c)
      BY <2>1, <2>4 DEF Answer, Decided, Cleaning
    <2> QED
      BY <2>2, <2>3, <2>4, AnsweredMoves
  <1> QED
    BY <1>1, InductiveInvariant, PTL DEF Spec, CleanCallLeavesItsOwn

(* A call without an id that asks for the singleton check and meets no     *)
(* other starts a machine only where no instance is active, for any number *)
(* of instances and whatever calls overlapped before it.                   *)
THEOREM SingletonsAlways == Spec => SingletonStartsAlone
  <1>1. IInv /\ [Next]_vars =>
            [\A c \in Caller : Answered(c) /\ new[c] /\ opts[c].singleton /\ opts[c].id = NoId =>
                Active' \subseteq {target'[c]}]_vars
    <2> SUFFICES ASSUME IInv, [Next]_vars, NEW c \in Caller, Answered(c), new[c], opts[c].singleton,
                        opts[c].id = NoId
                 PROVE  Active' \subseteq {target'[c]}
      OBVIOUS
    <2>1. Undecided(c) /\ Decided(c) /\ OnlyOne(c) /\ c \in alone /\ Active' = Active
      BY AnsweredMoves DEF IInv, CallInv, Answered
    <2>2. Answer(c)
      BY <2>1, AnsweredMoves DEF Get, ResumeFound, Deciding, Undecided, Decided
    <2> QED
      BY <2>1, <2>2 DEF Answer, OnlyOne, Over
  <1> QED
    BY <1>1, InductiveInvariant, PTL DEF Spec, SingletonStartsAlone
=============================================================================
