---------------------------- MODULE RelyingParty ----------------------------
(***************************************************************************)
(* The verifier: the agent's relying party for one presentation definition *)
(* (siopv2-oid4vp-rp-auth), and the calls that web pages and wallets make  *)
(* on its REST endpoints (siopv2-oid4vp-rp-rest-api). Each request is made *)
(* by a page of its own, which then polls its status.                      *)
(*                                                                         *)
(* The relying party is built by the first calls that need it and lives in *)
(* memory, with its sessions. A call is in steps: it waits for the         *)
(* database, for a build, for a verification; what it does between two     *)
(* waits is one step.                                                      *)
(***************************************************************************)
EXTENDS PresentationDefinitions

CONSTANTS Request,    \* the requests, each with the page that makes it
          Run         \* the runs of wallets, see Oid4vpExchange

Party == [version : Named \cup {None}, def : Payload \cup {None}, at : 0..Edits]
Session == [req : {"created", "sent"}, resp : {"none", "received", "verified", "error"}]

ASSUME PartyAssumption == None \notin Party \cup Session

VARIABLES rp,        \* the relying party: the version it is for, its definition, when that was read
          session,   \* what its session manager knows of a request
          call,      \* the call a page or a wallet has made
          marking,   \* the requests that were handed out, not yet marked so
          told,      \* what the page of a request was told last
          answers    \* history: the answers the relying party took up

verifierVars == <<rp, session, call, marking, told, answers>>

Caller == Request \cup Run

Silent == [op |-> "none", req |-> None, at |-> "idle", vp |-> None, seen |-> None, def |-> None]

NoSessions == [r \in Request |-> None]

InitVerifier ==
    /\ rp = None
    /\ session = NoSessions
    /\ call = [c \in Caller |-> Silent]
    /\ marking = {}
    /\ told = [r \in Request |-> "none"]
    /\ answers = [r \in Request |-> 0]

OrNone(S) == IF S = {} THEN {None} ELSE S

To(c, k, step) == call' = [call EXCEPT ![c] = [k EXCEPT !.at = step]]
Reply(c, outcome, seen) == call' = [call EXCEPT ![c] = [Silent EXCEPT !.at = outcome, !.seen = seen]]
End(c) == call' = [call EXCEPT ![c] = Silent]
Tell(c, status) == told' = [told EXCEPT ![c] = status] /\ End(c)
-----------------------------------------------------------------------------
(* What the handlers do for the call k of caller c, with the relying party *)
(* p and its sessions ss.                                                  *)
Create(c, k, ss) ==
    /\ k.op = "create"
    /\ session' = [ss EXCEPT ![c] = [req |-> "created", resp |-> "none"]]
    /\ Tell(c, "created")
    /\ UNCHANGED <<marking, answers>>

\* The state of the response is looked up once the request was fetched.
Poll(c, k, ss) ==
    /\ k.op = "poll"
    /\ session' = ss
    /\ \/ ss[c] = None /\ Tell(c, "gone")
       \/ ss[c] # None /\ ss[c].req = "created" /\ Tell(c, "created")
       \/ ss[c] # None /\ ss[c].req = "sent" /\ To(c, k, "look") /\ UNCHANGED told
    /\ UNCHANGED <<marking, answers>>

Delete(c, k, ss) ==
    /\ k.op = "delete"
    /\ session' = [ss EXCEPT ![c] = None]
    /\ End(c)
    /\ UNCHANGED <<marking, told, answers>>

\* A slip in the next operator: a request that is handed out is not marked.
FetchUnmarked(c, k, p, ss) ==
    /\ k.op = "fetch"
    /\ session' = ss
    /\ IF ss[k.req] = None THEN Reply(c, "refused", None) ELSE Reply(c, "served", p.def)
    /\ UNCHANGED <<marking, told, answers>>

\* The reply comes first; the request is marked as sent thereafter.
Fetch(c, k, p, ss) ==
    /\ k.op = "fetch"
    /\ session' = ss
    /\ IF ss[k.req] = None
       THEN Reply(c, "refused", None) /\ UNCHANGED marking
       ELSE Reply(c, "served", p.def) /\ marking' = marking \cup {k.req}
    /\ UNCHANGED <<told, answers>>

\* A slip in the next operator: no reply when the session is not there.
ReceiveSilently(c, k, ss) ==
    /\ k.op = "answer"
    /\ LET r == k.req IN
       IF ss[r] = None
       THEN session' = ss /\ To(c, k, "lost") /\ UNCHANGED answers
       ELSE /\ session' = [ss EXCEPT ![r].resp = "received"]
            /\ answers' = [answers EXCEPT ![r] = @ + 1]
            /\ To(c, k, "verdict")
    /\ UNCHANGED <<marking, told>>

Receive(c, k, ss) ==
    /\ k.op = "answer"
    /\ LET r == k.req IN
       IF ss[r] = None
       THEN session' = ss /\ Reply(c, "refused", None) /\ UNCHANGED answers
       ELSE /\ session' = [ss EXCEPT ![r].resp = "received"]
            /\ answers' = [answers EXCEPT ![r] = @ + 1]
            /\ To(c, k, "verdict")
    /\ UNCHANGED <<marking, told>>

Handle(c, k, p, ss) ==
    Create(c, k, ss) \/ Poll(c, k, ss) \/ Delete(c, k, ss) \/ Fetch(c, k, p, ss) \/ Receive(c, k, ss)
-----------------------------------------------------------------------------
(* Getting the relying party. Calls that find none build one each, and the *)
(* last to finish stays, with sessions of its own.                         *)
Reach(c, k) ==
    IF rp = None
    THEN To(c, k, "missing") /\ UNCHANGED <<session, marking, told, answers>>
    ELSE Handle(c, k, rp, session)

\* The options of the relying party may name a version of the definition.
ReadForParty(c, version) ==
    /\ call[c].at = "missing"
    /\ \E d \in OrNone(ServedOf(version)) :
          call' = [call EXCEPT ![c].at = "building",
                               ![c].def = [version |-> version, def |-> d, at |-> changes]]
    /\ UNCHANGED <<rp, session, marking, told, answers>>

Build(c) ==
    /\ call[c].at = "building"
    /\ rp' = call[c].def
    /\ Handle(c, [call[c] EXCEPT !.def = None], call[c].def, NoSessions)

(* A call comes in. An answer is verified against the definition that is   *)
(* served by then, in its highest version, whatever was asked for.         *)
Arrive(c, op, r) ==
    /\ call[c].at = "idle"
    /\ Reach(c, [Silent EXCEPT !.op = op, !.req = r])
    /\ UNCHANGED rp

\* A slip in the next operator: the lowest version is taken.
ArriveAtOldest(c, r, vp) ==
    /\ call[c].at = "idle"
    /\ \E i \in LowestOf(items) :
          IF i = None THEN Reply(c, "refused", None)
          ELSE call' = [call EXCEPT ![c] = [Silent EXCEPT !.op = "answer", !.req = r, !.at = "party",
                                            !.vp = vp, !.seen = i.payload]]
    /\ UNCHANGED <<rp, session, marking, told, answers>>

ArriveWithAnswer(c, r, vp) ==
    /\ call[c].at = "idle"
    /\ \E d \in OrNone(Served) :
          IF d = None THEN Reply(c, "refused", None)
          ELSE call' = [call EXCEPT ![c] = [Silent EXCEPT !.op = "answer", !.req = r, !.at = "party",
                                            !.vp = vp, !.seen = d]]
    /\ UNCHANGED <<rp, session, marking, told, answers>>

Proceed(c) == call[c].at = "party" /\ Reach(c, call[c]) /\ UNCHANGED rp

GiveVerdict(c) ==
    LET r == call[c].req
        right == call[c].vp = call[c].seen IN
    /\ call[c].at = "verdict"
    /\ session' = IF session[r] = None THEN session
                  ELSE [session EXCEPT ![r].resp = IF right THEN "verified" ELSE "error"]
    /\ Reply(c, IF right THEN "accepted" ELSE "refused", None)
    /\ UNCHANGED <<rp, marking, told, answers>>

LookAtResponse(c) ==
    /\ call[c].at = "look"
    /\ Tell(c, IF session[c] = None \/ session[c].resp = "none" THEN "sent" ELSE session[c].resp)
    /\ UNCHANGED <<rp, session, marking, answers>>

\* A slip in the next operator: the entry of the request is made anew.
MarkAnew(r) ==
    /\ r \in marking
    /\ marking' = marking \ {r}
    /\ session' = IF session[r] = None THEN session
                  ELSE [session EXCEPT ![r].req = "sent", ![r].resp = "none"]
    /\ UNCHANGED <<rp, call, told, answers>>

\* A slip in the next operator: the session of a deleted request comes back.
MarkDeleted(r) ==
    /\ r \in marking
    /\ marking' = marking \ {r}
    /\ session' = [session EXCEPT ![r] = IF @ = None
                      THEN [req |-> "sent", resp |-> "none"]
                      ELSE [@ EXCEPT !.req = "sent"]]
    /\ UNCHANGED <<rp, call, told, answers>>

MarkSent(r) ==
    /\ r \in marking
    /\ marking' = marking \ {r}
    /\ session' = IF session[r] = None THEN session ELSE [session EXCEPT ![r].req = "sent"]
    /\ UNCHANGED <<rp, call, told, answers>>

GoOn(c, version) ==
    Proceed(c) \/ ReadForParty(c, version) \/ Build(c) \/ GiveVerdict(c) \/ LookAtResponse(c)

\* The page of a request: it makes the request, polls, and may take it back.
UsePage(r) ==
    \/ told[r] = "none" /\ Arrive(r, "create", r)
    \/ told[r] \notin {"none", "gone"} /\ (Arrive(r, "poll", r) \/ Arrive(r, "delete", r))

\* A slip in the next operator: the sessions stay.
StopWithSessions ==
    /\ rp # None
    /\ rp' = None
    /\ call' = [c \in Caller |-> IF call[c].at \in {"served", "accepted", "refused"}
                                 THEN call[c] ELSE Silent]
    /\ marking' = {}
    /\ UNCHANGED <<session, told, answers>>

\* The process dies; the replies that are out arrive.
StopVerifier ==
    /\ rp # None
    /\ rp' = None
    /\ session' = NoSessions
    /\ call' = [c \in Caller |-> IF call[c].at \in {"served", "accepted", "refused"}
                                 THEN call[c] ELSE Silent]
    /\ marking' = {}
    /\ UNCHANGED <<told, answers>>

VerifierTypeOK ==
    /\ DefinitionsTypeOK
    /\ rp \in Party \cup {None}
    /\ \A c \in Caller :
          /\ call[c].op \in {"none", "create", "poll", "delete", "fetch", "answer"}
          /\ call[c].at \in {"idle", "party", "missing", "building", "look",
                             "verdict", "served", "accepted", "refused"}
          /\ {call[c].vp, call[c].seen} \subseteq Payload \cup {None}
          /\ call[c].def \in Party \cup {None}
    /\ \A r \in Request : session[r] # None => rp # None /\ session[r] \in Session
    /\ marking \subseteq {r \in Request : told[r] # "none"}
    /\ \A r \in Request : told[r] \in {"none", "created", "sent", "received", "verified",
                                       "error", "gone"}
=============================================================================
