--------------------------- MODULE Oid4vpExchange ---------------------------
(***************************************************************************)
(* The exchange of a presentation: runs of the wallet's SIOPv2 machine     *)
(* (siopv2-oid4vp-op-auth) against the verifier of RelyingParty, while     *)
(* editors change the definition the verifier asks for.                    *)
(*                                                                         *)
(* A link is the request a page shows. Opening it starts a run, or, in a   *)
(* wallet that saves the state of its machines, resumes the one that was   *)
(* saved, whatever request that one is for.                                *)
(***************************************************************************)
EXTENDS RelyingParty

CONSTANT Scenes    \* bounds: what takes part, and how much may go wrong

(* A scene: the pages and the runs there are; whether the wallet saves its *)
(* machines, and what it knows of the verifier; the version, if any, that  *)
(* the relying party's options name; the modes in which the definition is  *)
(* persisted, if it is edited; the bound on crashes of either side and     *)
(* edits of the definition, together.                                      *)
Scene == [pages : SUBSET Request, runs : SUBSET Run, saving : BOOLEAN,
          contacts : SUBSET {"none", "name", "host"}, version : Named \cup {None},
          modes : SUBSET Mode, incidents : Nat]

ASSUME ExchangeAssumption ==
    /\ Scenes \subseteq Scene
    /\ None \notin Run \cup Request /\ Run \cap Request = {}

VARIABLES scene,     \* the scene that is played
          st,        \* the state each run is in, "idle" before it starts
          at,        \* how far it is in that state; "stuck" when nothing will come
          ctx,       \* the machine's context
          rows,      \* the saved state of each flow
          opSession, \* the flows whose OP session is in the wallet's memory
          contact,   \* the identity of the verifier's contact: its host, only its name, none
          consents,  \* history: how often a user chose credentials for a request
          crashes    \* how often either process died

walletVars == <<st, at, ctx, rows, opSession, contact, consents>>
vars == <<scene, walletVars, crashes, verifierVars, definitionVars>>

NoContext == [flow |-> None, req |-> None, asked |-> None, known |-> FALSE]
NoRow == [st |-> "idle", ctx |-> NoContext]

Waiting == {"selectCredentials", "handleError"}
Invoking == {"createConfig", "getSiopRequest", "retrieveContact", "addContact",
             "getSelectableCredentials", "sendResponse"}
Final == {"aborted", "declined", "error", "done"}

Init ==
    /\ InitDefinitions /\ InitVerifier
    /\ scene \in Scenes
    /\ st = [w \in Run |-> "idle"]
    /\ at = [w \in Run |-> "begin"]
    /\ ctx = [w \in Run |-> NoContext]
    /\ rows = [w \in Run |-> NoRow]
    /\ opSession = {}
    /\ contact \in scene.contacts
    /\ consents = [r \in Request |-> 0]
    /\ crashes = 0

GoWith(w, s, c) ==
    /\ st' = [st EXCEPT ![w] = s]
    /\ at' = [at EXCEPT ![w] = "begin"]
    /\ ctx' = [ctx EXCEPT ![w] = c]

Go(w, s) == GoWith(w, s, ctx[w])

In(w, s, step) == st[w] = s /\ at[w] = step
Alone == UNCHANGED <<scene, crashes, verifierVars, definitionVars>>
MayHappen == crashes + edited < scene.incidents
-----------------------------------------------------------------------------
(* Links.                                                                  *)
Saved == {f \in Run : rows[f].st # "idle"}

\* Bound: there is one saved state at most, a second would refuse the link.
OpenLink(w) ==
    /\ st[w] = "idle" /\ w \in scene.runs
    /\ \E r \in Request :
          /\ told[r] # "none"
          /\ Saved = {} /\ GoWith(w, "createConfig", [NoContext EXCEPT !.flow = w, !.req = r])
    /\ UNCHANGED <<rows, opSession, contact, consents>> /\ Alone

\* A slip in the next operator: the service that was under way starts again.
ResumeAndRepeat(w) ==
    /\ st[w] = "idle" /\ w \in scene.runs
    /\ \E r \in Request : told[r] # "none"
    /\ \E f \in Saved :
          /\ Saved = {f}
          /\ GoWith(w, rows[f].st, rows[f].ctx)
    /\ UNCHANGED <<rows, opSession, contact, consents>> /\ Alone

\* Services that were running when the state was saved do not start again.
ResumeForLink(w) ==
    /\ st[w] = "idle" /\ w \in scene.runs
    /\ \E r \in Request : told[r] # "none"
    /\ \E f \in Saved :
          /\ Saved = {f}
          /\ st' = [st EXCEPT ![w] = rows[f].st]
          /\ ctx' = [ctx EXCEPT ![w] = rows[f].ctx]
          /\ at' = [at EXCEPT ![w] = IF rows[f].st \in Invoking THEN "stuck" ELSE "begin"]
    /\ UNCHANGED <<rows, opSession, contact, consents>> /\ Alone

\* A transition is saved some time later; a final state removes the row.
\* Bound: only while a run is left that may read the row.
SaveState(w) ==
    /\ scene.saving /\ \E q \in scene.runs : st[q] = "idle"
    /\ st[w] \in Waiting \cup Invoking \cup Final
    /\ rows' = [rows EXCEPT ![ctx[w].flow] =
                  IF st[w] \in Final THEN NoRow ELSE [st |-> st[w], ctx |-> ctx[w]]]
    /\ rows' # rows
    /\ UNCHANGED <<st, at, ctx, opSession, contact, consents>> /\ Alone

StopWallet ==
    /\ MayHappen
    /\ \E w \in Run : st[w] \notin {"idle", "dead"} \cup Final
    /\ crashes' = crashes + 1
    /\ st' = [w \in Run |-> IF st[w] \in {"idle"} \cup Final THEN st[w] ELSE "dead"]
    /\ at' = [w \in Run |-> "begin"]
    /\ opSession' = {}
    /\ UNCHANGED <<ctx, rows, contact, consents, scene, verifierVars, definitionVars>>
-----------------------------------------------------------------------------
(* The services of a run, in their order.                                  *)
CreateConfig(w) ==
    /\ In(w, "createConfig", "begin")
    /\ Go(w, "getSiopRequest")
    /\ UNCHANGED <<rows, opSession, contact, consents>> /\ Alone

\* The run calls the verifier and waits for its reply.
Wait(w) ==
    /\ at' = [at EXCEPT ![w] = "waiting"]
    /\ UNCHANGED <<st, ctx, rows, opSession, contact, consents, scene, crashes, definitionVars>>

\* The reply to a call, or that there will be none.
Hear(w) ==
    /\ at[w] = "waiting"
    /\ call[w].at \in {"served", "accepted", "refused", "idle"}
    /\ End(w)
    /\ UNCHANGED <<scene, crashes, rp, session, marking, told, answers, definitionVars>>

GetSiopRequest(w) ==
    /\ In(w, "getSiopRequest", "begin")
    /\ Arrive(w, "fetch", ctx[w].req) /\ Wait(w)

ReceiveRequest(w) ==
    /\ In(w, "getSiopRequest", "waiting") /\ Hear(w)
    /\ IF call[w].at = "served"
       THEN /\ GoWith(w, "retrieveContact", [ctx[w] EXCEPT !.asked = call[w].seen])
            /\ opSession' = opSession \cup {ctx[w].flow}
       ELSE Go(w, "handleError") /\ UNCHANGED opSession
    /\ UNCHANGED <<rows, contact, consents>>

\* Of the definitions of a request: there is a list of them, if an empty one.
AfterSetup(c) == IF ~c.known THEN "addContact" ELSE "getSelectableCredentials"

RetrieveContact(w) ==
    /\ In(w, "retrieveContact", "begin")
    /\ LET c == [ctx[w] EXCEPT !.known = contact = "host"] IN GoWith(w, AfterSetup(c), c)
    /\ UNCHANGED <<rows, opSession, contact, consents>> /\ Alone

(* The wallet adds the contact by itself. A contact's name is unique: when *)
(* there is one the run is not told, and the page shows that it is loading.*)
AddContact(w) ==
    /\ In(w, "addContact", "begin")
    /\ IF contact = "none"
       THEN /\ LET c == [ctx[w] EXCEPT !.known = TRUE] IN GoWith(w, AfterSetup(c), c)
            /\ contact' = "host"
       ELSE at' = [at EXCEPT ![w] = "stuck"] /\ UNCHANGED <<st, ctx, contact>>
    /\ UNCHANGED <<rows, opSession, consents>> /\ Alone

GetSelectableCredentials(w) ==
    /\ In(w, "getSelectableCredentials", "begin")
    /\ Go(w, IF ctx[w].asked = None THEN "handleError" ELSE "selectCredentials")
    /\ UNCHANGED <<rows, opSession, contact, consents>> /\ Alone

\* The user chooses credentials and goes on.
SelectCredentials(w) ==
    /\ In(w, "selectCredentials", "begin")
    /\ Go(w, "sendResponse")
    /\ consents' = [consents EXCEPT ![ctx[w].req] = @ + 1]
    /\ UNCHANGED <<rows, opSession, contact>> /\ Alone

SendResponse(w) ==
    /\ In(w, "sendResponse", "begin")
    /\ ctx[w].flow \in opSession
    /\ ArriveWithAnswer(w, ctx[w].req, ctx[w].asked) /\ Wait(w)

SendWithoutSession(w) ==
    /\ In(w, "sendResponse", "begin")
    /\ ctx[w].flow \notin opSession /\ Go(w, "handleError")
    /\ UNCHANGED <<rows, opSession, contact, consents>> /\ Alone

ReceiveVerdict(w) ==
    /\ In(w, "sendResponse", "waiting") /\ Hear(w)
    /\ Go(w, IF call[w].at = "accepted" THEN "done" ELSE "handleError")
    /\ UNCHANGED <<rows, opSession, contact, consents>>

\* The network fails; the verifier goes on with the call.
GiveUp(w) ==
    /\ at[w] = "waiting"
    /\ Go(w, "handleError")
    /\ UNCHANGED <<rows, opSession, contact, consents>> /\ Alone

\* What the user does apart from choosing credentials.
GoBack(w) ==
    /\ at[w] = "begin"
    /\ \/ st[w] = "selectCredentials" /\ (Go(w, "declined") \/ Go(w, "aborted"))
       \/ st[w] = "handleError" /\ Go(w, "error")
    /\ UNCHANGED <<rows, opSession, contact, consents>> /\ Alone

Service(w) ==
    \/ CreateConfig(w) \/ GetSiopRequest(w) \/ ReceiveRequest(w)
    \/ RetrieveContact(w) \/ AddContact(w) \/ GetSelectableCredentials(w)
    \/ SendResponse(w) \/ SendWithoutSession(w) \/ ReceiveVerdict(w)

UserActs(w) == OpenLink(w) \/ ResumeForLink(w) \/ SelectCredentials(w) \/ GoBack(w) \/ GiveUp(w)
-----------------------------------------------------------------------------
(* Editing. Agents import definitions without a version when they start,   *)
(* in mode AutoIncrement; callers of the other modes may name one.         *)
Edit ==
    /\ MayHappen
    /\ \/ \E e \in Editor, p \in Payload, m \in scene.modes, v \in {None} \cup Named :
             (scene.pages # {} => v = None) /\ BeginPersist(e, m, v, p)
       \/ scene.modes # {} /\ DeleteDefinition
    /\ UNCHANGED <<scene, walletVars, crashes, verifierVars>>

GoOnEditing(e) == Maintain(e) /\ UNCHANGED <<scene, walletVars, crashes, verifierVars>>

Serve(c) == GoOn(c, scene.version) /\ UNCHANGED <<scene, walletVars, crashes, definitionVars>>
Mark(r) == MarkSent(r) /\ UNCHANGED <<scene, walletVars, crashes, definitionVars>>
Visit(r) == UsePage(r) /\ UNCHANGED <<scene, walletVars, crashes, definitionVars>>

CrashVerifier ==
    /\ MayHappen /\ StopVerifier
    /\ crashes' = crashes + 1
    /\ UNCHANGED <<scene, walletVars, definitionVars>>

Next ==
    \/ \E w \in Run : UserActs(w) \/ Service(w) \/ SaveState(w)
    \/ \E c \in Caller : Serve(c)
    \/ \E r \in scene.pages : Visit(r)
    \/ \E r \in Request : Mark(r)
    \/ \E e \in Editor : GoOnEditing(e)
    \/ Edit \/ StopWallet \/ CrashVerifier

(* A service of a run goes on, with the call it has made, as do the marks; *)
(* users, pages, editors, failures and saving are free.                    *)
Fairness ==
    /\ \A w \in Run : WF_vars(Service(w) \/ Serve(w))
    /\ WF_vars(\E r \in Request : Mark(r))

Spec == Init /\ [][Next]_vars /\ Fairness
-----------------------------------------------------------------------------
TypeOK ==
    /\ VerifierTypeOK
    /\ scene \in Scenes
    /\ \A w \in Run :
          /\ st[w] \in {"idle", "dead"} \cup Waiting \cup Invoking \cup Final
          /\ at[w] \in {"begin", "waiting", "stuck"}
          /\ ctx[w].asked \in Payload \cup {None}
          /\ st[w] # "idle" => ctx[w].flow \in Run /\ ctx[w].req \in Request
    /\ \A f \in Run : rows[f].st # "idle" => scene.saving /\ rows[f].ctx.flow = f
    /\ opSession \subseteq Run
    /\ contact \in {"none", "name", "host"}

(* The verifier turns an honest answer away only if the definition changed *)
(* since it was read for the requests, or has two rows of one version, or  *)
(* the options of the relying party name a version that is not the highest.*)
(* (It reads the definition again for each answer, in the highest version.)*)
Outdated(version) == version # None /\ \E i \in items : i.version > version

RefusedOnlyIfChanged ==
    \A r \in Request : session[r] # None /\ session[r].resp = "error" =>
        rp.at < changes \/ Cardinality(Served) > 1 \/ Outdated(rp.version)

\* The verifier gets no more answers to a request than the user consented to.
AnswersAreConsented == \A r \in Request : answers[r] <= consents[r]

Progress == <<"none", "created", "sent", "received", "verified">>
Rank(s) == IF s = "error" THEN 5 ELSE CHOOSE i \in 1..5 : Progress[i] = s

(* The status that a page polls never goes back, before and after the late *)
(* mark: unless a second answer came in, or the request is gone.           *)
PolledForward ==
    [][\A r \in Request :
          told'[r] = told[r] \/ told'[r] = "gone" \/ answers[r] > 1 \/ session[r] = None
          \/ (told[r] # "gone" /\ Rank(told'[r]) > Rank(told[r]))]_vars

(* What the wallet saw accepted the page will be told: in the end a poll   *)
(* finds the request sent and verified, unless it is gone by then or is    *)
(* answered again.                                                         *)
AcceptedIsReported ==
    \A r \in Request :
        (\E w \in Run : st[w] = "done" /\ ctx[w].req = r) ~>
            \/ session[r] = None
            \/ session[r].req = "sent" /\ session[r].resp = "verified"
            \/ answers[r] > 1

(* No run hangs: in the end the user has something to do, or it is over.   *)
(* Except that services do not run again when a run is resumed, and that a *)
(* contact whose name is taken is not handled.                             *)
PresentationGoesOn ==
    \A w \in Run :
        st[w] \in Invoking ~>
            \/ st[w] \in Waiting \cup Final \cup {"dead"}
            \/ at[w] = "stuck" /\ (st[w] = "addContact" \/ ctx[w].flow # w)

(* An AutoIncrement persist that no other edit overlaps is what is served  *)
(* when it is done. Except that a version the caller names and that is not *)
(* there is added as it is; and except once a version has two digits: then *)
(* the highest of the text order is 9, and 10 is made again and again.     *)
AutoIncrementIsServed ==
    [][\A e \in Editor :
          LET c == editor[e] IN
          /\ c.at = "write" /\ c.mode = "AutoIncrement" /\ c.alone /\ editor'[e].at = "idle"
          /\ c.version = None \/ c.existing # None
          /\ \A i \in items : i.version < 10
          => Served' = {c.payload}]_vars
-----------------------------------------------------------------------------
Status(r) ==
    IF told[r] = "none" THEN "none"
    ELSE IF session[r] = None THEN "gone"
    ELSE IF session[r].resp = "none" THEN "made"
    ELSE session[r].resp

Presentation == INSTANCE CredentialPresentation
                  WITH status <- [r \in Request |-> Status(r)],
                       consented <- {r \in Request : consents[r] > 0}

\* The exchange keeps its promise, whatever is lost, repeated or changed.
ImplementsPresentation == Presentation!Spec
=============================================================================
