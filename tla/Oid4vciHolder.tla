---------------------------- MODULE Oid4vciHolder ----------------------------
(***************************************************************************)
(* The OID4VCI holder (oid4vci-holder): the state machine that takes a     *)
(* user through a credential offer, and the agent services it invokes, on  *)
(* the wallet's contacts, brandings and credentials.                       *)
(*                                                                         *)
(* A run is an interpreter of the machine. Links start runs: an offer a    *)
(* fresh one, a redirect from an authorization server one that goes on     *)
(* from the saved state, whether or not the run that saved it still lives. *)
(* Transitions without an event are part of the step that leads to them;   *)
(* the calls a service makes on the stores are steps of their own.         *)
(***************************************************************************)
EXTENDS ContactStore

CONSTANTS Run,        \* interpreters; the run that starts a flow names the flow
          Config,     \* the credential configurations of an issuer, numbers
          Offer,      \* the offers that reach the wallet
          None,       \* no run, no offer
          Incidents   \* bound on crashes, edits of contacts and deletions, together

(* An offer: the configurations in it, the grants it asks for, what its    *)
(* credentials name as their issuer, and what the metadata provide.        *)
OfferType == [choices : SUBSET Config, pin : BOOLEAN, auth : BOOLEAN,
              issuer : Ident \cup {"url"}, named : BOOLEAN, branded : BOOLEAN,
              notify : BOOLEAN]

ASSUME HolderAssumption ==
    /\ Config \subseteq Nat /\ IsFiniteSet(Config)
    /\ Offer \subseteq OfferType
    /\ \A o \in Offer : o.choices # {}
    /\ None \notin Run \cup Offer
    /\ Incidents \in Nat

VARIABLES st,        \* the state each run is in, "idle" before it starts
          at,        \* how far it is in that state; "stuck" when nothing will come
          ctx,       \* the machine's context
          todo,      \* what the service in progress has found, or has left to do
          rows,      \* the saved state of each flow
          browser,   \* the flows whose authorization server will redirect
          brands,    \* the identities that have an issuer branding
          branded,   \* the credentials that have a branding
          stored,    \* the credentials in the wallet
          deleting,  \* the credential whose branding is gone and that goes next
          gone,      \* history: the credentials the user asked to delete
          told,      \* how often an issuer heard that a credential was accepted
          crashes,   \* how often the process died
          edits      \* how many edits of a contact were begun

holderVars == <<st, at, ctx, todo, rows, browser>>
storeVars == <<brands, branded, stored, deleting, gone, told>>
incidentVars == <<crashes, edits>>
vars == <<holderVars, storeVars, contactVars, incidentVars>>

Credential == Run \X Config

NoContext == [flow |-> None, offer |-> None, contact |-> Nobody, known |-> {}, sel |-> {},
              pin |-> FALSE, code |-> None, got |-> {}]
NoRow == [st |-> "idle", ctx |-> NoContext]

Waiting == {"addContact", "selectCredentials", "initiateAuthorizationRequest",
            "waitForAuthorizationResponse", "verifyPin", "reviewCredentials", "handleError"}
Branding == {"addIssuerBranding", "addIssuerBrandingAfterIdentity"}
Invoking == Branding \cup {"start", "createCredentialsToSelectFrom", "getContact",
             "getCredentials", "verifyCredentials", "addContactIdentity",
             "storeCredentialBranding", "storeCredentials"}
Final == {"aborted", "declined", "error", "done"}

Min1(S) == CHOOSE x \in S : \A y \in S : x <= y

Init ==
    /\ InitContacts
    /\ st = [r \in Run |-> "idle"]
    /\ at = [r \in Run |-> "begin"]
    /\ ctx = [r \in Run |-> NoContext]
    /\ todo = [r \in Run |-> {}]
    /\ rows = [f \in Run |-> NoRow]
    /\ browser = {}
    /\ brands = {} /\ branded = {} /\ stored = {} /\ deleting = {} /\ gone = {}
    /\ told = [c \in Credential |-> 0]
    /\ crashes = 0 /\ edits = 0

\* Run r, where it is, goes to state s with context c.
GoWith(r, s, c) ==
    /\ st' = [st EXCEPT ![r] = s]
    /\ at' = [at EXCEPT ![r] = "begin"]
    /\ ctx' = [ctx EXCEPT ![r] = c]
    /\ todo' = [todo EXCEPT ![r] = {}]
    /\ UNCHANGED <<rows, browser>>

Go(r, s) == GoWith(r, s, ctx[r])

\* Run r goes on to another step of the same state.
Continue(r, step, left) ==
    /\ at' = [at EXCEPT ![r] = step]
    /\ todo' = [todo EXCEPT ![r] = left]
    /\ UNCHANGED <<st, ctx, rows, browser>>

In(r, s, step) == st[r] = s /\ at[r] = step
-----------------------------------------------------------------------------
\* The transitions without an event (oid4vciMachine.ts).
Several(c) == Cardinality(c.offer.choices) > 1

Unselected(c) ==
    IF Several(c) THEN "selectCredentials"
    ELSE IF c.offer.auth /\ c.code = None THEN "initiateAuthorizationRequest"
    ELSE IF c.offer.pin THEN "verifyPin"
    ELSE "getCredentials"

\* A slip in the next operator: nobody is asked to add the contact.
AfterSetupUnasked(c) == Unselected(c)

AfterSetup(c) == IF c.contact = Nobody THEN "addContact" ELSE Unselected(c)

\* A slip in the next operator: only a PIN is asked for.
SelectedForPin(c) == IF c.offer.pin THEN "verifyPin" ELSE "getCredentials"

\* Selecting puts the PIN first and lets it stand for the authorization.
Selected(c) ==
    IF c.offer.pin THEN "verifyPin"
    ELSE IF c.offer.auth /\ c.code = None THEN "initiateAuthorizationRequest"
    ELSE "getCredentials"

\* A slip in the next operator: any contact will do.
AnyContactKnows(c) == "reviewCredentials"

AfterVerification(c) ==
    IF c.offer.issuer \in c.known THEN "reviewCredentials" ELSE "addContactIdentity"
-----------------------------------------------------------------------------
(* Links. A new offer removes the rows of all other flows; their runs go   *)
(* on. A redirect resumes the one saved flow, and hands it the code, which *)
(* it takes only while it waits for one. Services that were running when   *)
(* the state was saved are not started again.                              *)
OpenOffer(r) ==
    \E o \in Offer :
        /\ st[r] = "idle"
        /\ st' = [st EXCEPT ![r] = "start"]
        /\ ctx' = [ctx EXCEPT ![r] = [NoContext EXCEPT !.flow = r, !.offer = o]]
        /\ rows' = [f \in Run |-> NoRow]
        /\ UNCHANGED <<at, todo, browser, storeVars, contactVars, incidentVars>>

Saved == {f \in Run : rows[f].st # "idle"}

OpenRedirect(r) ==
    \E code \in browser, f \in Saved :
        /\ st[r] = "idle"
        /\ Saved = {f}
        /\ LET row == rows[f]
               waits == row.st = "waitForAuthorizationResponse" IN
           /\ st' = [st EXCEPT ![r] = IF waits THEN "getCredentials" ELSE row.st]
           /\ ctx' = [ctx EXCEPT ![r] = IF waits THEN [row.ctx EXCEPT !.code = code] ELSE row.ctx]
           /\ at' = [at EXCEPT ![r] = IF row.st \in Invoking THEN "stuck" ELSE "begin"]
        /\ browser' = browser \ {code}
        /\ UNCHANGED <<todo, rows, storeVars, contactVars, incidentVars>>

\* A transition is saved some time later; a final state removes the row.
\* Bound: only while a run is left that may read the row.
SaveState(r) ==
    /\ \E q \in Run : st[q] = "idle"
    /\ st[r] \in Waiting \cup Invoking \cup Final
    /\ rows' = [rows EXCEPT ![ctx[r].flow] =
                  IF st[r] \in Final THEN NoRow ELSE [st |-> st[r], ctx |-> ctx[r]]]
    /\ rows' # rows
    /\ UNCHANGED <<st, at, ctx, todo, browser, storeVars, contactVars, incidentVars>>

MayHappen == crashes + edits + Cardinality(gone) < Incidents

Crash ==
    /\ MayHappen
    /\ \E r \in Run : st[r] \notin {"idle", "dead"}
    /\ crashes' = crashes + 1
    /\ st' = [r \in Run |-> IF st[r] = "idle" THEN "idle" ELSE "dead"]
    /\ at' = [r \in Run |-> "begin"]
    /\ todo' = [r \in Run |-> {}]
    /\ edit' = NoEdit
    /\ deleting' = {}
    /\ UNCHANGED <<ctx, rows, browser, brands, branded, stored, gone, told,
                   parties, born, owner, edits>>
-----------------------------------------------------------------------------
(* Setting up: metadata, choices, the contact. All choices are selected to *)
(* begin with. A contact is found by the issuer's host or its name.        *)
Start(r) ==
    /\ In(r, "start", "begin")
    /\ \/ Go(r, "createCredentialsToSelectFrom")
       \/ Go(r, "handleError")
    /\ UNCHANGED <<storeVars, contactVars, incidentVars>>

CreateCredentialsToSelectFrom(r) ==
    /\ In(r, "createCredentialsToSelectFrom", "begin")
    /\ \/ GoWith(r, "getContact", [ctx[r] EXCEPT !.sel = ctx[r].offer.choices])
       \/ Go(r, "handleError")
    /\ UNCHANGED <<storeVars, contactVars, incidentVars>>

FoundContact(o) ==
    {p \in parties : owner["host"] = p \/ o.named}

WithContact(c, ps) ==
    IF ps = {} THEN c
    ELSE [c EXCEPT !.contact = CHOOSE p \in ps : TRUE, !.known = UNION {IdentitiesOf(p) : p \in ps}]

GetContact(r) ==
    /\ In(r, "getContact", "begin")
    /\ \/ LET c == WithContact(ctx[r], FoundContact(ctx[r].offer)) IN GoWith(r, AfterSetup(c), c)
       \/ Go(r, "handleError")
    /\ UNCHANGED <<storeVars, contactVars, incidentVars>>

(* The user agrees to the contact. The screen looks for one by its legal   *)
(* name and creates or renames it; then the machine is told. When that     *)
(* fails the screen stays.                                                 *)
LookForContact(r) ==
    /\ In(r, "addContact", "begin")
    /\ Continue(r, IF parties = {} THEN "create" ELSE "read", parties)
    /\ UNCHANGED <<storeVars, contactVars, incidentVars>>

NewParty == CHOOSE p \in Party : p \notin born

ContactAdded(r, p, ids) ==
    GoWith(r, "addIssuerBranding", [ctx[r] EXCEPT !.contact = p, !.known = ids])

CreateContact(r) ==
    /\ In(r, "addContact", "create")
    /\ Party # born
    /\ IF CanAddParty({"host"})
       THEN AddParty(NewParty, {"host"}) /\ ContactAdded(r, NewParty, {"host"})
       ELSE Continue(r, "begin", {}) /\ UNCHANGED <<parties, born, owner>>
    /\ UNCHANGED <<edit, storeVars, incidentVars>>

ReadContact(r) ==
    /\ In(r, "addContact", "read")
    /\ \E p \in todo[r] :
          IF p \in parties
          THEN Continue(r, "rename", {p} \cup IdentitiesOf(p))
          ELSE Continue(r, "begin", {})
    /\ UNCHANGED <<storeVars, contactVars, incidentVars>>

RenameContact(r) ==
    /\ In(r, "addContact", "rename")
    /\ \E p \in todo[r] \ Ident :
          LET ids == todo[r] \cap Ident IN
          IF CanUpdateParty(p, ids)
          THEN UpdateParty(p, ids) /\ ContactAdded(r, p, ids)
          ELSE Continue(r, "begin", {}) /\ UNCHANGED <<parties, born, owner>>
    /\ UNCHANGED <<edit, storeVars, incidentVars>>
-----------------------------------------------------------------------------
(* The branding of the issuer, under the first identity of the contact.    *)
(* The machine has no transition for a failure of this service.            *)
BrandingDone(r) ==
    Go(r, IF st[r] = "addIssuerBranding" THEN Unselected(ctx[r]) ELSE "reviewCredentials")

BrandKey(c) == IF c.known = {} THEN {} ELSE {IF "host" \in c.known THEN "host" ELSE "did"}

\* Without an identity the query is for any branding at all.
HasBranding(c) == IF BrandKey(c) = {} THEN brands # {} ELSE BrandKey(c) \subseteq brands

FindIssuerBranding(r) ==
    /\ st[r] \in Branding /\ at[r] = "begin"
    /\ IF ~ctx[r].offer.named \/ HasBranding(ctx[r])
       THEN BrandingDone(r)
       ELSE Continue(r, "add", {})
    /\ UNCHANGED <<storeVars, contactVars, incidentVars>>

AddIssuerBranding(r) ==
    /\ st[r] \in Branding /\ at[r] = "add"
    /\ \/ /\ BrandKey(ctx[r]) # {} /\ ~HasBranding(ctx[r])
          /\ BrandingDone(r)
          /\ brands' = brands \cup BrandKey(ctx[r])
       \/ /\ Continue(r, "stuck", {})
          /\ UNCHANGED brands
    /\ UNCHANGED <<branded, stored, deleting, gone, told, contactVars, incidentVars>>
-----------------------------------------------------------------------------
\* What the user does about selection, authorization and PIN.
SelectCredentials(r) ==
    /\ In(r, "selectCredentials", "begin")
    /\ \E sel \in (SUBSET ctx[r].offer.choices) \ {{}} :
          LET c == [ctx[r] EXCEPT !.sel = sel] IN GoWith(r, Selected(c), c)
    /\ UNCHANGED <<storeVars, contactVars, incidentVars>>

InvokeAuthorization(r) ==
    /\ In(r, "initiateAuthorizationRequest", "begin")
    /\ st' = [st EXCEPT ![r] = "waitForAuthorizationResponse"]
    /\ browser' = browser \cup {ctx[r].flow}
    /\ UNCHANGED <<at, ctx, todo, rows, storeVars, contactVars, incidentVars>>

EnterPin(r) ==
    /\ In(r, "verifyPin", "begin")
    /\ GoWith(r, "getCredentials", [ctx[r] EXCEPT !.pin = TRUE])
    /\ UNCHANGED <<storeVars, contactVars, incidentVars>>

\* Where "previous" leads from a state.
Previous(r) ==
    CASE st[r] = "initiateAuthorizationRequest" -> "selectCredentials"
      [] st[r] = "waitForAuthorizationResponse" -> "initiateAuthorizationRequest"
      [] st[r] = "verifyPin" /\ Several(ctx[r]) -> "selectCredentials"
      [] st[r] = "handleError"                  -> "error"
      [] OTHER                                  -> "aborted"

GoBack(r) ==
    /\ st[r] \in Waiting /\ at[r] = "begin"
    /\ \/ Go(r, Previous(r))
       \/ st[r] \in {"addContact", "reviewCredentials"} /\ Go(r, "declined")
    /\ UNCHANGED <<storeVars, contactVars, incidentVars>>
-----------------------------------------------------------------------------
(* The request. The issuer answers only a code of its own flow, or the PIN *)
(* it asks for; leaving the state clears the PIN.                          *)
Granted(c) ==
    IF c.code # None THEN c.offer.auth /\ c.code = c.flow
    ELSE (c.offer.pin \/ ~c.offer.auth) /\ (c.offer.pin => c.pin)

GetCredentials(r) ==
    /\ In(r, "getCredentials", "begin")
    /\ \/ /\ Granted(ctx[r])
          /\ GoWith(r, "verifyCredentials",
                    [ctx[r] EXCEPT !.pin = FALSE, !.got = {<<r, k>> : k \in ctx[r].sel}])
       \/ GoWith(r, "handleError", [ctx[r] EXCEPT !.pin = FALSE])
    /\ UNCHANGED <<storeVars, contactVars, incidentVars>>

AssertValidCredentials(r) ==
    /\ In(r, "verifyCredentials", "begin")
    /\ \/ Go(r, AfterVerification(ctx[r]))
       \/ Go(r, "handleError")
    /\ UNCHANGED <<storeVars, contactVars, incidentVars>>

(* The identity is added without a connection, which the store refuses for *)
(* anything but a DID.                                                     *)
FindIdentityParty(r) ==
    /\ In(r, "addContactIdentity", "begin")
    /\ IF ctx[r].contact \in parties /\ ctx[r].offer.issuer = "did"
       THEN Continue(r, "save", {})
       ELSE Go(r, "handleError")
    /\ UNCHANGED <<storeVars, contactVars, incidentVars>>

\* A slip in the next operator: a refusal by the database is not handled.
SaveIdentityOrHang(r) ==
    /\ In(r, "addContactIdentity", "save")
    /\ IF CanAddIdentity(ctx[r].contact, ctx[r].offer.issuer)
       THEN /\ AddIdentity(ctx[r].contact, ctx[r].offer.issuer)
            /\ GoWith(r, "addIssuerBrandingAfterIdentity",
                      [ctx[r] EXCEPT !.known = @ \cup {ctx[r].offer.issuer}])
       ELSE Continue(r, "stuck", {}) /\ UNCHANGED <<parties, born, owner>>
    /\ UNCHANGED <<edit, storeVars, incidentVars>>

SaveIdentity(r) ==
    /\ In(r, "addContactIdentity", "save")
    /\ IF CanAddIdentity(ctx[r].contact, ctx[r].offer.issuer)
       THEN /\ AddIdentity(ctx[r].contact, ctx[r].offer.issuer)
            /\ GoWith(r, "addIssuerBrandingAfterIdentity",
                      [ctx[r] EXCEPT !.known = @ \cup {ctx[r].offer.issuer}])
       ELSE Go(r, "handleError") /\ UNCHANGED <<parties, born, owner>>
    /\ UNCHANGED <<edit, storeVars, incidentVars>>
-----------------------------------------------------------------------------
(* Accepting: a branding for every credential that was selected, each under*)
(* a hash that must have none; then the issuer hears of the first, and the *)
(* first is stored.                                                        *)
AcceptCredentials(r) ==
    /\ In(r, "reviewCredentials", "begin")
    /\ st' = [st EXCEPT ![r] = "storeCredentialBranding"]
    /\ todo' = [todo EXCEPT ![r] = IF ctx[r].offer.branded THEN ctx[r].sel ELSE {}]
    /\ UNCHANGED <<at, ctx, rows, browser, storeVars, contactVars, incidentVars>>

Obtained(r, k) == CHOOSE c \in ctx[r].got : c[2] = k

\* A slip in the next operator: a branding that is there is kept.
CanBrandAgain(c) == TRUE

CanBrand(c) == c \notin branded

StoreCredentialBranding(r) ==
    /\ In(r, "storeCredentialBranding", "begin")
    /\ IF todo[r] = {}
       THEN Go(r, "storeCredentials") /\ UNCHANGED branded
       ELSE LET k == Min1(todo[r]) IN
            IF CanBrand(Obtained(r, k))
            THEN /\ branded' = branded \cup {Obtained(r, k)}
                 /\ Continue(r, "begin", todo[r] \ {k})
            ELSE Go(r, "handleError") /\ UNCHANGED branded
    /\ UNCHANGED <<brands, stored, deleting, gone, told, contactVars, incidentVars>>

First(r) == Obtained(r, Min1(ctx[r].sel))

SendNotification(r) ==
    /\ In(r, "storeCredentials", "begin")
    /\ \/ ~ctx[r].offer.notify /\ Continue(r, "save", {}) /\ UNCHANGED told
       \/ /\ ctx[r].offer.notify
          /\ Continue(r, "save", {})
          /\ told' = [told EXCEPT ![First(r)] = @ + 1]
       \/ ctx[r].offer.notify /\ Go(r, "handleError") /\ UNCHANGED told
    /\ UNCHANGED <<brands, branded, stored, deleting, gone, contactVars, incidentVars>>

\* A slip in the next operator: the first of all that were offered is stored.
ToStoreOfOffer(r) == <<First(r)[1], Min1(ctx[r].offer.choices)>>

ToStore(r) == First(r)

StoreCredential(r) ==
    /\ In(r, "storeCredentials", "save")
    /\ IF ToStore(r) \notin stored
       THEN stored' = stored \cup {ToStore(r)} /\ Go(r, "done")
       ELSE Go(r, "handleError") /\ UNCHANGED stored
    /\ UNCHANGED <<brands, branded, deleting, gone, told, contactVars, incidentVars>>

\* The user deletes a credential: its branding first, then itself.
DeleteBranding ==
    \E c \in stored :
        /\ MayHappen /\ deleting = {}
        /\ branded' = branded \ {c}
        /\ deleting' = {c}
        /\ gone' = gone \cup {c}
        /\ UNCHANGED <<holderVars, brands, stored, told, contactVars, incidentVars>>

DeleteCredential ==
    /\ deleting # {}
    /\ stored' = stored \ deleting
    /\ deleting' = {}
    /\ UNCHANGED <<holderVars, brands, branded, gone, told, contactVars, incidentVars>>
-----------------------------------------------------------------------------
Service(r) ==
    \/ Start(r) \/ CreateCredentialsToSelectFrom(r) \/ GetContact(r)
    \/ CreateContact(r) \/ ReadContact(r) \/ RenameContact(r)
    \/ FindIssuerBranding(r) \/ AddIssuerBranding(r)
    \/ GetCredentials(r) \/ AssertValidCredentials(r)
    \/ FindIdentityParty(r) \/ SaveIdentity(r)
    \/ StoreCredentialBranding(r) \/ SendNotification(r) \/ StoreCredential(r)

User(r) ==
    \/ OpenOffer(r) \/ OpenRedirect(r) \/ LookForContact(r) \/ SelectCredentials(r)
    \/ InvokeAuthorization(r) \/ EnterPin(r) \/ GoBack(r) \/ AcceptCredentials(r)

Edit ==
    /\ \/ MayHappen /\ BeginAnEdit /\ edits' = edits + 1
       \/ GoOnEditing /\ UNCHANGED edits
    /\ UNCHANGED <<holderVars, storeVars, crashes>>

Editing == Edit \/ DeleteBranding \/ DeleteCredential

Next == Crash \/ Editing \/ \E r \in Run : User(r) \/ Service(r) \/ SaveState(r)

\* Services end, well or not; nobody has to open, enter, accept or save anything.
Spec == Init /\ [][Next]_vars /\ \A r \in Run : WF_vars(Service(r))
-----------------------------------------------------------------------------
TypeOK ==
    /\ ContactsTypeOK
    /\ st \in [Run -> {"idle", "dead"} \cup Waiting \cup Invoking \cup Final]
    /\ at \in [Run -> {"begin", "create", "read", "rename", "add", "save", "stuck"}]
    /\ \A r \in Run : todo[r] \subseteq IF st[r] = "storeCredentialBranding"
                                        THEN ctx[r].sel ELSE Party \cup Ident
    /\ browser \subseteq Run
    /\ brands \subseteq Ident
    /\ branded \subseteq Credential /\ stored \subseteq Credential
    /\ deleting \subseteq gone /\ gone \subseteq Credential
    /\ told \in [Credential -> Nat]
    /\ \A r \in Run : st[r] = "idle" \/
          /\ ctx[r].offer \in Offer /\ ctx[r].flow \in Run
          /\ ctx[r].sel \subseteq ctx[r].offer.choices
          /\ ctx[r].contact = Nobody => ctx[r].known = {}
          /\ st[r] \in (Waiting \cup Branding) \ {"addContact", "handleError"}
                => ctx[r].contact \in born
          /\ st[r] \in {"verifyCredentials", "addContactIdentity", "reviewCredentials",
                       "storeCredentialBranding", "storeCredentials", "done"}
                => ctx[r].sel # {} /\ {c[2] : c \in ctx[r].got} = ctx[r].sel

(* What a credential request needs was given: the redirect's code where    *)
(* the offer asks for authorization, the PIN where it asks for one, and    *)
(* either where it asks for both, by whatever way back and forth the user  *)
(* came. "We require authz as long as we do not have the authz code        *)
(* response" (oid4vciMachine.ts:97).                                       *)
NoRequestWithoutGrant ==
    \A r \in Run : LET o == ctx[r].offer IN
        st[r] = "getCredentials" /\ (o.auth \/ o.pin) =>
            (o.auth /\ ctx[r].code # None) \/ (o.pin /\ ctx[r].pin)

(* The user reviews credentials of an issuer by which the contact in the   *)
(* machine's context is known; and, if nobody edits contacts meanwhile, so *)
(* is the contact on file, unless the update of another flow that agreed   *)
(* to the same contact wrote over the identity.                            *)
ReviewKnowsIssuer ==
    \A r \in Run : LET c == ctx[r] IN
        st[r] = "reviewCredentials" =>
            /\ c.offer.issuer \in c.known
            /\ \/ edits > 0
               \/ c.contact \in parties /\ owner[c.offer.issuer] \in {c.contact, Orphan}

(* Brandings and credentials go together: a stored credential of an issuer *)
(* with brandings has one until the user deletes it; and a branding without*)
(* a credential is that of a credential being accepted, of an acceptance   *)
(* that failed or died half way, or of one that was selected beside        *)
(* another (OID4VCIHolder.ts:787: only one is stored).                     *)
BrandingFollowsCredential ==
    /\ \A c \in stored : ctx[c[1]].offer.branded => c \in branded \cup gone
    /\ \A c \in branded \ stored : \E r \in Run :
          /\ c \in ctx[r].got
          /\ \/ st[r] \in {"storeCredentialBranding", "storeCredentials", "handleError",
                           "error", "dead"}
             \/ c # First(r)

(* An issuer with brandings hears once that a credential was accepted: a   *)
(* run that is resumed before the acceptance and accepts again stops at    *)
(* the branding, which is there. Until the user deletes the credential.    *)
BrandedToldOnce ==
    \A c \in Credential \ gone :
        told[c] > 0 /\ ctx[c[1]].offer.branded => told[c] = 1

(* No flow hangs: a service under way ends where the user has something to *)
(* do, or the flow is over. Except that a failing issuer branding is not   *)
(* handled, and that services do not run again when a run is resumed.      *)
FlowGoesOn ==
    \A r \in Run :
        st[r] \in Invoking \/ at[r] # "begin" ~>
            \/ st[r] \in Waiting /\ at[r] = "begin"
            \/ st[r] \in Final \cup {"dead"}
            \/ at[r] = "stuck" /\ (st[r] \in Branding \/ ctx[r].flow # r)
-----------------------------------------------------------------------------
Phase(r) ==
    IF st[r] = "idle" THEN "idle"
    ELSE IF at[r] = "stuck" \/ st[r] \in Final \cup {"dead", "handleError"} THEN "over"
    ELSE CASE st[r] = "getCredentials" -> "requesting"
           [] st[r] \in {"verifyCredentials", "addContactIdentity",
                        "addIssuerBrandingAfterIdentity", "reviewCredentials"} -> "offered"
           [] st[r] \in {"storeCredentialBranding", "storeCredentials"} -> "accepted"
           [] OTHER -> "asking"

Issuance == INSTANCE CredentialIssuance
              WITH phase <- [r \in Run |-> Phase(r)], hand <- [r \in Run |-> ctx[r].got],
                   kept <- stored

\* The machine, its services, its persistence and crashes keep the promise.
ImplementsIssuance == Issuance!Spec
=============================================================================
