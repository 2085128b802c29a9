------------------------- MODULE Oid4vciHolderProofs -------------------------
(***************************************************************************)
(* Theorems about Oid4vciHolder, for any runs, offers, contacts and bounds.*)
(* What a run knows in each of its states is stated for the state and the  *)
(* context together, so that it can be said of saved states as well: a run *)
(* that is resumed goes on with what the saved one knew.                   *)
(***************************************************************************)
EXTENDS Oid4vciHolder, FiniteSetTheorems, WellFoundedInduction, TLAPS

USE DEF In

States == {"idle", "dead"} \cup Waiting \cup Invoking \cup Final
Steps == {"begin", "create", "read", "rename", "add", "save", "stuck"}

Context == [flow : Run \cup {None}, offer : Offer \cup {None}, contact : Party \cup {Nobody},
            known : SUBSET Ident, sel : SUBSET Config, pin : BOOLEAN,
            code : Run \cup {None}, got : SUBSET Credential]

\* The states up to the request, and those of a run that has credentials in hand.
Before == {"start", "createCredentialsToSelectFrom", "getContact", "addContact",
           "addIssuerBranding", "selectCredentials", "initiateAuthorizationRequest",
           "waitForAuthorizationResponse", "verifyPin", "getCredentials"}
After == {"verifyCredentials", "addContactIdentity", "addIssuerBrandingAfterIdentity",
          "reviewCredentials", "storeCredentialBranding", "storeCredentials", "done"}
Unset == {"start", "createCredentialsToSelectFrom"}
Ended == {"aborted", "declined", "error", "handleError", "dead"}

Grant(c) == (c.offer.auth /\ c.code # None) \/ (c.offer.pin /\ c.pin)

\* What a run in state s with context c knows, b being the contacts born so far.
Known(s, c, b) ==
    /\ c.offer \in Offer /\ c.flow \in Run
    /\ c.sel \subseteq c.offer.choices
    /\ c.contact = Nobody => c.known = {}
    /\ s \in Unset \cup {"getContact"} => c.contact = Nobody
    /\ s \in (Before \cup After) \ (Unset \cup {"getContact", "addContact"}) => c.contact \in b
    /\ s \in {"initiateAuthorizationRequest", "waitForAuthorizationResponse"} => c.offer.auth
    /\ s = "verifyPin" => c.offer.pin
    /\ s = "getCredentials" /\ (c.offer.auth \/ c.offer.pin) => Grant(c)
    /\ s \in Before \ Unset => c.sel # {}
    /\ s \in Before => c.got = {}
    /\ s \in After => c.sel # {} /\ {x[2] : x \in c.got} = c.sel

HolderTypes ==
    /\ st \in [Run -> States]
    /\ at \in [Run -> Steps]
    /\ ctx \in [Run -> Context]
    /\ todo \in [Run -> SUBSET (Party \cup Ident \cup Config)]
    /\ rows \in [Run -> [st : States, ctx : Context]]
    /\ browser \subseteq Run

Runs ==
    \A r \in Run :
        /\ st[r] = "idle" => ctx[r] = NoContext /\ at[r] = "begin" /\ todo[r] = {}
        /\ st[r] # "idle" => Known(st[r], ctx[r], born)
        /\ todo[r] \subseteq IF st[r] = "storeCredentialBranding" THEN ctx[r].sel
                             ELSE Ident \cup Party
        /\ st[r] = "addContact" => todo[r] \ Ident \subseteq born
        /\ In(r, "addContactIdentity", "save") => ctx[r].offer.issuer = "did"

SavedRuns ==
    \A f \in Run :
        /\ rows[f].st \in {"idle"} \cup Waiting \cup Invoking
        /\ rows[f].st # "idle" => Known(rows[f].st, rows[f].ctx, born)

HolderInv == HolderTypes /\ Runs /\ SavedRuns

\* A contact that is edited was there once.
ContactsInv ==
    /\ ContactsTypeOK
    /\ owner \in [Ident -> Party \cup {Nobody, Orphan}]
    /\ \A p, q \in parties : p = q
    /\ edit.op # "none" => edit.party \in born

StoresInv ==
    /\ brands \subseteq Ident
    /\ branded \subseteq Credential /\ stored \subseteq Credential
    /\ deleting \subseteq gone /\ gone \subseteq Credential
    /\ told \in [Credential -> Nat]

TypeInv == HolderInv /\ ContactsInv /\ StoresInv
-----------------------------------------------------------------------------
LEMMA NoContextType == NoContext \in Context
  BY DEF NoContext, Context

LEMMA TypeInit == Init => TypeInv
  <1> SUFFICES ASSUME Init PROVE TypeInv
    OBVIOUS
  <1>1. HolderTypes
    BY NoContextType DEF Init, HolderTypes, States, Steps, NoRow
  <1>2. Runs /\ SavedRuns
    BY DEF Init, Runs, SavedRuns, NoRow
  <1>3. ContactsInv
    <2>1. Cardinality({}) <= 1
      BY FS_EmptySet
    <2> QED
      BY <2>1 DEF Init, InitContacts, ContactsInv, ContactsTypeOK, NoEdit
  <1>4. StoresInv
    BY DEF Init, StoresInv
  <1> QED
    BY <1>1, <1>2, <1>3, <1>4 DEF TypeInv, HolderInv

LEMMA KnownGrows ==
    ASSUME NEW s, NEW c, NEW b, NEW b2, b \subseteq b2, Known(s, c, b) PROVE Known(s, c, b2)
  BY DEF Known

LEMMA GoWithKeeps ==
    ASSUME HolderInv, NEW r \in Run, NEW s \in States \ {"idle"}, NEW c \in Context,
           GoWith(r, s, c), Known(s, c, born'), born \subseteq born'
    PROVE  HolderInv'
  <1> USE DEF HolderInv
  <1>1. HolderTypes'
    BY DEF HolderTypes, GoWith, Steps
  <1>2. Runs'
    <2> SUFFICES ASSUME NEW q \in Run
                 PROVE  /\ st'[q] = "idle" => ctx'[q] = NoContext /\ at'[q] = "begin" /\ todo'[q] = {}
                        /\ st'[q] # "idle" => Known(st'[q], ctx'[q], born')
                        /\ todo'[q] \subseteq IF st'[q] = "storeCredentialBranding"
                                              THEN ctx'[q].sel ELSE Ident \cup Party
                        /\ st'[q] = "addContact" => todo'[q] \ Ident \subseteq born'
                        /\ In(q, "addContactIdentity", "save")' => ctx'[q].offer.issuer = "did"
      BY DEF Runs
    <2>1. CASE q = r
      BY <2>1 DEF HolderTypes, GoWith
    <2>2. CASE q # r
      <3>1. st'[q] = st[q] /\ at'[q] = at[q] /\ ctx'[q] = ctx[q] /\ todo'[q] = todo[q]
        BY <2>2 DEF HolderTypes, GoWith
      <3> QED
        BY <3>1, KnownGrows DEF Runs
    <2> QED
      BY <2>1, <2>2
  <1>3. SavedRuns'
    BY KnownGrows DEF SavedRuns, GoWith
  <1> QED
    BY <1>1, <1>2, <1>3

LEMMA GoKeeps ==
    ASSUME HolderInv, NEW r \in Run, NEW s \in States \ {"idle"}, Go(r, s),
           Known(s, ctx[r], born'), born \subseteq born'
    PROVE  HolderInv'
  <1>1. ctx[r] \in Context
    BY DEF HolderInv, HolderTypes
  <1> QED
    BY <1>1, GoWithKeeps DEF Go

LEMMA ContinueKeeps ==
    ASSUME HolderInv, NEW r \in Run, NEW step \in Steps,
           NEW left \in SUBSET (Party \cup Ident \cup Config),
           Continue(r, step, left), st[r] # "idle", born \subseteq born',
           left \subseteq IF st[r] = "storeCredentialBranding" THEN ctx[r].sel
                          ELSE Ident \cup Party,
           st[r] = "addContact" => left \ Ident \subseteq born',
           st[r] = "addContactIdentity" /\ step = "save" => ctx[r].offer.issuer = "did"
    PROVE  HolderInv'
  <1> USE DEF HolderInv
  <1>1. HolderTypes'
    BY DEF HolderTypes, Continue
  <1>2. Runs'
    <2> SUFFICES ASSUME NEW q \in Run
                 PROVE  /\ st[q] = "idle" => ctx[q] = NoContext /\ at'[q] = "begin" /\ todo'[q] = {}
                        /\ st[q] # "idle" => Known(st[q], ctx[q], born')
                        /\ todo'[q] \subseteq IF st[q] = "storeCredentialBranding"
                                              THEN ctx[q].sel ELSE Ident \cup Party
                        /\ st[q] = "addContact" => todo'[q] \ Ident \subseteq born'
                        /\ In(q, "addContactIdentity", "save")' => ctx[q].offer.issuer = "did"
      BY DEF Runs, Continue
    <2>1. st[q] # "idle" => Known(st[q], ctx[q], born')
      BY KnownGrows DEF Runs
    <2>2. CASE q = r
      BY <2>1, <2>2 DEF HolderTypes, Continue
    <2>3. CASE q # r
      BY <2>1, <2>3 DEF HolderTypes, Continue, Runs
    <2> QED
      BY <2>2, <2>3
  <1>3. SavedRuns'
    BY KnownGrows DEF SavedRuns, Continue
  <1> QED
    BY <1>1, <1>2, <1>3

LEMMA HolderStays ==
    ASSUME HolderInv, UNCHANGED holderVars, born \subseteq born' PROVE HolderInv'
  <1> USE DEF HolderInv, holderVars
  <1>1. HolderTypes'
    BY DEF HolderTypes
  <1>2. Runs'
    BY KnownGrows DEF Runs
  <1>3. SavedRuns'
    BY KnownGrows DEF SavedRuns
  <1> QED
    BY <1>1, <1>2, <1>3

LEMMA ContactsStay == ASSUME ContactsInv, UNCHANGED contactVars PROVE ContactsInv'
  BY DEF ContactsInv, ContactsTypeOK, contactVars, IdentitiesOf

LEMMA StoresStay == ASSUME StoresInv, UNCHANGED storeVars PROVE StoresInv'
  BY DEF StoresInv, storeVars
-----------------------------------------------------------------------------
\* The transitions without an event lead to what the run knows already.
LEMMA UnselectedKnown ==
    ASSUME NEW c, NEW b, Known("addIssuerBranding", c, b)
    PROVE  Known(Unselected(c), c, b) /\ Unselected(c) \in States \ {"idle"}
  BY DEF Known, Unselected, Before, After, Unset, Grant, States, Waiting, Invoking, Branding

LEMMA AfterSetupKnown ==
    ASSUME NEW c, NEW b, Known("addContact", c, b), c.contact # Nobody => c.contact \in b
    PROVE  Known(AfterSetup(c), c, b) /\ AfterSetup(c) \in States \ {"idle"}
  <1>1. CASE c.contact = Nobody
    BY <1>1 DEF Known, AfterSetup, Before, After, Unset, States, Waiting
  <1>2. CASE c.contact # Nobody
    <2>1. Known("addIssuerBranding", c, b)
      BY <1>2 DEF Known, Before, After, Unset
    <2> QED
      BY <1>2, <2>1, UnselectedKnown DEF AfterSetup
  <1> QED
    BY <1>1, <1>2

LEMMA SelectedKnown ==
    ASSUME NEW c, NEW b, Known("selectCredentials", c, b)
    PROVE  Known(Selected(c), c, b) /\ Selected(c) \in States \ {"idle"}
  BY DEF Known, Selected, Before, After, Unset, Grant, States, Waiting, Invoking

LEMMA EndedKnown ==
    ASSUME NEW s, NEW c, NEW b, Known(s, c, b), NEW e \in Ended PROVE Known(e, c, b)
  BY DEF Known, Ended, Before, After, Unset

LEMMA GoToEnd ==
    ASSUME TypeInv, NEW r \in Run, st[r] # "idle", NEW e \in Ended, Go(r, e), born \subseteq born'
    PROVE  HolderInv'
  <1>1. HolderInv /\ e \in States \ {"idle"}
    BY DEF TypeInv, Ended, States, Final, Waiting
  <1>2. Known(e, ctx[r], born')
    BY <1>1, EndedKnown, KnownGrows DEF HolderInv, Runs
  <1> QED
    BY <1>1, <1>2, GoKeeps

LEMMA UserSetup ==
    ASSUME TypeInv, NEW r \in Run, OpenOffer(r) \/ OpenRedirect(r) PROVE TypeInv'
  <1> USE DEF TypeInv, HolderInv
  <1>1. CASE OpenOffer(r)
    <2>1. PICK o \in Offer :
            /\ st[r] = "idle"
            /\ st' = [st EXCEPT ![r] = "start"]
            /\ ctx' = [ctx EXCEPT ![r] = [NoContext EXCEPT !.flow = r, !.offer = o]]
            /\ rows' = [f \in Run |-> NoRow]
            /\ UNCHANGED <<at, todo, browser, storeVars, contactVars, incidentVars>>
      BY <1>1 DEF OpenOffer
    <2> DEFINE c == [NoContext EXCEPT !.flow = r, !.offer = o]
    <2>2. c \in Context /\ Known("start", c, born)
      BY DEF Context, NoContext, Known, Before, After, Unset
    <2>3. HolderTypes'
      <3>1. NoRow \in [st : States, ctx : Context]
        BY NoContextType DEF NoRow, States
      <3>2. "start" \in States
        BY DEF States, Invoking
      <3> QED
        BY <2>1, <2>2, <3>1, <3>2 DEF HolderTypes
    <2>4. Runs'
      BY <2>1, <2>2 DEF Runs, HolderTypes, contactVars
    <2>5. SavedRuns'
      BY <2>1 DEF SavedRuns, NoRow
    <2> QED
      BY <2>1, <2>3, <2>4, <2>5, ContactsStay, StoresStay
  <1>2. CASE OpenRedirect(r)
    <2>1. PICK code \in browser, f \in Saved :
            /\ st[r] = "idle"
            /\ LET row == rows[f]
                   waits == row.st = "waitForAuthorizationResponse" IN
               /\ st' = [st EXCEPT ![r] = IF waits THEN "getCredentials" ELSE row.st]
               /\ ctx' = [ctx EXCEPT ![r] = IF waits THEN [row.ctx EXCEPT !.code = code]
                                            ELSE row.ctx]
               /\ at' = [at EXCEPT ![r] = IF row.st \in Invoking THEN "stuck" ELSE "begin"]
            /\ browser' = browser \ {code}
            /\ UNCHANGED <<todo, rows, storeVars, contactVars, incidentVars>>
      BY <1>2 DEF OpenRedirect
    <2> DEFINE row == rows[f]
               waits == row.st = "waitForAuthorizationResponse"
               s == IF waits THEN "getCredentials" ELSE row.st
               c == IF waits THEN [row.ctx EXCEPT !.code = code] ELSE row.ctx
    <2>2. /\ f \in Run /\ row.st \in Waiting \cup Invoking
          /\ row.ctx \in Context /\ Known(row.st, row.ctx, born)
          /\ code \in Run /\ code # None
      BY HolderAssumption DEF Saved, SavedRuns, HolderTypes
    <2>3. s \in States \ {"idle"}
      BY <2>2 DEF States, Waiting, Invoking, Branding
    <2>4. c \in Context /\ Known(s, c, born)
      <3>1. CASE waits
        <4>1. c = [row.ctx EXCEPT !.code = code] /\ s = "getCredentials"
          BY <3>1
        <4>2. /\ c \in Context /\ c.code = code
              /\ c.offer = row.ctx.offer /\ c.flow = row.ctx.flow /\ c.sel = row.ctx.sel
              /\ c.contact = row.ctx.contact /\ c.known = row.ctx.known
              /\ c.got = row.ctx.got /\ c.pin = row.ctx.pin
          BY <2>2, <4>1 DEF Context
        <4>3. Known("waitForAuthorizationResponse", row.ctx, born)
          BY <2>2, <3>1
        <4> HIDE DEF c, row, waits, s
        <4> QED
          BY <2>2, <4>1, <4>2, <4>3 DEF Known, Grant, Before, After, Unset
      <3>2. CASE ~waits
        BY <2>2, <3>2
      <3> QED
        BY <3>1, <3>2
    <2>5. HolderTypes'
      BY <2>1, <2>3, <2>4 DEF HolderTypes, Steps
    <2>6. Runs'
      <3>1. /\ st'[r] = s /\ ctx'[r] = c /\ todo'[r] = todo[r]
            /\ \A q \in Run \ {r} : st'[q] = st[q] /\ ctx'[q] = ctx[q] /\ at'[q] = at[q]
            /\ UNCHANGED <<born, todo>>
        BY <2>1 DEF HolderTypes, contactVars
      <3>2. todo[r] = {}
        BY <2>1 DEF Runs
      <3> HIDE DEF s, c
      <3> QED
        BY <2>1, <2>3, <2>4, <3>1, <3>2 DEF Runs
    <2>7. SavedRuns'
      BY <2>1 DEF SavedRuns, contactVars
    <2> QED
      BY <2>1, <2>5, <2>6, <2>7, ContactsStay, StoresStay
  <1> QED
    BY <1>1, <1>2

LEMMA SaveOrCrash == ASSUME TypeInv, Crash \/ \E r \in Run : SaveState(r) PROVE TypeInv'
  <1> USE DEF TypeInv, HolderInv
  <1>1. CASE Crash
    <2>1. HolderTypes'
      BY <1>1 DEF Crash, HolderTypes, States, Steps
    <2>2. Runs'
      <3>1. \A r \in Run : Known(st[r], ctx[r], born) => Known("dead", ctx[r], born)
        BY EndedKnown DEF Ended
      <3> QED
        BY <1>1, <3>1 DEF Crash, Runs
    <2>3. SavedRuns'
      BY <1>1 DEF Crash, SavedRuns
    <2>4. ContactsInv'
      BY <1>1 DEF Crash, ContactsInv, ContactsTypeOK, NoEdit
    <2>5. StoresInv'
      BY <1>1 DEF Crash, StoresInv
    <2> QED
      BY <2>1, <2>2, <2>3, <2>4, <2>5
  <1>2. ASSUME NEW r \in Run, SaveState(r) PROVE TypeInv'
    <2> DEFINE row == IF st[r] \in Final THEN NoRow ELSE [st |-> st[r], ctx |-> ctx[r]]
    <2>1. /\ st[r] \in Waiting \cup Invoking \cup Final
          /\ rows' = [rows EXCEPT ![ctx[r].flow] = row]
          /\ UNCHANGED <<st, at, ctx, todo, browser, storeVars, contactVars, incidentVars>>
      BY <1>2 DEF SaveState
    <2>2. st[r] # "idle"
      BY <2>1 DEF Waiting, Invoking, Branding, Final
    <2>3. row \in [st : States, ctx : Context]
      BY NoContextType DEF HolderTypes, NoRow, States
    <2>4. row.st \in {"idle"} \cup Waiting \cup Invoking
      BY <2>1 DEF NoRow
    <2>5. row.st # "idle" => Known(row.st, row.ctx, born)
      BY <2>2 DEF Runs, NoRow
    <2> HIDE DEF row
    <2>6. HolderTypes'
      BY <2>1, <2>3 DEF HolderTypes
    <2>7. Runs'
      BY <2>1 DEF Runs, contactVars
    <2>8. SavedRuns'
      BY <2>1, <2>4, <2>5 DEF SavedRuns, HolderTypes, contactVars
    <2> QED
      BY <2>1, <2>6, <2>7, <2>8, ContactsStay, StoresStay
  <1> QED
    BY <1>1, <1>2

LEMMA UserOnMachine ==
    ASSUME TypeInv, NEW r \in Run,
           LookForContact(r) \/ SelectCredentials(r) \/ InvokeAuthorization(r) \/ EnterPin(r)
           \/ GoBack(r) \/ AcceptCredentials(r)
    PROVE  TypeInv'
  <1> USE DEF TypeInv
  <1>1. UNCHANGED <<storeVars, contactVars>>
    BY DEF LookForContact, SelectCredentials, InvokeAuthorization, EnterPin, GoBack,
           AcceptCredentials
  <1>2. UNCHANGED born
    BY <1>1 DEF contactVars
  <1>3. HolderInv'
    <2> USE <1>2
    <2>1. CASE LookForContact(r)
      <3>1. /\ st[r] = "addContact"
            /\ Continue(r, IF parties = {} THEN "create" ELSE "read", parties)
        BY <2>1 DEF LookForContact, In
      <3>2. parties \subseteq born /\ born \subseteq Party
        BY DEF ContactsInv, ContactsTypeOK
      <3> QED
        BY <3>1, <3>2, ContinueKeeps DEF Steps
    <2>2. CASE SelectCredentials(r)
      <3>1. st[r] = "selectCredentials"
        BY <2>2 DEF SelectCredentials, In
      <3>2. PICK sel \in (SUBSET ctx[r].offer.choices) \ {{}} :
              LET c == [ctx[r] EXCEPT !.sel = sel] IN GoWith(r, Selected(c), c)
        BY <2>2 DEF SelectCredentials
      <3> DEFINE c == [ctx[r] EXCEPT !.sel = sel]
      <3>3. ctx[r] \in Context /\ Known("selectCredentials", ctx[r], born)
        BY <3>1 DEF HolderInv, HolderTypes, Runs
      <3>4. ctx[r].offer.choices \subseteq Config
        BY <3>3, HolderAssumption DEF Known, OfferType
      <3>5. c \in Context
        BY <3>3, <3>4 DEF Context
      <3>6. Known("selectCredentials", c, born)
        BY <3>3, <3>5 DEF Known, Context, Before, After, Unset
      <3>7. GoWith(r, Selected(c), c)
        BY <3>2
      <3> HIDE DEF c
      <3> QED
        BY <3>5, <3>6, <3>7, SelectedKnown, GoWithKeeps
    <2>3. CASE InvokeAuthorization(r)
      <3>1. /\ st[r] = "initiateAuthorizationRequest"
            /\ st' = [st EXCEPT ![r] = "waitForAuthorizationResponse"]
            /\ browser' = browser \cup {ctx[r].flow}
            /\ UNCHANGED <<at, ctx, todo, rows>>
        BY <2>3 DEF InvokeAuthorization, In
      <3>2. Known("initiateAuthorizationRequest", ctx[r], born)
        BY <3>1 DEF HolderInv, Runs
      <3>3. Known("waitForAuthorizationResponse", ctx[r], born) /\ ctx[r].flow \in Run
        BY <3>2 DEF Known, Before, After, Unset
      <3>4. HolderTypes'
        BY <3>1, <3>3 DEF HolderInv, HolderTypes, States, Waiting
      <3>5. Runs'
        BY <3>1, <3>3 DEF HolderInv, HolderTypes, Runs
      <3>6. SavedRuns'
        BY <3>1 DEF HolderInv, SavedRuns
      <3> QED
        BY <3>4, <3>5, <3>6 DEF HolderInv
    <2>4. CASE EnterPin(r)
      <3>1. st[r] = "verifyPin" /\ GoWith(r, "getCredentials", [ctx[r] EXCEPT !.pin = TRUE])
        BY <2>4 DEF EnterPin, In
      <3> DEFINE c == [ctx[r] EXCEPT !.pin = TRUE]
      <3>2. ctx[r] \in Context /\ Known("verifyPin", ctx[r], born)
        BY <3>1 DEF HolderInv, HolderTypes, Runs
      <3>3. c \in Context
        BY <3>2 DEF Context
      <3>4. Known("getCredentials", c, born)
        BY <3>2 DEF Known, Context, Grant, Before, After, Unset
      <3> QED
        BY <3>1, <3>3, <3>4, GoWithKeeps DEF States, Invoking
    <2>5. CASE GoBack(r)
      <3>1. PICK s : /\ st[r] \in Waiting /\ Go(r, s)
                     /\ \/ s = Previous(r)
                        \/ s = "declined" /\ st[r] \in {"addContact", "reviewCredentials"}
        BY <2>5 DEF GoBack
      <3>2. Known(st[r], ctx[r], born)
        BY <3>1 DEF Waiting, HolderInv, Runs
      <3>3. \/ s \in Ended
            \/ s = "selectCredentials" /\ st[r] \in {"initiateAuthorizationRequest", "verifyPin"}
            \/ s = "initiateAuthorizationRequest" /\ st[r] = "waitForAuthorizationResponse"
        BY <3>1 DEF Previous, Ended, Waiting
      <3>4. Known(s, ctx[r], born)
        BY <3>2, <3>3, EndedKnown DEF Known, Before, After, Unset, Ended
      <3> QED
        BY <3>1, <3>3, <3>4, GoKeeps DEF Ended, States, Waiting, Final
    <2>6. CASE AcceptCredentials(r)
      <3>1. /\ st[r] = "reviewCredentials"
            /\ st' = [st EXCEPT ![r] = "storeCredentialBranding"]
            /\ todo' = [todo EXCEPT ![r] = IF ctx[r].offer.branded THEN ctx[r].sel ELSE {}]
            /\ UNCHANGED <<at, ctx, rows, browser>>
        BY <2>6 DEF AcceptCredentials, In
      <3>2. ctx[r] \in Context /\ Known("reviewCredentials", ctx[r], born)
        BY <3>1 DEF HolderInv, HolderTypes, Runs
      <3>3. Known("storeCredentialBranding", ctx[r], born)
        BY <3>2 DEF Known, Before, After, Unset
      <3>4. ctx[r].sel \subseteq Config
        BY <3>2 DEF Context
      <3>5. HolderTypes'
        BY <3>1, <3>4 DEF HolderInv, HolderTypes, States, Invoking
      <3>6. Runs'
        BY <3>1, <3>3 DEF HolderInv, HolderTypes, Runs
      <3>7. SavedRuns'
        BY <3>1 DEF HolderInv, SavedRuns
      <3> QED
        BY <3>5, <3>6, <3>7 DEF HolderInv
    <2> QED
      BY <2>1, <2>2, <2>3, <2>4, <2>5, <2>6
  <1> QED
    BY <1>1, <1>3, ContactsStay, StoresStay
-----------------------------------------------------------------------------
LEMMA SetupServices ==
    ASSUME TypeInv, NEW r \in Run,
           Start(r) \/ CreateCredentialsToSelectFrom(r) \/ GetContact(r)
    PROVE  TypeInv'
  <1> USE DEF TypeInv
  <1>1. UNCHANGED <<storeVars, contactVars>>
    BY DEF Start, CreateCredentialsToSelectFrom, GetContact
  <1>2. UNCHANGED born
    BY <1>1 DEF contactVars
  <1>3. HolderInv'
    <2> USE <1>2
    <2>1. CASE Start(r)
      <3>1. st[r] = "start" /\ (Go(r, "createCredentialsToSelectFrom") \/ Go(r, "handleError"))
        BY <2>1 DEF Start, In
      <3>2. CASE Go(r, "createCredentialsToSelectFrom")
        <4>1. Known("start", ctx[r], born)
          BY <3>1 DEF HolderInv, Runs
        <4>2. Known("createCredentialsToSelectFrom", ctx[r], born)
          BY <4>1 DEF Known, Before, After, Unset
        <4> QED
          BY <3>2, <4>2, GoKeeps DEF States, Invoking
      <3> QED
        BY <3>1, <3>2, GoToEnd DEF Ended
    <2>2. CASE CreateCredentialsToSelectFrom(r)
      <3> DEFINE c == [ctx[r] EXCEPT !.sel = ctx[r].offer.choices]
      <3>1. st[r] = "createCredentialsToSelectFrom"
        BY <2>2 DEF CreateCredentialsToSelectFrom, In
      <3>2. GoWith(r, "getContact", c) \/ Go(r, "handleError")
        BY <2>2 DEF CreateCredentialsToSelectFrom
      <3>3. CASE GoWith(r, "getContact", c)
        <4>1. ctx[r] \in Context /\ Known("createCredentialsToSelectFrom", ctx[r], born)
          BY <3>1 DEF HolderInv, HolderTypes, Runs
        <4>2. ctx[r].offer.choices \subseteq Config /\ ctx[r].offer.choices # {}
          BY <4>1, HolderAssumption DEF Known, OfferType
        <4>3. c \in Context
          BY <4>1, <4>2 DEF Context
        <4>4. Known("getContact", c, born)
          BY <4>1, <4>2 DEF Known, Context, Before, After, Unset
        <4> QED
          BY <3>3, <4>3, <4>4, GoWithKeeps DEF States, Invoking
      <3> QED
        BY <3>1, <3>2, <3>3, GoToEnd DEF Ended
    <2>3. CASE GetContact(r)
      <3> DEFINE ps == FoundContact(ctx[r].offer)
                 c == WithContact(ctx[r], ps)
      <3>1. st[r] = "getContact" /\ (GoWith(r, AfterSetup(c), c) \/ Go(r, "handleError"))
        BY <2>3 DEF GetContact, In
      <3>2. ctx[r] \in Context /\ Known("getContact", ctx[r], born)
        BY <3>1 DEF HolderInv, HolderTypes, Runs
      <3>3. ps \subseteq born /\ born \subseteq Party
        BY DEF FoundContact, ContactsInv, ContactsTypeOK
      <3> HIDE DEF ps
      <3>4. /\ c \in Context /\ Known("addContact", c, born)
            /\ c.contact # Nobody => c.contact \in born
        <4>1. CASE ps = {}
          <5>1. c = ctx[r]
            BY <4>1 DEF WithContact
          <5> QED
            BY <3>2, <5>1 DEF Known, Before, After, Unset
        <4>2. CASE ps # {}
          <5> DEFINE p == CHOOSE p \in ps : TRUE
                     ids == UNION {IdentitiesOf(q) : q \in ps}
          <5>1. p \in ps
            BY <4>2
          <5>2. p \in born /\ p \in Party /\ p # Nobody
            BY <3>3, <5>1, ContactAssumption
          <5>3. ids \in SUBSET Ident
            BY DEF IdentitiesOf
          <5>4. c = [ctx[r] EXCEPT !.contact = p, !.known = ids]
            BY <4>2 DEF WithContact
          <5> HIDE DEF p, ids, c
          <5>5. c \in Context
            BY <3>2, <5>2, <5>3, <5>4 DEF Context
          <5>6. Known("addContact", c, born)
            BY <3>2, <5>2, <5>4, <5>5 DEF Known, Context, Before, After, Unset
          <5> QED
            BY <3>2, <5>2, <5>4, <5>5, <5>6 DEF Context
        <4> QED
          BY <4>1, <4>2
      <3> QED
        BY <3>1, <3>4, AfterSetupKnown, GoWithKeeps, GoToEnd DEF Ended
    <2> QED
      BY <2>1, <2>2, <2>3
  <1> QED
    BY <1>1, <1>3, ContactsStay, StoresStay
-----------------------------------------------------------------------------
\* There is never more than one party.
LEMMA AtMostOne ==
    ASSUME NEW S, \A p, q \in S : p = q PROVE Cardinality(S) <= 1
  <1>1. CASE S = {}
    BY <1>1, FS_EmptySet
  <1>2. ASSUME NEW p \in S PROVE Cardinality(S) <= 1
    <2>1. S = {p}
      BY <1>2
    <2> QED
      <3>1. Cardinality({p}) = 1
        BY FS_Singleton
      <3> QED
        BY <2>1, <3>1
  <1> QED
    BY <1>1, <1>2

LEMMA AddPartyKeeps ==
    ASSUME ContactsInv, NEW p \in Party, NEW ids, CanAddParty(ids), AddParty(p, ids),
           edit' = edit
    PROVE  ContactsInv'
  <1> USE DEF ContactsInv, ContactsTypeOK, AddParty, CanAddParty
  <1>1. Cardinality(parties') <= 1 /\ \A q, o \in parties' : q = o
    BY AtMostOne
  <1>2. parties' \subseteq born' /\ born' \subseteq Party
    OBVIOUS
  <1>3. \A i \in Ident : owner'[i] \in parties' \cup {Nobody, Orphan}
    OBVIOUS
  <1> QED
    BY <1>1, <1>2, <1>3

LEMMA UpdatePartyKeeps ==
    ASSUME ContactsInv, NEW p \in born, NEW ids, CanUpdateParty(p, ids), UpdateParty(p, ids),
           edit' \in {edit, NoEdit}
    PROVE  ContactsInv'
  <1> USE DEF ContactsInv, ContactsTypeOK, UpdateParty, CanUpdateParty
  <1>1. Cardinality(parties') <= 1 /\ \A q, o \in parties' : q = o
    BY AtMostOne
  <1>2. parties' \subseteq born' /\ born' \subseteq Party
    OBVIOUS
  <1>3. \A i \in Ident : owner'[i] \in parties' \cup {Nobody, Orphan}
    OBVIOUS
  <1>4. edit' \in [op : {"none", "rename", "remove"}, at : {"find", "write"},
                   party : Party \cup {Nobody}, ids : SUBSET Ident]
    BY DEF NoEdit
  <1>5. edit'.op # "none" => edit'.party \in born'
    BY DEF NoEdit
  <1> QED
    BY <1>1, <1>2, <1>3, <1>4, <1>5

LEMMA ContactAddedKeeps ==
    ASSUME HolderInv, NEW r \in Run, st[r] = "addContact", NEW p \in born', NEW ids \in SUBSET Ident,
           ContactAdded(r, p, ids), born \subseteq born', born' \subseteq Party
    PROVE  HolderInv'
  <1> DEFINE c == [ctx[r] EXCEPT !.contact = p, !.known = ids]
  <1>1. ctx[r] \in Context /\ Known("addContact", ctx[r], born)
    BY DEF HolderInv, HolderTypes, Runs
  <1>2. c \in Context /\ p # Nobody
    BY <1>1, ContactAssumption DEF Context
  <1>3. Known("addIssuerBranding", c, born')
    BY <1>1, <1>2 DEF Known, Context, Before, After, Unset
  <1>4. GoWith(r, "addIssuerBranding", c)
    BY DEF ContactAdded
  <1> QED
    BY <1>2, <1>3, <1>4, GoWithKeeps DEF States, Invoking, Branding

LEMMA ContactServices ==
    ASSUME TypeInv, NEW r \in Run, CreateContact(r) \/ ReadContact(r) \/ RenameContact(r)
    PROVE  TypeInv'
  <1> USE DEF TypeInv
  <1>1. st[r] = "addContact" /\ UNCHANGED <<edit, storeVars>>
    BY DEF CreateContact, ReadContact, RenameContact, In, contactVars
  <1>2. todo[r] \subseteq Ident \cup Party /\ todo[r] \ Ident \subseteq born /\ born \subseteq Party
    BY <1>1 DEF HolderInv, Runs, ContactsInv, ContactsTypeOK
  <1>3. ASSUME Continue(r, "begin", {}), UNCHANGED <<parties, born, owner>> PROVE TypeInv'
    <2>1. HolderInv'
      BY <1>1, <1>3, ContinueKeeps DEF Steps
    <2> QED
      BY <1>1, <1>3, <2>1, ContactsStay, StoresStay DEF contactVars
  <1>4. CASE CreateContact(r)
    <2>1. CASE CanAddParty({"host"})
      <3>1. AddParty(NewParty, {"host"}) /\ ContactAdded(r, NewParty, {"host"})
        BY <1>4, <2>1 DEF CreateContact
      <3>2. NewParty \in Party
        <4>1. \E p \in Party : p \notin born
          BY <1>2, <1>4 DEF CreateContact
        <4> QED
          BY <4>1 DEF NewParty
      <3>3. ContactsInv'
        BY <1>1, <2>1, <3>1, <3>2, AddPartyKeeps
      <3>4. NewParty \in born' /\ born \subseteq born' /\ born' \subseteq Party
        BY <1>2, <3>1, <3>2 DEF AddParty
      <3>5. HolderInv'
        BY <1>1, <3>1, <3>4, ContactAddedKeeps DEF Ident
      <3> QED
        BY <1>1, <3>3, <3>5, StoresStay
    <2>2. CASE ~CanAddParty({"host"})
      BY <1>3, <1>4, <2>2 DEF CreateContact
    <2> QED
      BY <2>1, <2>2
  <1>5. CASE ReadContact(r)
    <2>1. PICK p \in todo[r] : IF p \in parties
                               THEN Continue(r, "rename", {p} \cup IdentitiesOf(p))
                               ELSE Continue(r, "begin", {})
      BY <1>5 DEF ReadContact
    <2>2. UNCHANGED contactVars
      BY <1>5 DEF ReadContact
    <2>3. CASE p \in parties
      <3>1. p \in born /\ p \in Party /\ IdentitiesOf(p) \subseteq Ident
        BY <2>3 DEF ContactsInv, ContactsTypeOK, IdentitiesOf
      <3>2. HolderInv'
        BY <1>1, <2>1, <2>2, <2>3, <3>1, ContinueKeeps DEF Steps, contactVars
      <3> QED
        BY <1>1, <2>2, <3>2, ContactsStay, StoresStay
    <2>4. CASE p \notin parties
      BY <1>3, <2>1, <2>2, <2>4 DEF contactVars
    <2> QED
      BY <2>3, <2>4
  <1>6. CASE RenameContact(r)
    <2>1. PICK p \in todo[r] \ Ident :
            LET ids == todo[r] \cap Ident IN
            IF CanUpdateParty(p, ids)
            THEN UpdateParty(p, ids) /\ ContactAdded(r, p, ids)
            ELSE Continue(r, "begin", {}) /\ UNCHANGED <<parties, born, owner>>
      BY <1>6 DEF RenameContact
    <2> DEFINE ids == todo[r] \cap Ident
    <2>2. CASE CanUpdateParty(p, ids)
      <3>1. UpdateParty(p, ids) /\ ContactAdded(r, p, ids)
        BY <2>1, <2>2
      <3>2. p \in born /\ born' = born /\ ids \in SUBSET Ident
        BY <1>2, <2>1, <3>1 DEF UpdateParty
      <3>3. ContactsInv'
        BY <1>1, <2>2, <3>1, <3>2, UpdatePartyKeeps
      <3> HIDE DEF ids
      <3>4. HolderInv'
        BY <1>1, <1>2, <3>1, <3>2, ContactAddedKeeps
      <3> QED
        BY <1>1, <3>3, <3>4, StoresStay
    <2>3. CASE ~CanUpdateParty(p, ids)
      BY <1>3, <2>1, <2>3
    <2> QED
      BY <2>2, <2>3
  <1> QED
    BY <1>4, <1>5, <1>6
-----------------------------------------------------------------------------
LEMMA BrandingDoneKeeps ==
    ASSUME HolderInv, NEW r \in Run, st[r] \in Branding, BrandingDone(r), born \subseteq born'
    PROVE  HolderInv'
  <1>1. ctx[r] \in Context /\ Known(st[r], ctx[r], born)
    BY DEF HolderInv, HolderTypes, Runs, Branding
  <1>2. CASE st[r] = "addIssuerBranding"
    <2>1. Go(r, Unselected(ctx[r]))
      BY <1>2 DEF BrandingDone
    <2>2. Known(Unselected(ctx[r]), ctx[r], born') /\ Unselected(ctx[r]) \in States \ {"idle"}
      BY <1>1, <1>2, UnselectedKnown, KnownGrows
    <2> QED
      BY <2>1, <2>2, GoKeeps
  <1>3. CASE st[r] = "addIssuerBrandingAfterIdentity"
    <2>1. Go(r, "reviewCredentials")
      BY <1>3 DEF BrandingDone
    <2>2. Known("reviewCredentials", ctx[r], born)
      BY <1>1, <1>3 DEF Known, Before, After, Unset
    <2> QED
      BY <2>1, <2>2, GoKeeps, KnownGrows DEF States, Waiting
  <1> QED
    BY <1>2, <1>3 DEF Branding

LEMMA BrandingServices ==
    ASSUME TypeInv, NEW r \in Run, FindIssuerBranding(r) \/ AddIssuerBranding(r) PROVE TypeInv'
  <1> USE DEF TypeInv
  <1>1. /\ st[r] \in Branding /\ UNCHANGED contactVars
        /\ st[r] \notin {"idle", "addContact", "storeCredentialBranding"}
    BY DEF FindIssuerBranding, AddIssuerBranding, Branding
  <1>2. born \subseteq born'
    BY <1>1 DEF contactVars
  <1>3. HolderInv'
    <2>1. CASE BrandingDone(r)
      BY <1>1, <1>2, <2>1, BrandingDoneKeeps
    <2>2. CASE Continue(r, "add", {}) \/ Continue(r, "stuck", {})
      BY <1>1, <1>2, <2>2, ContinueKeeps DEF Steps
    <2> QED
      BY <2>1, <2>2 DEF FindIssuerBranding, AddIssuerBranding
  <1>4. StoresInv'
    BY DEF FindIssuerBranding, AddIssuerBranding, StoresInv, storeVars, BrandKey, Ident
  <1> QED
    BY <1>1, <1>3, <1>4, ContactsStay

LEMMA RequestServices ==
    ASSUME TypeInv, NEW r \in Run, GetCredentials(r) \/ AssertValidCredentials(r) PROVE TypeInv'
  <1> USE DEF TypeInv
  <1>1. UNCHANGED <<storeVars, contactVars>>
    BY DEF GetCredentials, AssertValidCredentials
  <1>2. UNCHANGED born
    BY <1>1 DEF contactVars
  <1>3. HolderInv'
    <2> USE <1>2
    <2>1. CASE GetCredentials(r)
      <3> DEFINE got == {<<r, k>> : k \in ctx[r].sel}
                 c == [ctx[r] EXCEPT !.pin = FALSE, !.got = got]
                 d == [ctx[r] EXCEPT !.pin = FALSE]
      <3>1. st[r] = "getCredentials"
        BY <2>1 DEF GetCredentials, In
      <3>2. GoWith(r, "verifyCredentials", c) \/ GoWith(r, "handleError", d)
        BY <2>1 DEF GetCredentials
      <3>3. ctx[r] \in Context /\ Known("getCredentials", ctx[r], born)
        BY <3>1 DEF HolderInv, HolderTypes, Runs
      <3>4. got \subseteq Credential /\ {x[2] : x \in got} = ctx[r].sel
        <4>1. got \subseteq Credential
          BY <3>3 DEF Credential, Context
        <4>2. \A x \in got : x[2] \in ctx[r].sel
          OBVIOUS
        <4>3. \A k \in ctx[r].sel : <<r, k>> \in got /\ <<r, k>>[2] = k
          OBVIOUS
        <4>4. ctx[r].sel \subseteq {x[2] : x \in got}
          BY <4>3
        <4> QED
          BY <4>1, <4>2, <4>4
      <3> HIDE DEF got
      <3>5. c \in Context /\ Known("verifyCredentials", c, born)
        BY <3>3, <3>4 DEF Context, Known, Before, After, Unset
      <3>6. d \in Context /\ Known("handleError", d, born)
        BY <3>3 DEF Context, Known, Before, After, Unset
      <3> QED
        BY <3>2, <3>5, <3>6, GoWithKeeps DEF States, Invoking, Waiting
    <2>2. CASE AssertValidCredentials(r)
      <3>1. /\ st[r] = "verifyCredentials"
            /\ Go(r, AfterVerification(ctx[r])) \/ Go(r, "handleError")
        BY <2>2 DEF AssertValidCredentials, In
      <3>2. Known("verifyCredentials", ctx[r], born)
        BY <3>1 DEF HolderInv, Runs
      <3>3. Known(AfterVerification(ctx[r]), ctx[r], born)
        BY <3>2 DEF AfterVerification, Known, Before, After, Unset
      <3>4. AfterVerification(ctx[r]) \in States \ {"idle"}
        BY DEF AfterVerification, States, Waiting, Invoking
      <3> QED
        BY <3>1, <3>3, <3>4, GoKeeps, GoToEnd DEF Ended
    <2> QED
      BY <2>1, <2>2
  <1> QED
    BY <1>1, <1>3, ContactsStay, StoresStay

LEMMA IdentityServices ==
    ASSUME TypeInv, NEW r \in Run, FindIdentityParty(r) \/ SaveIdentity(r) PROVE TypeInv'
  <1> USE DEF TypeInv
  <1>1. st[r] = "addContactIdentity" /\ UNCHANGED <<edit, storeVars>>
    BY DEF FindIdentityParty, SaveIdentity, In, contactVars
  <1>2. ctx[r] \in Context /\ Known("addContactIdentity", ctx[r], born)
    BY <1>1 DEF HolderInv, HolderTypes, Runs
  <1>3. ASSUME Go(r, "handleError"), UNCHANGED <<parties, born, owner>> PROVE TypeInv'
    <2>1. HolderInv'
      BY <1>1, <1>3, GoToEnd DEF Ended
    <2> QED
      BY <1>1, <1>3, <2>1, ContactsStay, StoresStay DEF contactVars
  <1>4. CASE FindIdentityParty(r)
    <2>1. /\ UNCHANGED contactVars
          /\ \/ Continue(r, "save", {}) /\ ctx[r].offer.issuer = "did"
             \/ Go(r, "handleError")
      BY <1>4 DEF FindIdentityParty
    <2>2. CASE Continue(r, "save", {}) /\ ctx[r].offer.issuer = "did"
      <3>1. HolderInv'
        BY <1>1, <2>1, <2>2, ContinueKeeps DEF Steps, contactVars
      <3> QED
        BY <1>1, <2>1, <3>1, ContactsStay, StoresStay
    <2> QED
      BY <1>3, <2>1, <2>2 DEF contactVars
  <1>5. CASE SaveIdentity(r)
    <2> DEFINE i == ctx[r].offer.issuer
               p == ctx[r].contact
               c == [ctx[r] EXCEPT !.known = @ \cup {i}]
    <2>1. p # Nobody /\ i \in Ident
      BY <1>1, <1>2, <1>5, ContactAssumption
      DEF SaveIdentity, In, Known, Before, After, Unset, HolderInv, Runs, ContactsInv,
          ContactsTypeOK, Ident
    <2>2. CASE CanAddIdentity(p, i)
      <3>1. AddIdentity(p, i) /\ GoWith(r, "addIssuerBrandingAfterIdentity", c)
        BY <1>5, <2>2 DEF SaveIdentity
      <3>2. p \in parties /\ owner[i] = Nobody /\ UNCHANGED <<parties, born, edit>>
            /\ owner' = [owner EXCEPT ![i] = p]
        BY <1>1, <2>2, <3>1 DEF CanAddIdentity, AddIdentity
      <3>3. ContactsInv'
        BY <2>1, <3>2 DEF ContactsInv, ContactsTypeOK
      <3>4. c \in Context /\ Known("addIssuerBrandingAfterIdentity", c, born)
        BY <1>2, <2>1 DEF Context, Known, Before, After, Unset
      <3>5. HolderInv'
        BY <3>1, <3>2, <3>4, GoWithKeeps DEF States, Invoking, Branding
      <3> QED
        BY <1>1, <3>3, <3>5, StoresStay
    <2>3. CASE ~CanAddIdentity(p, i)
      BY <1>3, <1>5, <2>3 DEF SaveIdentity
    <2> QED
      BY <2>2, <2>3
  <1> QED
    BY <1>4, <1>5
-----------------------------------------------------------------------------
\* The least of some configurations is one of them.
LEMMA LeastIsOne == ASSUME NEW S, S \subseteq Nat, S # {} PROVE Min1(S) \in S
  <1>1. PICK x \in S : \A y \in S : ~(<<y, x>> \in OpToRel(<, Nat))
    BY NatLessThanWellFounded, WFMin
  <1>2. \A y \in S : x <= y
    <2> SUFFICES ASSUME NEW y \in S PROVE x <= y
      OBVIOUS
    <2>1. <<y, x>> \in Nat \X Nat /\ <<y, x>>[1] = y /\ <<y, x>>[2] = x
      OBVIOUS
    <2>2. ~(y < x)
      BY <1>1, <2>1 DEF OpToRel
    <2> QED
      BY <2>2
  <1> QED
    BY <1>2 DEF Min1

\* What is obtained for a selected configuration.
LEMMA ObtainedIsGot ==
    ASSUME NEW r \in Run, {x[2] : x \in ctx[r].got} = ctx[r].sel, NEW k \in ctx[r].sel
    PROVE  Obtained(r, k) \in ctx[r].got /\ Obtained(r, k)[2] = k
  <1>1. \E x \in ctx[r].got : x[2] = k
    OBVIOUS
  <1> QED
    BY <1>1 DEF Obtained

LEMMA FirstIsGot ==
    ASSUME HolderInv, NEW r \in Run, st[r] \in After
    PROVE  First(r) \in ctx[r].got /\ First(r) \in Credential
  <1>1. ctx[r] \in Context /\ Known(st[r], ctx[r], born)
    BY DEF HolderInv, HolderTypes, Runs, After
  <1>2. ctx[r].sel \subseteq Nat /\ ctx[r].sel # {} /\ {x[2] : x \in ctx[r].got} = ctx[r].sel
    BY <1>1, HolderAssumption DEF Context, Known
  <1>3. Min1(ctx[r].sel) \in ctx[r].sel
    BY <1>2, LeastIsOne
  <1>4. ctx[r].got \subseteq Credential
    BY <1>1 DEF Context
  <1> QED
    BY <1>2, <1>3, <1>4, ObtainedIsGot DEF First

LEMMA AcceptServices ==
    ASSUME TypeInv, NEW r \in Run,
           StoreCredentialBranding(r) \/ SendNotification(r) \/ StoreCredential(r)
    PROVE  TypeInv'
  <1> USE DEF TypeInv
  <1>1. UNCHANGED contactVars /\ born \subseteq born'
    BY DEF StoreCredentialBranding, SendNotification, StoreCredential, contactVars
  <1>2. CASE StoreCredentialBranding(r)
    <2>1. st[r] = "storeCredentialBranding" /\ UNCHANGED <<brands, stored, deleting, gone, told>>
      BY <1>2 DEF StoreCredentialBranding
    <2>2. ctx[r] \in Context /\ Known("storeCredentialBranding", ctx[r], born)
          /\ todo[r] \subseteq ctx[r].sel
      BY <2>1 DEF HolderInv, HolderTypes, Runs
    <2>3. CASE todo[r] = {}
      <3>1. Go(r, "storeCredentials") /\ UNCHANGED branded
        BY <1>2, <2>3 DEF StoreCredentialBranding
      <3>2. Known("storeCredentials", ctx[r], born)
        BY <2>2 DEF Known, Before, After, Unset
      <3>3. HolderInv'
        BY <1>1, <3>1, <3>2, GoKeeps, KnownGrows DEF States, Invoking
      <3> QED
        BY <1>1, <2>1, <3>1, <3>3, ContactsStay, StoresStay DEF storeVars
    <2>4. CASE todo[r] # {}
      <3> DEFINE k == Min1(todo[r])
      <3>1. IF CanBrand(Obtained(r, k))
            THEN branded' = branded \cup {Obtained(r, k)} /\ Continue(r, "begin", todo[r] \ {k})
            ELSE Go(r, "handleError") /\ UNCHANGED branded
        BY <1>2, <2>4 DEF StoreCredentialBranding
      <3>2. k \in todo[r]
        BY <2>2, <2>4, LeastIsOne, HolderAssumption DEF Context
      <3>3. Obtained(r, k) \in Credential
        BY <2>2, <3>2, ObtainedIsGot DEF Known, After, Context
      <3> HIDE DEF k
      <3>4. CASE CanBrand(Obtained(r, k))
        <4>1. todo[r] \ {k} \in SUBSET (Party \cup Ident \cup Config)
          BY <2>2 DEF Context
        <4>2. HolderInv'
          BY <1>1, <2>1, <2>2, <3>1, <3>4, <4>1, ContinueKeeps DEF Steps
        <4>3. StoresInv'
          BY <2>1, <3>1, <3>3, <3>4 DEF StoresInv
        <4> QED
          BY <1>1, <4>2, <4>3, ContactsStay
      <3>5. CASE ~CanBrand(Obtained(r, k))
        <4>1. HolderInv'
          BY <1>1, <2>1, <3>1, <3>5, GoToEnd DEF Ended
        <4> QED
          BY <1>1, <2>1, <3>1, <3>5, <4>1, ContactsStay, StoresStay DEF storeVars
      <3> QED
        BY <3>4, <3>5
    <2> QED
      BY <2>3, <2>4
  <1>3. CASE SendNotification(r)
    <2>1. /\ st[r] = "storeCredentials"
          /\ Continue(r, "save", {}) \/ Go(r, "handleError")
          /\ told' = [told EXCEPT ![First(r)] = @ + 1] \/ UNCHANGED told
          /\ UNCHANGED <<brands, branded, stored, deleting, gone>>
      BY <1>3 DEF SendNotification
    <2>2. HolderInv'
      BY <1>1, <2>1, ContinueKeeps, GoToEnd DEF Steps, Ended
    <2>3. First(r) \in Credential
      BY <2>1, FirstIsGot DEF After
    <2>4. StoresInv'
      BY <2>1, <2>3 DEF StoresInv
    <2> QED
      BY <1>1, <2>2, <2>4, ContactsStay
  <1>4. CASE StoreCredential(r)
    <2>1. /\ st[r] = "storeCredentials"
          /\ Go(r, "done") \/ Go(r, "handleError")
          /\ stored' = stored \cup {First(r)} \/ UNCHANGED stored
          /\ UNCHANGED <<brands, branded, deleting, gone, told>>
      BY <1>4 DEF StoreCredential, ToStore
    <2>2. HolderInv'
      <3>1. Known("storeCredentials", ctx[r], born)
        BY <2>1 DEF HolderInv, Runs
      <3>2. Known("done", ctx[r], born)
        BY <3>1 DEF Known, Before, After, Unset
      <3> QED
        BY <1>1, <2>1, <3>2, KnownGrows, GoKeeps, GoToEnd DEF Ended, States, Final
    <2>3. First(r) \in Credential
      BY <2>1, FirstIsGot DEF After
    <2>4. StoresInv'
      BY <2>1, <2>3 DEF StoresInv
    <2> QED
      BY <1>1, <2>2, <2>4, ContactsStay
  <1> QED
    BY <1>2, <1>3, <1>4

LEMMA EditsKeep == ASSUME TypeInv, Editing PROVE TypeInv'
  <1> USE DEF TypeInv
  <1>1. ASSUME NEW op \in {"rename", "remove"}, NEW p \in parties, BeginEdit(op, p)
        PROVE  ContactsInv'
    <2>1. edit' \in [op : {"none", "rename", "remove"}, at : {"find", "write"},
                     party : Party \cup {Nobody}, ids : SUBSET Ident]
      BY <1>1 DEF BeginEdit, ContactsInv, ContactsTypeOK
    <2> QED
      BY <1>1, <2>1 DEF BeginEdit, ContactsInv, ContactsTypeOK
  <1>2. ASSUME ReadEdited PROVE ContactsInv'
    <2>1. [edit EXCEPT !.at = "write", !.ids = IdentitiesOf(edit.party)] \in
            [op : {"none", "rename", "remove"}, at : {"find", "write"},
             party : Party \cup {Nobody}, ids : SUBSET Ident]
      BY DEF ContactsInv, ContactsTypeOK, IdentitiesOf
    <2> QED
      BY <1>2, <2>1 DEF ReadEdited, NoEdit, ContactsInv, ContactsTypeOK
  <1>3. ASSUME WriteRenamed PROVE ContactsInv'
    <2>1. edit.party \in born /\ edit' = NoEdit
      BY <1>3 DEF WriteRenamed, ContactsInv
    <2>2. CASE CanUpdateParty(edit.party, edit.ids)
      BY <1>3, <2>1, <2>2, UpdatePartyKeeps DEF WriteRenamed
    <2>3. CASE ~CanUpdateParty(edit.party, edit.ids)
      BY <1>3, <2>1, <2>3 DEF WriteRenamed, ContactsInv, ContactsTypeOK, NoEdit
    <2> QED
      BY <2>2, <2>3
  <1>4. ASSUME RemoveIdentity PROVE ContactsInv'
    <2>1. PICK i \in edit.ids :
            /\ owner' = [owner EXCEPT ![i] = IF @ \in {edit.party, Orphan} THEN Nobody ELSE @]
            /\ edit' = [edit EXCEPT !.ids = @ \ {i}]
            /\ UNCHANGED <<parties, born>>
      BY <1>4 DEF RemoveIdentity
    <2>2. edit' \in [op : {"none", "rename", "remove"}, at : {"find", "write"},
                     party : Party \cup {Nobody}, ids : SUBSET Ident]
      BY <2>1 DEF ContactsInv, ContactsTypeOK
    <2> QED
      BY <2>1, <2>2 DEF ContactsInv, ContactsTypeOK
  <1>5. ASSUME RemoveParty PROVE ContactsInv'
    <2>1. Cardinality(parties') <= 1
      BY <1>5, AtMostOne DEF RemoveParty, ContactsInv
    <2> QED
      BY <1>5, <2>1 DEF RemoveParty, ContactsInv, ContactsTypeOK, NoEdit
  <1>6. CASE Edit
    <2>1. UNCHANGED <<holderVars, storeVars>> /\ born' = born
      BY <1>6 DEF Edit, BeginAnEdit, GoOnEditing, BeginEdit, ReadEdited, WriteRenamed,
                  RemoveIdentity, RemoveParty, UpdateParty
    <2>2. ContactsInv'
      BY <1>1, <1>2, <1>3, <1>4, <1>5, <1>6 DEF Edit, BeginAnEdit, GoOnEditing
    <2> QED
      BY <2>1, <2>2, HolderStays, StoresStay
  <1>7. CASE DeleteBranding \/ DeleteCredential
    <2>1. UNCHANGED <<holderVars, contactVars>> /\ born' = born
      BY <1>7 DEF DeleteBranding, DeleteCredential, contactVars
    <2>2. StoresInv'
      BY <1>7 DEF DeleteBranding, DeleteCredential, StoresInv
    <2> QED
      BY <2>1, <2>2, HolderStays, ContactsStay
  <1> QED
    BY <1>6, <1>7 DEF Editing

LEMMA TypeStep == ASSUME TypeInv, [Next]_vars PROVE TypeInv'
  <1>1. CASE Crash
    BY <1>1, SaveOrCrash
  <1>2. CASE Editing
    BY <1>2, EditsKeep
  <1>3. ASSUME NEW r \in Run, User(r) PROVE TypeInv'
    BY <1>3, UserSetup, UserOnMachine DEF User
  <1>4. ASSUME NEW r \in Run, Service(r) PROVE TypeInv'
    BY <1>4, SetupServices, ContactServices, BrandingServices, RequestServices,
       IdentityServices, AcceptServices DEF Service
  <1>5. ASSUME NEW r \in Run, SaveState(r) PROVE TypeInv'
    BY <1>5, SaveOrCrash
  <1>6. CASE UNCHANGED vars
    BY <1>6, HolderStays, ContactsStay, StoresStay DEF vars, TypeInv, contactVars
  <1> QED
    BY <1>1, <1>2, <1>3, <1>4, <1>5, <1>6 DEF Next

LEMMA TypeInvImpliesTypeOK == TypeInv => TypeOK
  <1> SUFFICES ASSUME TypeInv PROVE TypeOK
    OBVIOUS
  <1> USE DEF TypeInv, HolderInv
  <1>1. \A r \in Run : todo[r] \subseteq IF st[r] = "storeCredentialBranding"
                                         THEN ctx[r].sel ELSE Party \cup Ident
    BY DEF Runs
  <1>2. ASSUME NEW r \in Run, st[r] # "idle"
        PROVE  /\ ctx[r].offer \in Offer /\ ctx[r].flow \in Run
               /\ ctx[r].sel \subseteq ctx[r].offer.choices
               /\ ctx[r].contact = Nobody => ctx[r].known = {}
               /\ st[r] \in (Waiting \cup Branding) \ {"addContact", "handleError"}
                     => ctx[r].contact \in born
               /\ st[r] \in {"verifyCredentials", "addContactIdentity", "reviewCredentials",
                            "storeCredentialBranding", "storeCredentials", "done"}
                     => ctx[r].sel # {} /\ {c[2] : c \in ctx[r].got} = ctx[r].sel
    <2>1. Known(st[r], ctx[r], born)
      BY <1>2 DEF Runs
    <2> QED
      BY <2>1 DEF Known, Waiting, Branding, Before, After, Unset
  <1> QED
    BY <1>1, <1>2 DEF TypeOK, HolderTypes, ContactsInv, StoresInv, States, Steps

(* The types of the wallet's state, and what a run knows of its flow in    *)
(* every state, for any number of runs, offers, crashes and edits.         *)
THEOREM TypeCorrect == Spec => []TypeOK
  <1>1. TypeInv /\ [Next]_vars => TypeInv'
    BY TypeStep
  <1> QED
    BY TypeInit, TypeInvImpliesTypeOK, <1>1, PTL DEF Spec

(* No run asks the issuer for credentials without the code or the PIN that *)
(* the offer calls for, whichever way the user went back and forth, and    *)
(* whatever saved state the run was resumed from.                          *)
THEOREM RequestsAreGranted == Spec => []NoRequestWithoutGrant
  <1>1. TypeInv /\ [Next]_vars => TypeInv'
    BY TypeStep
  <1>2. TypeInv => NoRequestWithoutGrant
    <2> SUFFICES ASSUME TypeInv, NEW r \in Run, st[r] = "getCredentials",
                        ctx[r].offer.auth \/ ctx[r].offer.pin
                 PROVE  Grant(ctx[r])
      BY DEF NoRequestWithoutGrant, Grant
    <2> QED
      BY DEF TypeInv, HolderInv, Runs, Known
  <1> QED
    BY TypeInit, <1>1, <1>2, PTL DEF Spec
-----------------------------------------------------------------------------
(* The refinement. A credential in somebody's hand, or in the wallet, was  *)
(* obtained by a run that is past its request, so that what a request      *)
(* brings is new; and what a saved state has in hand some run has, too.    *)
Spent == After \cup Ended

Fresh ==
    /\ \A q \in Run : \A x \in ctx[q].got : st[x[1]] \in Spent
    /\ \A x \in stored : st[x[1]] \in Spent

Handed == \A f \in Run : rows[f].ctx.got = {} \/ \E q \in Run : ctx[q].got = rows[f].ctx.got

OneDeleted == \A x, y \in deleting : x = y

IssuanceInv == TypeInv /\ Fresh /\ Handed /\ OneDeleted

PhaseOf(s, a) ==
    IF s = "idle" THEN "idle"
    ELSE IF a = "stuck" \/ s \in Final \cup {"dead", "handleError"} THEN "over"
    ELSE CASE s = "getCredentials" -> "requesting"
           [] s \in {"verifyCredentials", "addContactIdentity",
                        "addIssuerBrandingAfterIdentity", "reviewCredentials"} -> "offered"
           [] s \in {"storeCredentialBranding", "storeCredentials"} -> "accepted"
           [] OTHER -> "asking"

Moves(p, q) ==
    \/ q \in {p, "over"}
    \/ p = "idle" /\ q = "asking"
    \/ p = "asking" /\ q = "requesting"
    \/ p = "offered" /\ q = "accepted"

phases == [r \in Run |-> Phase(r)]
hands == [r \in Run |-> ctx[r].got]

\* Run r moves on, with what it has in hand.
Onward(r) ==
    /\ \A q \in Run \ {r} : st'[q] = st[q] /\ at'[q] = at[q]
    /\ \A q \in Run : ctx'[q].got = ctx[q].got
    /\ UNCHANGED <<stored, deleting>>
    /\ rows' = rows \/ rows' = [f \in Run |-> NoRow]
    /\ st[r] \in Spent => st'[r] \in Spent
    /\ Moves(PhaseOf(st[r], at[r]), PhaseOf(st'[r], at'[r]))

LEMMA IssuanceInit == Init => IssuanceInv /\ Issuance!Init
  <1> SUFFICES ASSUME Init PROVE IssuanceInv /\ Issuance!Init
    OBVIOUS
  <1>1. TypeInv
    BY TypeInit
  <1>2. Fresh /\ Handed /\ OneDeleted
    BY DEF Init, Fresh, Handed, OneDeleted, NoContext, NoRow
  <1>3. Issuance!Init
    <2>1. \A r \in Run : st[r] = "idle" /\ ctx[r].got = {}
      BY DEF Init, NoContext
    <2>2. \A r \in Run : Phase(r) = "idle"
      BY <2>1 DEF Phase
    <2> QED
      BY <2>1, <2>2 DEF Init, Issuance!Init
  <1> QED
    BY <1>1, <1>2, <1>3 DEF IssuanceInv

LEMMA GotType == ASSUME TypeInv, NEW q \in Run, NEW x \in ctx[q].got PROVE x[1] \in Run
  BY DEF TypeInv, HolderInv, HolderTypes, Context, Credential

LEMMA StoredType == ASSUME TypeInv, NEW x \in stored PROVE x[1] \in Run
  BY DEF TypeInv, StoresInv, Credential

LEMMA OnwardKeeps ==
    ASSUME IssuanceInv, TypeInv', NEW r \in Run, Onward(r)
    PROVE  IssuanceInv' /\ (Issuance!Next \/ UNCHANGED Issuance!vars)
  <1>1. \A q \in Run : st[q] \in Spent => st'[q] \in Spent
    BY DEF Onward
  <1>2. Fresh'
    BY <1>1, GotType, StoredType DEF IssuanceInv, Fresh, Onward
  <1>3. Handed'
    BY DEF IssuanceInv, Handed, Onward, NoRow, NoContext
  <1>4. OneDeleted'
    BY DEF IssuanceInv, OneDeleted, Onward
  <1>5. \A q \in Run : Phase(q) = PhaseOf(st[q], at[q]) /\ Phase(q)' = PhaseOf(st'[q], at'[q])
    BY DEF Phase, PhaseOf
  <1>6. phases' = [phases EXCEPT ![r] = Phase(r)']
    <2>1. \A q \in Run \ {r} : Phase(q)' = Phase(q)
      BY <1>5 DEF Onward
    <2> QED
      BY <2>1 DEF phases
  <1>7. hands' = hands /\ stored' = stored
    BY DEF hands, Onward
  <1>8. Moves(Phase(r), Phase(r)')
    BY <1>5 DEF Onward
  <1>9. phases[r] = Phase(r)
    BY DEF phases
  <1>10. Issuance!Next \/ UNCHANGED Issuance!vars
    <2>1. CASE Phase(r)' = Phase(r)
      BY <1>6, <1>7, <1>9, <2>1 DEF Issuance!vars, phases, hands
    <2>2. CASE Phase(r)' = "over"
      <3>1. phases' = [q \in Run |-> IF q \in {r} THEN "over" ELSE phases[q]]
        BY <1>6, <2>2 DEF phases
      <3>2. Issuance!End({r})
        BY <1>7, <3>1 DEF Issuance!End, phases, hands
      <3> QED
        BY <3>2 DEF Issuance!Next
    <2>3. CASE Phase(r) = "idle" /\ Phase(r)' = "asking"
      <3>1. Issuance!Begin(r)
        BY <1>6, <1>7, <1>9, <2>3 DEF Issuance!Begin, Issuance!Become, phases, hands
      <3> QED
        BY <3>1 DEF Issuance!Next
    <2>4. CASE Phase(r) = "asking" /\ Phase(r)' = "requesting"
      <3>1. Issuance!Grant(r)
        BY <1>6, <1>7, <1>9, <2>4 DEF Issuance!Grant, Issuance!Become, phases, hands
      <3> QED
        BY <3>1 DEF Issuance!Next
    <2>5. CASE Phase(r) = "offered" /\ Phase(r)' = "accepted"
      <3>1. Issuance!Accept(r)
        BY <1>6, <1>7, <1>9, <2>5 DEF Issuance!Accept, Issuance!Become, phases, hands
      <3> QED
        BY <3>1 DEF Issuance!Next
    <2> QED
      BY <1>8, <2>1, <2>2, <2>3, <2>4, <2>5 DEF Moves
  <1> QED
    BY <1>2, <1>3, <1>4, <1>10 DEF IssuanceInv

\* Steps that change neither the runs nor the wallet.
LEMMA IdleStep ==
    ASSUME IssuanceInv, TypeInv', UNCHANGED <<st, at, ctx, rows, stored, deleting>>
    PROVE  IssuanceInv' /\ UNCHANGED Issuance!vars
  BY DEF IssuanceInv, Fresh, Handed, OneDeleted, Issuance!vars, Phase

LEMMA GoWithOnward ==
    ASSUME TypeInv, NEW r \in Run, NEW s, NEW c, GoWith(r, s, c), c.got = ctx[r].got,
           UNCHANGED <<stored, deleting>>,
           st[r] \in Spent => s \in Spent,
           Moves(PhaseOf(st[r], at[r]), PhaseOf(s, "begin"))
    PROVE  Onward(r)
  <1>1. st'[r] = s /\ at'[r] = "begin"
    BY DEF GoWith, TypeInv, HolderInv, HolderTypes
  <1>2. \A q \in Run \ {r} : st'[q] = st[q] /\ at'[q] = at[q]
    BY DEF GoWith, TypeInv, HolderInv, HolderTypes
  <1>3. \A q \in Run : ctx'[q].got = ctx[q].got
    BY DEF GoWith, TypeInv, HolderInv, HolderTypes
  <1> QED
    BY <1>1, <1>2, <1>3 DEF Onward, GoWith

LEMMA GoOnward ==
    ASSUME TypeInv, NEW r \in Run, NEW s, Go(r, s), UNCHANGED <<stored, deleting>>,
           st[r] \in Spent => s \in Spent,
           Moves(PhaseOf(st[r], at[r]), PhaseOf(s, "begin"))
    PROVE  Onward(r)
  BY GoWithOnward DEF Go

LEMMA EndOnward ==
    ASSUME TypeInv, NEW r \in Run, NEW s \in Ended, Go(r, s), UNCHANGED <<stored, deleting>>,
           st[r] # "idle"
    PROVE  Onward(r)
  <1>1. s \in Spent /\ PhaseOf(s, "begin") = "over"
    BY DEF Spent, Ended, PhaseOf, Final
  <1>2. Moves(PhaseOf(st[r], at[r]), PhaseOf(s, "begin"))
    BY <1>1 DEF Moves
  <1> QED
    BY <1>1, <1>2, GoOnward

LEMMA ContinueOnward ==
    ASSUME TypeInv, NEW r \in Run, NEW step \in Steps, NEW left, Continue(r, step, left),
           UNCHANGED <<stored, deleting>>, at[r] # "stuck"
    PROVE  Onward(r)
  <1>1. st'[r] = st[r] /\ at'[r] = step
    BY DEF Continue, TypeInv, HolderInv, HolderTypes
  <1>2. \A q \in Run \ {r} : st'[q] = st[q] /\ at'[q] = at[q]
    BY DEF Continue, TypeInv, HolderInv, HolderTypes
  <1>3. CASE step = "stuck"
    <2>1. PhaseOf(st[r], step) \in {"over", PhaseOf(st[r], at[r])}
      BY <1>3 DEF PhaseOf
    <2> QED
      BY <1>1, <1>2, <2>1 DEF Onward, Continue, Moves
  <1>4. CASE step # "stuck"
    <2>1. PhaseOf(st[r], step) = PhaseOf(st[r], at[r])
      BY <1>4 DEF PhaseOf
    <2> QED
      BY <1>1, <1>2, <2>1 DEF Onward, Continue, Moves
  <1> QED
    BY <1>3, <1>4

LEMMA UnselectedOnward ==
    \A c : /\ PhaseOf(Unselected(c), "begin") \in {"asking", "requesting"}
           /\ PhaseOf(AfterSetup(c), "begin") \in {"asking", "requesting"}
           /\ PhaseOf(Selected(c), "begin") \in {"asking", "requesting"}
  BY DEF PhaseOf, Unselected, AfterSetup, Selected, Final

LEMMA UserOnward ==
    ASSUME IssuanceInv, NEW r \in Run,
           OpenOffer(r) \/ LookForContact(r) \/ SelectCredentials(r) \/ InvokeAuthorization(r)
           \/ EnterPin(r) \/ GoBack(r) \/ AcceptCredentials(r)
    PROVE  Onward(r)
  <1> USE DEF IssuanceInv
  <1>1. UNCHANGED <<stored, deleting>>
    BY DEF OpenOffer, LookForContact, SelectCredentials, InvokeAuthorization, EnterPin, GoBack,
           AcceptCredentials, storeVars
  <1>2. CASE OpenOffer(r)
    <2>1. /\ st[r] = "idle" /\ st' = [st EXCEPT ![r] = "start"]
          /\ rows' = [f \in Run |-> NoRow] /\ at' = at
          /\ \E o \in Offer : ctx' = [ctx EXCEPT ![r] = [NoContext EXCEPT !.flow = r, !.offer = o]]
      BY <1>2 DEF OpenOffer
    <2>2. at[r] = "begin" /\ ctx[r].got = {} /\ ctx'[r].got = {}
      BY <2>1 DEF TypeInv, HolderInv, HolderTypes, Runs, NoContext
    <2>3. /\ st'[r] = "start"
          /\ \A q \in Run \ {r} : st'[q] = st[q] /\ ctx'[q] = ctx[q]
      BY <2>1 DEF TypeInv, HolderInv, HolderTypes
    <2>4. Moves(PhaseOf("idle", "begin"), PhaseOf("start", "begin"))
      BY DEF Moves, PhaseOf, Final
    <2>5. "idle" \notin Spent
      BY DEF Spent, After, Ended
    <2> QED
      BY <1>1, <2>1, <2>2, <2>3, <2>4, <2>5 DEF Onward
  <1>3. CASE LookForContact(r)
    <2>1. at[r] # "stuck" /\ Continue(r, IF parties = {} THEN "create" ELSE "read", parties)
      BY <1>3 DEF LookForContact
    <2> QED
      BY <1>1, <2>1, ContinueOnward DEF Steps
  <1>4. CASE SelectCredentials(r)
    <2>1. PICK sel : LET c == [ctx[r] EXCEPT !.sel = sel] IN GoWith(r, Selected(c), c)
      BY <1>4 DEF SelectCredentials
    <2> DEFINE c == [ctx[r] EXCEPT !.sel = sel]
    <2>2. c.got = ctx[r].got
      BY DEF TypeInv, HolderInv, HolderTypes, Context
    <2>3. st[r] = "selectCredentials" /\ at[r] = "begin"
      BY <1>4 DEF SelectCredentials
    <2>4. PhaseOf(st[r], at[r]) = "asking" /\ st[r] \notin Spent
      BY <2>3 DEF PhaseOf, Final, Spent, After, Ended
    <2> HIDE DEF c
    <2>5. Moves(PhaseOf(st[r], at[r]), PhaseOf(Selected(c), "begin"))
      BY <2>4, UnselectedOnward DEF Moves
    <2>6. GoWith(r, Selected(c), c)
      BY <2>1 DEF c
    <2> QED
      BY <1>1, <2>2, <2>4, <2>5, <2>6, GoWithOnward
  <1>5. CASE InvokeAuthorization(r)
    <2>1. /\ st[r] = "initiateAuthorizationRequest" /\ at[r] = "begin"
          /\ st' = [st EXCEPT ![r] = "waitForAuthorizationResponse"]
          /\ UNCHANGED <<at, ctx, rows>>
      BY <1>5 DEF InvokeAuthorization
    <2>2. /\ st'[r] = "waitForAuthorizationResponse"
          /\ \A q \in Run \ {r} : st'[q] = st[q]
      BY <2>1 DEF TypeInv, HolderInv, HolderTypes
    <2>3. Moves(PhaseOf(st[r], at[r]), PhaseOf(st'[r], at[r])) /\ st[r] \notin Spent
      BY <2>1, <2>2 DEF Moves, PhaseOf, Final, Spent, After, Ended
    <2> QED
      BY <1>1, <2>1, <2>2, <2>3 DEF Onward
  <1>6. CASE EnterPin(r)
    <2> DEFINE c == [ctx[r] EXCEPT !.pin = TRUE]
    <2>1. st[r] = "verifyPin" /\ at[r] = "begin" /\ GoWith(r, "getCredentials", c)
      BY <1>6 DEF EnterPin
    <2>2. c.got = ctx[r].got
      BY DEF TypeInv, HolderInv, HolderTypes, Context
    <2>3. Moves(PhaseOf(st[r], at[r]), PhaseOf("getCredentials", "begin")) /\ st[r] \notin Spent
      BY <2>1 DEF Moves, PhaseOf, Final, Spent, After, Ended
    <2> QED
      BY <1>1, <2>1, <2>2, <2>3, GoWithOnward
  <1>7. CASE GoBack(r)
    <2>1. PICK s : /\ st[r] \in Waiting /\ at[r] = "begin" /\ Go(r, s)
                   /\ \/ s = Previous(r)
                      \/ s = "declined" /\ st[r] \in {"addContact", "reviewCredentials"}
      BY <1>7 DEF GoBack
    <2>2. \/ s \in Ended
          \/ s = "selectCredentials" /\ st[r] \in {"initiateAuthorizationRequest", "verifyPin"}
          \/ s = "initiateAuthorizationRequest" /\ st[r] = "waitForAuthorizationResponse"
      BY <2>1 DEF Previous, Ended, Waiting
    <2>3. CASE s \in Ended
      BY <1>1, <2>1, <2>3, EndOnward DEF Waiting
    <2>4. CASE s \notin Ended
      <3>1. Moves(PhaseOf(st[r], at[r]), PhaseOf(s, "begin")) /\ st[r] \notin Spent
        BY <2>1, <2>2, <2>4 DEF Moves, PhaseOf, Final, Spent, After, Ended
      <3> QED
        BY <1>1, <2>1, <3>1, GoOnward
    <2> QED
      BY <2>3, <2>4
  <1>8. CASE AcceptCredentials(r)
    <2>1. /\ st[r] = "reviewCredentials" /\ at[r] = "begin"
          /\ st' = [st EXCEPT ![r] = "storeCredentialBranding"]
          /\ UNCHANGED <<at, ctx, rows>>
      BY <1>8 DEF AcceptCredentials
    <2>2. /\ st'[r] = "storeCredentialBranding"
          /\ \A q \in Run \ {r} : st'[q] = st[q]
      BY <2>1 DEF TypeInv, HolderInv, HolderTypes
    <2>3. Moves(PhaseOf(st[r], at[r]), PhaseOf(st'[r], at[r])) /\ st'[r] \in Spent
      BY <2>1, <2>2 DEF Moves, PhaseOf, Final, Spent, After, Ended
    <2> QED
      BY <1>1, <2>1, <2>2, <2>3 DEF Onward
  <1> QED
    BY <1>2, <1>3, <1>4, <1>5, <1>6, <1>7, <1>8

\* What the services do, but for obtaining a credential and for storing it.
LEMMA ServiceOnward ==
    ASSUME IssuanceInv, NEW r \in Run, Service(r),
           UNCHANGED stored, \A q \in Run : ctx'[q].got = ctx[q].got
    PROVE  Onward(r)
  <1> USE DEF IssuanceInv
  <1>1. UNCHANGED <<stored, deleting>>
    BY DEF Service, Start, CreateCredentialsToSelectFrom, GetContact, CreateContact, ReadContact,
           RenameContact, FindIssuerBranding, AddIssuerBranding, GetCredentials,
           AssertValidCredentials, FindIdentityParty, SaveIdentity, StoreCredentialBranding,
           SendNotification, StoreCredential, storeVars
  <1>2. ASSUME NEW s, NEW c, GoWith(r, s, c), st[r] \in Spent => s \in Spent,
               Moves(PhaseOf(st[r], at[r]), PhaseOf(s, "begin"))
        PROVE  Onward(r)
    <2>1. c.got = ctx[r].got
      BY <1>2 DEF GoWith, TypeInv, HolderInv, HolderTypes
    <2> QED
      BY <1>1, <1>2, <2>1, GoWithOnward
  <1>3. ASSUME NEW s, Go(r, s), st[r] \in Spent => s \in Spent,
               Moves(PhaseOf(st[r], at[r]), PhaseOf(s, "begin"))
        PROVE  Onward(r)
    BY <1>2, <1>3 DEF Go
  <1>4. ASSUME Go(r, "handleError"), st[r] # "idle" PROVE Onward(r)
    BY <1>1, <1>4, EndOnward DEF Ended
  <1>5. CASE Start(r) \/ CreateCredentialsToSelectFrom(r)
    <2>1. /\ st[r] \in {"start", "createCredentialsToSelectFrom"} /\ at[r] = "begin"
          /\ \/ Go(r, "createCredentialsToSelectFrom") \/ Go(r, "handleError")
             \/ GoWith(r, "getContact", [ctx[r] EXCEPT !.sel = ctx[r].offer.choices])
      BY <1>5 DEF Start, CreateCredentialsToSelectFrom
    <2>2. /\ st[r] \notin Spent
          /\ Moves(PhaseOf(st[r], at[r]), PhaseOf("createCredentialsToSelectFrom", "begin"))
          /\ Moves(PhaseOf(st[r], at[r]), PhaseOf("getContact", "begin"))
      BY <2>1 DEF Moves, PhaseOf, Final, Spent, After, Ended
    <2> QED
      BY <1>2, <1>3, <1>4, <2>1, <2>2
  <1>6. CASE GetContact(r)
    <2>1. /\ st[r] = "getContact" /\ at[r] = "begin"
          /\ Go(r, "handleError") \/ \E c : GoWith(r, AfterSetup(c), c)
      BY <1>6 DEF GetContact
    <2>2. PhaseOf(st[r], at[r]) = "asking" /\ st[r] \notin Spent
      BY <2>1 DEF PhaseOf, Final, Spent, After, Ended
    <2>3. \A c : Moves(PhaseOf(st[r], at[r]), PhaseOf(AfterSetup(c), "begin"))
      BY <2>2, UnselectedOnward DEF Moves
    <2> QED
      BY <1>2, <1>4, <2>1, <2>2, <2>3
  <1>7. CASE CreateContact(r) \/ ReadContact(r) \/ RenameContact(r)
    <2>1. st[r] = "addContact" /\ at[r] \in {"create", "read", "rename"}
      BY <1>7 DEF CreateContact, ReadContact, RenameContact
    <2>2. \/ \E step \in Steps : \E left : Continue(r, step, left)
          \/ \E c : GoWith(r, "addIssuerBranding", c)
      BY <1>7 DEF CreateContact, ReadContact, RenameContact, ContactAdded, Steps
    <2>3. /\ st[r] \notin Spent
          /\ Moves(PhaseOf(st[r], at[r]), PhaseOf("addIssuerBranding", "begin"))
      BY <2>1 DEF Moves, PhaseOf, Final, Spent, After, Ended
    <2> QED
      BY <1>1, <1>2, <2>1, <2>2, <2>3, ContinueOnward
  <1>8. CASE FindIssuerBranding(r) \/ AddIssuerBranding(r)
    <2>1. st[r] \in Branding /\ at[r] \in {"begin", "add"}
      BY <1>8 DEF FindIssuerBranding, AddIssuerBranding
    <2>2. BrandingDone(r) \/ \E step \in Steps : \E left : Continue(r, step, left)
      BY <1>8 DEF FindIssuerBranding, AddIssuerBranding, Steps
    <2>3. CASE BrandingDone(r) /\ st[r] = "addIssuerBranding"
      <3>1. PhaseOf(st[r], at[r]) = "asking" /\ st[r] \notin Spent
        BY <2>1, <2>3 DEF PhaseOf, Final, Spent, After, Ended
      <3>2. Moves(PhaseOf(st[r], at[r]), PhaseOf(Unselected(ctx[r]), "begin"))
        BY <3>1, UnselectedOnward DEF Moves
      <3> QED
        BY <1>3, <2>3, <3>1, <3>2 DEF BrandingDone
    <2>4. CASE BrandingDone(r) /\ st[r] = "addIssuerBrandingAfterIdentity"
      <3>1. Go(r, "reviewCredentials") /\ "reviewCredentials" \in Spent
        BY <2>4 DEF BrandingDone, Spent, After
      <3>2. Moves(PhaseOf(st[r], at[r]), PhaseOf("reviewCredentials", "begin"))
        BY <2>1, <2>4 DEF Moves, PhaseOf, Final
      <3> QED
        BY <1>3, <3>1, <3>2
    <2> QED
      BY <1>1, <2>1, <2>2, <2>3, <2>4, ContinueOnward DEF Branding
  <1>9. CASE GetCredentials(r)
    <2> DEFINE c == [ctx[r] EXCEPT !.pin = FALSE, !.got = {<<r, k>> : k \in ctx[r].sel}]
    <2>1. /\ st[r] = "getCredentials"
          /\ GoWith(r, "verifyCredentials", c)
             \/ GoWith(r, "handleError", [ctx[r] EXCEPT !.pin = FALSE])
      BY <1>9 DEF GetCredentials
    <2>2. ~GoWith(r, "verifyCredentials", c)
      <3> SUFFICES ASSUME GoWith(r, "verifyCredentials", c) PROVE FALSE
        OBVIOUS
      <3>1. ctx'[r] = c /\ ctx[r] \in Context /\ Known("getCredentials", ctx[r], born)
        BY <2>1 DEF GoWith, TypeInv, HolderInv, HolderTypes, Runs
      <3>2. PICK k : k \in ctx[r].sel
        BY <3>1 DEF Known, Before, Unset
      <3>3. <<r, k>> \in c.got
        BY <3>1, <3>2 DEF Context
      <3>4. ctx[r].got = {}
        BY <3>1 DEF Known, Before
      <3> QED
        BY <3>1, <3>3, <3>4
    <2>3. Moves(PhaseOf(st[r], at[r]), PhaseOf("handleError", "begin")) /\ "handleError" \in Spent
      BY DEF Moves, PhaseOf, Final, Spent, Ended
    <2> QED
      BY <1>2, <2>1, <2>2, <2>3
  <1>10. CASE AssertValidCredentials(r)
    <2>1. /\ st[r] = "verifyCredentials" /\ at[r] = "begin"
          /\ Go(r, AfterVerification(ctx[r])) \/ Go(r, "handleError")
      BY <1>10 DEF AssertValidCredentials
    <2>2. /\ AfterVerification(ctx[r]) \in Spent
          /\ Moves(PhaseOf(st[r], at[r]), PhaseOf(AfterVerification(ctx[r]), "begin"))
      BY <2>1 DEF AfterVerification, Moves, PhaseOf, Final, Spent, After
    <2> QED
      BY <1>3, <1>4, <2>1, <2>2
  <1>11. CASE FindIdentityParty(r) \/ SaveIdentity(r)
    <2>1. st[r] = "addContactIdentity" /\ at[r] \in {"begin", "save"}
      BY <1>11 DEF FindIdentityParty, SaveIdentity
    <2>2. \/ Continue(r, "save", {}) \/ Go(r, "handleError")
          \/ \E c : GoWith(r, "addIssuerBrandingAfterIdentity", c)
      BY <1>11 DEF FindIdentityParty, SaveIdentity
    <2>3. /\ "addIssuerBrandingAfterIdentity" \in Spent
          /\ Moves(PhaseOf(st[r], at[r]), PhaseOf("addIssuerBrandingAfterIdentity", "begin"))
      BY <2>1 DEF Moves, PhaseOf, Final, Spent, After
    <2> QED
      BY <1>1, <1>2, <1>4, <2>1, <2>2, <2>3, ContinueOnward DEF Steps
  <1>12. CASE StoreCredentialBranding(r) \/ SendNotification(r)
    <2>1. st[r] \in {"storeCredentialBranding", "storeCredentials"} /\ at[r] = "begin"
      BY <1>12 DEF StoreCredentialBranding, SendNotification
    <2>2. \/ \E step \in Steps : \E left : Continue(r, step, left)
          \/ Go(r, "handleError") \/ Go(r, "storeCredentials")
      BY <1>12 DEF StoreCredentialBranding, SendNotification, Steps
    <2>3. /\ "storeCredentials" \in Spent
          /\ Moves(PhaseOf(st[r], at[r]), PhaseOf("storeCredentials", "begin"))
      BY <2>1 DEF Moves, PhaseOf, Final, Spent, After
    <2> QED
      BY <1>1, <1>3, <1>4, <2>1, <2>2, <2>3, ContinueOnward
  <1>13. CASE StoreCredential(r)
    <2>1. st[r] = "storeCredentials" /\ (Go(r, "done") \/ Go(r, "handleError"))
      BY <1>13 DEF StoreCredential
    <2>2. "done" \in Spent /\ Moves(PhaseOf(st[r], at[r]), PhaseOf("done", "begin"))
      BY DEF Moves, PhaseOf, Final, Spent, After
    <2> QED
      BY <1>3, <1>4, <2>1, <2>2
  <1> QED
    BY <1>5, <1>6, <1>7, <1>8, <1>9, <1>10, <1>11, <1>12, <1>13 DEF Service

LEMMA OnlyRequestsObtain ==
    ASSUME TypeInv, NEW r \in Run, Service(r), ~GetCredentials(r)
    PROVE  \A q \in Run : ctx'[q].got = ctx[q].got
  <1> USE DEF TypeInv, HolderInv, HolderTypes
  <1>1. ASSUME NEW s, NEW c, GoWith(r, s, c), c.got = ctx[r].got
        PROVE  \A q \in Run : ctx'[q].got = ctx[q].got
    BY <1>1 DEF GoWith
  <1>2. ASSUME \/ \E s : Go(r, s)
               \/ \E step, left : Continue(r, step, left)
        PROVE  \A q \in Run : ctx'[q].got = ctx[q].got
    BY <1>1, <1>2 DEF Go, Continue
  <1>3. ctx[r] \in Context
    OBVIOUS
  <1>4. CASE CreateCredentialsToSelectFrom(r)
    <2>1. [ctx[r] EXCEPT !.sel = ctx[r].offer.choices].got = ctx[r].got
      BY <1>3 DEF Context
    <2> QED
      BY <1>1, <1>2, <1>4, <2>1 DEF CreateCredentialsToSelectFrom
  <1>5. CASE GetContact(r)
    <2>1. \A ps : WithContact(ctx[r], ps).got = ctx[r].got
      BY <1>3 DEF Context, WithContact
    <2> QED
      BY <1>1, <1>2, <1>5, <2>1 DEF GetContact
  <1>6. CASE CreateContact(r) \/ RenameContact(r)
    <2>1. \A p, ids : [ctx[r] EXCEPT !.contact = p, !.known = ids].got = ctx[r].got
      BY <1>3 DEF Context
    <2> QED
      BY <1>1, <1>2, <1>6, <2>1 DEF CreateContact, RenameContact, ContactAdded
  <1>7. CASE SaveIdentity(r)
    <2>1. [ctx[r] EXCEPT !.known = @ \cup {ctx[r].offer.issuer}].got = ctx[r].got
      BY <1>3 DEF Context
    <2> QED
      BY <1>1, <1>2, <1>7, <2>1 DEF SaveIdentity
  <1>8. CASE \/ Start(r) \/ ReadContact(r) \/ FindIssuerBranding(r) \/ AddIssuerBranding(r)
             \/ AssertValidCredentials(r) \/ FindIdentityParty(r) \/ StoreCredentialBranding(r)
             \/ SendNotification(r) \/ StoreCredential(r)
    BY <1>2, <1>8
    DEF Start, ReadContact, FindIssuerBranding, AddIssuerBranding, AssertValidCredentials,
        FindIdentityParty, StoreCredentialBranding, SendNotification, StoreCredential, BrandingDone
  <1> QED
    BY <1>4, <1>5, <1>6, <1>7, <1>8 DEF Service

\* A request brings credentials that nobody had.
LEMMA ObtainStep ==
    ASSUME IssuanceInv, TypeInv', NEW r \in Run, GetCredentials(r), ctx'[r].got # ctx[r].got
    PROVE  IssuanceInv' /\ Issuance!Obtain(r)
  <1> USE DEF IssuanceInv
  <1> DEFINE got == {<<r, k>> : k \in ctx[r].sel}
             c == [ctx[r] EXCEPT !.pin = FALSE, !.got = got]
  <1>1. st[r] = "getCredentials" /\ at[r] = "begin" /\ UNCHANGED <<stored, deleting>>
    BY DEF GetCredentials, storeVars
  <1>2. ctx[r] \in Context /\ Known("getCredentials", ctx[r], born) /\ ctx[r].got = {}
    BY <1>1 DEF TypeInv, HolderInv, HolderTypes, Runs, Known, Before
  <1>3. GoWith(r, "verifyCredentials", c)
    <2>1. GoWith(r, "verifyCredentials", c)
          \/ GoWith(r, "handleError", [ctx[r] EXCEPT !.pin = FALSE])
      BY DEF GetCredentials
    <2>2. ~GoWith(r, "handleError", [ctx[r] EXCEPT !.pin = FALSE])
      BY <1>2 DEF GoWith, TypeInv, HolderInv, HolderTypes, Context
    <2> QED
      BY <2>1, <2>2
  <1>4. c.got = got
    BY <1>2 DEF Context
  <1>5. /\ st'[r] = "verifyCredentials" /\ at'[r] = "begin" /\ ctx'[r].got = got
        /\ \A q \in Run \ {r} : st'[q] = st[q] /\ at'[q] = at[q] /\ ctx'[q] = ctx[q]
        /\ UNCHANGED rows
    BY <1>3, <1>4 DEF GoWith, TypeInv, HolderInv, HolderTypes
  <1>6. got \in SUBSET Credential /\ got # {} /\ \A x \in got : x[1] = r
    <2>1. PICK k : k \in ctx[r].sel
      BY <1>2 DEF Known, Before, Unset
    <2>2. <<r, k>> \in got
      BY <2>1
    <2>3. got \subseteq Credential
      BY <1>2 DEF Credential, Context
    <2>4. \A x \in got : x[1] = r
      OBVIOUS
    <2> QED
      BY <2>2, <2>3, <2>4
  <1> HIDE DEF got, c
  <1>7. st[r] \notin Spent /\ st'[r] \in Spent
    BY <1>1, <1>5 DEF Spent, After, Ended
  <1>8. Fresh'
    <2>1. \A q \in Run : st[q] \in Spent => st'[q] \in Spent
      BY <1>5, <1>7
    <2>2. \A x \in stored' : st'[x[1]] \in Spent
      BY <1>1, <2>1, StoredType DEF Fresh
    <2>3. \A x \in ctx'[r].got : st'[x[1]] \in Spent
      BY <1>5, <1>6, <1>7
    <2>4. \A q \in Run \ {r} : \A x \in ctx'[q].got : st'[x[1]] \in Spent
      BY <1>5, <2>1, GotType DEF Fresh
    <2> QED
      BY <2>2, <2>3, <2>4 DEF Fresh
  <1>9. Handed'
    BY <1>2, <1>5 DEF Handed
  <1>10. OneDeleted'
    BY <1>1 DEF OneDeleted
  <1>11. Issuance!Obtain(r)
    <2>1. \A q \in Run : Phase(q) = PhaseOf(st[q], at[q]) /\ Phase(q)' = PhaseOf(st'[q], at'[q])
      BY DEF Phase, PhaseOf
    <2>2. Phase(r) = "requesting" /\ Phase(r)' = "offered"
      BY <1>1, <1>5, <2>1 DEF PhaseOf, Final
    <2>3. \A q \in Run \ {r} : Phase(q)' = Phase(q)
      BY <1>5, <2>1
    <2>4. phases' = [phases EXCEPT ![r] = "offered"] /\ phases[r] = "requesting"
      BY <2>2, <2>3 DEF phases
    <2>5. hands' = [hands EXCEPT ![r] = got]
      BY <1>5 DEF hands
    <2>6. \A q \in Run \ {r} : got \cap hands[q] = {}
      BY <1>6, <1>7 DEF hands, Fresh
    <2>7. got \cap stored = {}
      BY <1>6, <1>7 DEF Fresh
    <2>8. got \in (SUBSET Credential) \ {{}}
      BY <1>6
    <2> QED
      BY <1>1, <2>4, <2>5, <2>6, <2>7, <2>8 DEF Issuance!Obtain, Issuance!Become, phases, hands
  <1> QED
    BY <1>8, <1>9, <1>10, <1>11

\* What is stored is in the run's hand, and was not there.
LEMMA KeepStep ==
    ASSUME IssuanceInv, TypeInv', NEW r \in Run, StoreCredential(r), stored' # stored
    PROVE  IssuanceInv' /\ Issuance!Keep(r)
  <1> USE DEF IssuanceInv
  <1> DEFINE c == First(r)
  <1>1. /\ st[r] = "storeCredentials" /\ at[r] = "save" /\ UNCHANGED deleting
        /\ c \notin stored /\ stored' = stored \cup {c} /\ Go(r, "done")
    BY DEF StoreCredential, ToStore
  <1>2. c \in ctx[r].got /\ c \in Credential
    BY <1>1, FirstIsGot DEF TypeInv, After
  <1> HIDE DEF c
  <1>3. /\ st'[r] = "done" /\ at'[r] = "begin" /\ UNCHANGED rows
        /\ \A q \in Run \ {r} : st'[q] = st[q] /\ at'[q] = at[q]
        /\ \A q \in Run : ctx'[q] = ctx[q]
    BY <1>1 DEF Go, GoWith, TypeInv, HolderInv, HolderTypes
  <1>4. \A q \in Run : st[q] \in Spent => st'[q] \in Spent
    BY <1>3 DEF Spent, After
  <1>5. Fresh'
    <2>1. \A x \in stored' : st'[x[1]] \in Spent
      BY <1>1, <1>2, <1>4, GotType, StoredType DEF Fresh
    <2>2. \A q \in Run : \A x \in ctx'[q].got : st'[x[1]] \in Spent
      BY <1>3, <1>4, GotType DEF Fresh
    <2> QED
      BY <2>1, <2>2 DEF Fresh
  <1>6. Handed' /\ OneDeleted'
    BY <1>1, <1>3 DEF Handed, OneDeleted
  <1>7. Issuance!Keep(r)
    <2>1. \A q \in Run : Phase(q) = PhaseOf(st[q], at[q]) /\ Phase(q)' = PhaseOf(st'[q], at'[q])
      BY DEF Phase, PhaseOf
    <2>2. Phase(r) = "accepted" /\ Phase(r)' = "over"
      BY <1>1, <1>3, <2>1 DEF PhaseOf, Final
    <2>3. \A q \in Run \ {r} : Phase(q)' = Phase(q)
      BY <1>3, <2>1
    <2>4. phases' = [phases EXCEPT ![r] = "over"] /\ phases[r] = "accepted"
      BY <2>2, <2>3 DEF phases
    <2>5. hands' = hands /\ c \in hands[r]
      BY <1>2, <1>3 DEF hands
    <2> QED
      BY <1>1, <1>2, <2>4, <2>5 DEF Issuance!Keep, Issuance!Become, phases, hands
  <1> QED
    BY <1>5, <1>6, <1>7

\* A resumed run has in hand what the saved one had.
LEMMA ResumeStep ==
    ASSUME IssuanceInv, TypeInv', NEW r \in Run, OpenRedirect(r)
    PROVE  IssuanceInv' /\ Issuance!Resume(r)
  <1> USE DEF IssuanceInv
  <1>1. PICK code \in browser, f \in Saved :
          /\ st[r] = "idle"
          /\ LET row == rows[f]
                 waits == row.st = "waitForAuthorizationResponse" IN
             /\ st' = [st EXCEPT ![r] = IF waits THEN "getCredentials" ELSE row.st]
             /\ ctx' = [ctx EXCEPT ![r] = IF waits THEN [row.ctx EXCEPT !.code = code]
                                          ELSE row.ctx]
             /\ at' = [at EXCEPT ![r] = IF row.st \in Invoking THEN "stuck" ELSE "begin"]
          /\ UNCHANGED <<rows, stored, deleting>>
    BY DEF OpenRedirect, storeVars
  <1> DEFINE row == rows[f]
  <1>2. /\ f \in Run /\ row.st \in Waiting \cup Invoking
        /\ row.ctx \in Context /\ Known(row.st, row.ctx, born)
    BY DEF Saved, TypeInv, HolderInv, SavedRuns, HolderTypes
  <1>3. /\ st'[r] = IF row.st = "waitForAuthorizationResponse" THEN "getCredentials" ELSE row.st
        /\ at'[r] = IF row.st \in Invoking THEN "stuck" ELSE "begin"
        /\ \A q \in Run \ {r} : st'[q] = st[q] /\ at'[q] = at[q] /\ ctx'[q] = ctx[q]
    BY <1>1 DEF TypeInv, HolderInv, HolderTypes
  <1>4. ctx'[r].got = row.ctx.got
    BY <1>1, <1>2 DEF TypeInv, HolderInv, HolderTypes, Context
  <1>5. ctx[r].got = {}
    BY <1>1 DEF TypeInv, HolderInv, Runs, NoContext
  <1>6. row.ctx.got \in {ctx[q].got : q \in Run}
    <2>1. CASE row.ctx.got = {}
      BY <1>5, <2>1
    <2>2. CASE row.ctx.got # {}
      BY <1>2, <2>2 DEF Handed
    <2> QED
      BY <2>1, <2>2
  <1> HIDE DEF row
  <1>7. "idle" \notin Spent
    BY DEF Spent, After, Ended
  <1>8. \A q \in Run : st[q] \in Spent => st'[q] \in Spent
    BY <1>1, <1>3, <1>7
  <1>9. Fresh'
    <2>1. \A x \in stored' : st'[x[1]] \in Spent
      BY <1>1, <1>8, StoredType DEF Fresh
    <2>2. \A q \in Run \ {r} : \A x \in ctx'[q].got : st'[x[1]] \in Spent
      BY <1>3, <1>8, GotType DEF Fresh
    <2>3. PICK o \in Run : ctx'[r].got = ctx[o].got
      BY <1>4, <1>6
    <2>4. \A x \in ctx'[r].got : st'[x[1]] \in Spent
      BY <1>8, <2>3, GotType DEF Fresh
    <2> QED
      BY <2>1, <2>2, <2>4 DEF Fresh
  <1>10. Handed'
    <2> SUFFICES ASSUME NEW g \in Run, rows[g].ctx.got # {}
                 PROVE  \E q \in Run : ctx'[q].got = rows[g].ctx.got
      BY <1>1 DEF Handed
    <2>1. PICK q \in Run : ctx[q].got = rows[g].ctx.got
      BY DEF Handed
    <2> QED
      BY <1>3, <1>5, <2>1
  <1>11. OneDeleted'
    BY <1>1 DEF OneDeleted
  <1>12. Issuance!Resume(r)
    <2>1. \A q \in Run : Phase(q) = PhaseOf(st[q], at[q]) /\ Phase(q)' = PhaseOf(st'[q], at'[q])
      BY DEF Phase, PhaseOf
    <2> DEFINE p == Phase(r)'
    <2>2. Phase(r) = "idle"
      BY <1>1, <2>1 DEF PhaseOf
    <2>3. p \in {"asking", "requesting", "offered", "over"}
      BY <1>2, <1>3, <2>1 DEF PhaseOf, Waiting, Invoking, Branding, Final
    <2>4. p = "offered" => row.ctx.got # {}
      <3> SUFFICES ASSUME p = "offered" PROVE row.ctx.got # {}
        OBVIOUS
      <3>1. row.st = "reviewCredentials"
        BY <1>2, <1>3, <2>1 DEF PhaseOf, Waiting, Invoking, Branding, Final
      <3>2. row.ctx.sel # {} /\ {x[2] : x \in row.ctx.got} = row.ctx.sel
        BY <1>2, <3>1 DEF Known, After
      <3> QED
        BY <3>2
    <2>5. \A q \in Run \ {r} : Phase(q)' = Phase(q)
      BY <1>3, <2>1
    <2> HIDE DEF p
    <2>6. phases' = [phases EXCEPT ![r] = p] /\ phases[r] = "idle"
      BY <2>2, <2>5 DEF phases, p
    <2>7. hands' = [hands EXCEPT ![r] = row.ctx.got]
      BY <1>3, <1>4 DEF hands
    <2>8. row.ctx.got \in {hands[q] : q \in Run}
      BY <1>6 DEF hands
    <2> QED
      BY <1>1, <2>3, <2>4, <2>6, <2>7, <2>8 DEF Issuance!Resume, Issuance!Become, phases, hands
  <1> QED
    BY <1>9, <1>10, <1>11, <1>12

\* Saving changes what may be resumed, and a crash ends all runs.
LEMMA SaveStep ==
    ASSUME IssuanceInv, TypeInv', NEW r \in Run, SaveState(r)
    PROVE  IssuanceInv' /\ UNCHANGED Issuance!vars
  <1> DEFINE row == IF st[r] \in Final THEN NoRow ELSE [st |-> st[r], ctx |-> ctx[r]]
  <1>1. /\ rows' = [rows EXCEPT ![ctx[r].flow] = row]
        /\ UNCHANGED <<st, at, ctx, stored, deleting>>
    BY DEF SaveState, storeVars
  <1>2. row.ctx.got \in {{}, ctx[r].got}
    BY DEF NoRow, NoContext
  <1> HIDE DEF row
  <1>3. Handed'
    BY <1>1, <1>2 DEF IssuanceInv, Handed, TypeInv, HolderInv, HolderTypes
  <1>4. Fresh' /\ OneDeleted' /\ UNCHANGED Issuance!vars
    BY <1>1 DEF IssuanceInv, Fresh, OneDeleted, Issuance!vars, Phase
  <1> QED
    BY <1>3, <1>4 DEF IssuanceInv

LEMMA CrashStep ==
    ASSUME IssuanceInv, TypeInv', Crash
    PROVE  IssuanceInv' /\ Issuance!Next
  <1> USE DEF IssuanceInv
  <1>1. /\ st' = [r \in Run |-> IF st[r] = "idle" THEN "idle" ELSE "dead"]
        /\ deleting' = {} /\ UNCHANGED <<ctx, rows, stored>>
    BY DEF Crash
  <1>2. \A q \in Run : st[q] \in Spent => st'[q] \in Spent
    BY <1>1 DEF Spent, After, Ended
  <1>3. Fresh'
    BY <1>1, <1>2, GotType, StoredType DEF Fresh
  <1>4. Handed' /\ OneDeleted'
    BY <1>1 DEF Handed, OneDeleted
  <1>5. Issuance!End({r \in Run : st[r] # "idle"})
    <2>1. \A q \in Run : Phase(q) = PhaseOf(st[q], at[q]) /\ Phase(q)' = PhaseOf(st'[q], at'[q])
      BY DEF Phase, PhaseOf
    <2>2. \A q \in Run : Phase(q)' = IF st[q] = "idle" THEN Phase(q) ELSE "over"
      BY <1>1, <2>1 DEF PhaseOf
    <2>3. hands' = hands
      BY <1>1 DEF hands
    <2> QED
      BY <1>1, <2>2, <2>3 DEF Issuance!End, phases, hands
  <1> QED
    BY <1>3, <1>4, <1>5 DEF Issuance!Next

LEMMA EditStep ==
    ASSUME IssuanceInv, TypeInv', Editing
    PROVE  IssuanceInv' /\ (Issuance!Next \/ UNCHANGED Issuance!vars)
  <1>1. CASE Edit
    <2>1. UNCHANGED <<st, at, ctx, rows, stored, deleting>>
      BY <1>1 DEF Edit, holderVars, storeVars
    <2> QED
      BY <2>1, IdleStep
  <1>2. CASE DeleteBranding
    <2>1. UNCHANGED <<st, at, ctx, rows, stored>> /\ \E c \in stored : deleting' = {c}
      BY <1>2 DEF DeleteBranding, holderVars
    <2> QED
      BY <2>1 DEF IssuanceInv, Fresh, Handed, OneDeleted, Issuance!vars, Phase
  <1>3. CASE DeleteCredential
    <2>1. /\ UNCHANGED <<st, at, ctx, rows>>
          /\ stored' = stored \ deleting /\ deleting' = {} /\ deleting # {}
      BY <1>3 DEF DeleteCredential, holderVars
    <2>2. IssuanceInv'
      BY <2>1 DEF IssuanceInv, Fresh, Handed, OneDeleted
    <2>3. PICK c \in deleting : deleting = {c}
      <3>1. PICK c \in deleting : TRUE
        BY <2>1
      <3>2. deleting = {c}
        BY DEF IssuanceInv, OneDeleted
      <3> QED
        BY <3>2
    <2>4. phases' = phases /\ hands' = hands
      BY <2>1 DEF phases, hands, Phase
    <2>5. CASE c \in stored
      BY <2>1, <2>2, <2>3, <2>4, <2>5 DEF Issuance!Next, Issuance!Remove, phases, hands
    <2>6. CASE c \notin stored
      <3>1. stored' = stored
        BY <2>1, <2>3, <2>6
      <3> QED
        BY <2>2, <2>4, <3>1 DEF Issuance!vars, phases, hands
    <2> QED
      BY <2>5, <2>6
  <1> QED
    BY <1>1, <1>2, <1>3 DEF Editing

LEMMA IssuanceStep ==
    ASSUME IssuanceInv, [Next]_vars
    PROVE  IssuanceInv' /\ (Issuance!Next \/ UNCHANGED Issuance!vars)
  <1>1. TypeInv'
    BY TypeStep DEF IssuanceInv
  <1>2. CASE Crash
    BY <1>1, <1>2, CrashStep
  <1>3. CASE Editing
    BY <1>1, <1>3, EditStep
  <1>4. ASSUME NEW r \in Run, User(r)
        PROVE  IssuanceInv' /\ (Issuance!Next \/ UNCHANGED Issuance!vars)
    <2>1. CASE OpenRedirect(r)
      BY <1>1, <2>1, ResumeStep DEF Issuance!Next
    <2>2. CASE ~OpenRedirect(r)
      BY <1>1, <1>4, <2>2, UserOnward, OnwardKeeps DEF User
    <2> QED
      BY <2>1, <2>2
  <1>5. ASSUME NEW r \in Run, Service(r)
        PROVE  IssuanceInv' /\ (Issuance!Next \/ UNCHANGED Issuance!vars)
    <2>1. CASE UNCHANGED stored /\ \A q \in Run : ctx'[q].got = ctx[q].got
      BY <1>1, <1>5, <2>1, ServiceOnward, OnwardKeeps
    <2>2. CASE stored' # stored
      <3>1. StoreCredential(r)
        BY <1>5, <2>2
        DEF Service, Start, CreateCredentialsToSelectFrom, GetContact, CreateContact, ReadContact,
            RenameContact, FindIssuerBranding, AddIssuerBranding, GetCredentials,
            AssertValidCredentials, FindIdentityParty, SaveIdentity, StoreCredentialBranding,
            SendNotification, storeVars
      <3> QED
        BY <1>1, <2>2, <3>1, KeepStep DEF Issuance!Next
    <2>3. CASE \E q \in Run : ctx'[q].got # ctx[q].got
      <3>1. GetCredentials(r)
        BY <1>5, <2>3, OnlyRequestsObtain DEF IssuanceInv
      <3>2. ctx'[r].got # ctx[r].got
        BY <2>3, <3>1 DEF GetCredentials, GoWith, IssuanceInv, TypeInv, HolderInv, HolderTypes
      <3> QED
        BY <1>1, <3>1, <3>2, ObtainStep DEF Issuance!Next
    <2> QED
      BY <2>1, <2>2, <2>3
  <1>6. ASSUME NEW r \in Run, SaveState(r) PROVE IssuanceInv' /\ UNCHANGED Issuance!vars
    BY <1>1, <1>6, SaveStep
  <1>7. CASE UNCHANGED vars
    <2>1. UNCHANGED <<st, at, ctx, rows, stored, deleting>>
      BY <1>7 DEF vars, holderVars, storeVars
    <2> QED
      BY <1>1, <2>1, IdleStep
  <1> QED
    BY <1>2, <1>3, <1>4, <1>5, <1>6, <1>7 DEF Next

(* The holder keeps the promise of CredentialIssuance: a credential is     *)
(* asked for after the grant, kept after the user accepted it, and what a  *)
(* request brings was in nobody's hand before, whatever runs are resumed   *)
(* and wherever the process dies.                                          *)
THEOREM HolderImplementsIssuance == Spec => ImplementsIssuance
  <1>1. IssuanceInv /\ [Next]_vars => IssuanceInv' /\ [Issuance!Next]_(Issuance!vars)
    BY IssuanceStep
  <1> QED
    BY IssuanceInit, <1>1, PTL DEF Spec, ImplementsIssuance, Issuance!Spec
-----------------------------------------------------------------------------
(* Acceptance. What a run has in hand came from one run, that of its offer;*)
(* a run that is accepting has branded what it no longer has to brand; a   *)
(* branding without a credential has a run that is to blame for it; and of *)
(* the runs that accept a credential one, at most, is still to tell the    *)
(* issuer, which then has not heard of it.                                 *)
OneSource(c) == \A x, y \in c.got : x[1] = y[1]
SameOffer(c) == \A x \in c.got : ctx[x[1]].offer = c.offer

Sources ==
    /\ \A r \in Run : OneSource(ctx[r]) /\ SameOffer(ctx[r])
    /\ \A f \in Run : OneSource(rows[f].ctx) /\ SameOffer(rows[f].ctx)

Accepting == {"storeCredentialBranding", "storeCredentials"}

HasBranded(r) ==
    st[r] \in Accepting /\ at[r] # "stuck" /\ ctx[r].offer.branded =>
        \A x \in ctx[r].got :
            st[r] = "storeCredentials" \/ x[2] \notin todo[r] => x \in branded \cup gone

StoredIsBranded == \A x \in stored : ctx[x[1]].offer.branded => x \in branded \cup gone

Blamed(r, x) ==
    /\ x \in ctx[r].got
    /\ st[r] \in Accepting \cup {"handleError", "error", "dead"} \/ x # First(r)

BrandingIsBlamed ==
    \A x \in branded : x \in stored \ deleting \/ \E r \in Run : Blamed(r, x)

\* Run r is to tell the issuer of x.
Tells(r, x) ==
    /\ at[r] = "begin" /\ x \in ctx[r].got /\ x = First(r) /\ ctx[r].offer.branded
    /\ \/ st[r] = "storeCredentials"
       \/ st[r] = "storeCredentialBranding" /\ x[2] \notin todo[r]

Telling(x) ==
    /\ told[x] > 0 => st[x[1]] \in Spent
    /\ st[x[1]] \in Spent /\ x \notin gone /\ ctx[x[1]].offer.branded =>
          /\ told[x] \in {0, 1}
          /\ x \notin branded => told[x] = 0
          /\ \A r \in Run : Tells(r, x) => told[x] = 0 /\ \A q \in Run : Tells(q, x) => q = r

AcceptInv ==
    /\ IssuanceInv
    /\ Sources
    /\ \A r \in Run : HasBranded(r)
    /\ StoredIsBranded /\ BrandingIsBlamed
    /\ deleting \subseteq stored
    /\ \A x \in Credential : Telling(x)

LEMMA AcceptInit == Init => AcceptInv
  <1> SUFFICES ASSUME Init PROVE AcceptInv
    OBVIOUS
  <1>1. IssuanceInv
    BY IssuanceInit
  <1>2. \A r \in Run : ctx[r].got = {} /\ rows[r].ctx.got = {} /\ st[r] = "idle"
    BY DEF Init, NoContext, NoRow
  <1>3. "idle" \notin Spent
    BY DEF Spent, After, Ended
  <1>4. \A x \in Credential : Telling(x)
    <2> SUFFICES ASSUME NEW x \in Credential PROVE Telling(x)
      OBVIOUS
    <2>1. x[1] \in Run /\ told[x] = 0
      BY DEF Init, Credential
    <2> QED
      BY <1>2, <1>3, <2>1 DEF Telling
  <1> QED
    BY <1>1, <1>2, <1>4
    DEF AcceptInv, Init, Sources, OneSource, SameOffer, HasBranded, Accepting, StoredIsBranded,
        BrandingIsBlamed

\* What a run that has credentials in hand is past.
LEMMA HandIsLate ==
    ASSUME TypeInv, NEW r \in Run, ctx[r].got # {} PROVE st[r] \in Spent
  <1>1. st[r] # "idle" /\ Known(st[r], ctx[r], born)
    BY DEF TypeInv, HolderInv, Runs, NoContext
  <1>2. st[r] \notin Before /\ st[r] \in States
    BY <1>1 DEF Known, TypeInv, HolderInv, HolderTypes
  <1> QED
    BY <1>1, <1>2 DEF States, Spent, Before, After, Ended, Waiting, Invoking, Branding, Final

LEMMA FirstSame ==
    ASSUME NEW r, ctx'[r].got = ctx[r].got, ctx'[r].sel = ctx[r].sel PROVE First(r)' = First(r)
  BY DEF First, Obtained

(* A step of run r that leaves the stores alone, and what it has in hand;  *)
(* it does not begin to accept, nor put its failure aside.                 *)
Aside(r) ==
    /\ UNCHANGED <<branded, stored, deleting, gone, told>>
    /\ rows' = rows
    /\ \A q \in Run \ {r} : UNCHANGED <<st[q], at[q], ctx[q], todo[q]>>
    /\ ctx'[r].got = ctx[r].got
    /\ ctx[r].got # {} => ctx'[r].sel = ctx[r].sel
    /\ st[r] # "idle" /\ ctx'[r].offer = ctx[r].offer
    /\ st[r] \in Spent => st'[r] \in Spent
    /\ st[r] \in Accepting \cup {"handleError", "error", "dead"} =>
          st'[r] \in Accepting \cup {"handleError", "error", "dead"}
    /\ HasBranded(r)'
    /\ \A x \in ctx'[r].got : Tells(r, x)' => Tells(r, x)

LEMMA AsideKeeps ==
    ASSUME AcceptInv, IssuanceInv', NEW r \in Run, Aside(r) PROVE AcceptInv'
  <1> USE DEF AcceptInv
  <1>1. TypeInv
    BY DEF IssuanceInv
  <1>2. \A q \in Run : ctx'[q].got = ctx[q].got /\ ctx'[q].offer = ctx[q].offer
    BY DEF Aside
  <1>3. \A q \in Run : ctx[q].got # {} => First(q)' = First(q)
    BY FirstSame DEF Aside
  <1>4. \A q \in Run : st[q] \in Spent => st'[q] \in Spent
    BY DEF Aside
  <1>5. \A q \in Run : \A x \in ctx[q].got : x[1] \in Run
    BY <1>1, GotType
  <1>6. Sources'
    <2>1. \A f \in Run : \A x \in rows[f].ctx.got : x[1] \in Run
      BY <1>1 DEF TypeInv, HolderInv, HolderTypes, Context, Credential
    <2>2. \A q \in Run : OneSource(ctx[q])' /\ SameOffer(ctx[q])'
      BY <1>2, <1>5 DEF Sources, OneSource, SameOffer
    <2>3. \A f \in Run : OneSource(rows[f].ctx)' /\ SameOffer(rows[f].ctx)'
      BY <1>2, <2>1 DEF Sources, OneSource, SameOffer, Aside
    <2> QED
      BY <2>2, <2>3 DEF Sources
  <1>7. \A q \in Run : HasBranded(q)'
    BY DEF Aside, HasBranded
  <1>8. StoredIsBranded' /\ deleting' \subseteq stored'
    BY <1>1, <1>2, StoredType DEF StoredIsBranded, Aside
  <1>9. BrandingIsBlamed'
    <2>1. \A q \in Run : \A x : Blamed(q, x) => Blamed(q, x)'
      BY <1>2, <1>3 DEF Blamed, Aside
    <2> QED
      BY <2>1 DEF BrandingIsBlamed, Aside
  <1>10. ASSUME NEW x \in Credential PROVE Telling(x)'
    <2>1. x[1] \in Run
      BY DEF Credential
    <2>2. \A q \in Run : Tells(q, x)' => Tells(q, x)
      BY <1>2, <1>3 DEF Aside, Tells
    <2>3. told'[x] = told[x] /\ told[x] \in Nat
      BY <1>1 DEF Aside, TypeInv, StoresInv
    <2>4. CASE st[x[1]] \in Spent
      BY <1>2, <1>4, <2>1, <2>2, <2>3, <2>4 DEF Telling, Aside
    <2>5. CASE st[x[1]] \notin Spent
      <3>1. told[x] = 0
        BY <2>3, <2>5 DEF Telling
      <3>2. \A q \in Run : x \notin ctx[q].got
        BY <2>5 DEF IssuanceInv, Fresh
      <3>3. \A q \in Run : ~Tells(q, x)'
        BY <1>2, <3>2 DEF Tells
      <3> QED
        BY <2>3, <3>1, <3>3 DEF Telling
    <2> QED
      BY <2>4, <2>5
  <1> QED
    BY <1>6, <1>7, <1>8, <1>9, <1>10

LEMMA GoAside ==
    ASSUME AcceptInv, NEW r \in Run, NEW s, Go(r, s), st[r] # "idle",
           UNCHANGED <<branded, stored, deleting, gone, told>>,
           st[r] \in Spent => s \in Spent,
           s \notin Accepting,
           st[r] \in Accepting \cup {"handleError", "error", "dead"} =>
               s \in {"handleError", "error", "dead"}
    PROVE  Aside(r)
  <1>1. /\ st'[r] = s /\ ctx'[r] = ctx[r] /\ rows' = rows
        /\ \A q \in Run \ {r} : UNCHANGED <<st[q], at[q], ctx[q], todo[q]>>
    BY DEF Go, GoWith, AcceptInv, IssuanceInv, TypeInv, HolderInv, HolderTypes
  <1>2. HasBranded(r)' /\ \A x : ~Tells(r, x)'
    BY <1>1 DEF HasBranded, Tells, Accepting
  <1> QED
    BY <1>1, <1>2 DEF Aside

LEMMA GoWithAside ==
    ASSUME AcceptInv, NEW r \in Run, NEW s, NEW c, GoWith(r, s, c), st[r] # "idle",
           UNCHANGED <<branded, stored, deleting, gone, told>>,
           c.offer = ctx[r].offer, c.got = ctx[r].got, c.got # {} => c.sel = ctx[r].sel,
           st[r] \in Spent => s \in Spent,
           s \notin Accepting,
           st[r] \notin Accepting \cup {"handleError", "error", "dead"}
    PROVE  Aside(r)
  <1>1. /\ st'[r] = s /\ ctx'[r] = c /\ rows' = rows
        /\ \A q \in Run \ {r} : UNCHANGED <<st[q], at[q], ctx[q], todo[q]>>
    BY DEF GoWith, AcceptInv, IssuanceInv, TypeInv, HolderInv, HolderTypes
  <1>2. HasBranded(r)' /\ \A x : ~Tells(r, x)'
    BY <1>1 DEF HasBranded, Tells, Accepting
  <1> QED
    BY <1>1, <1>2 DEF Aside

LEMMA ContinueAside ==
    ASSUME AcceptInv, NEW r \in Run, NEW step, NEW left, Continue(r, step, left),
           st[r] \notin Accepting \cup {"idle"},
           UNCHANGED <<branded, stored, deleting, gone, told>>
    PROVE  Aside(r)
  <1>1. /\ st'[r] = st[r] /\ ctx'[r] = ctx[r] /\ rows' = rows
        /\ \A q \in Run \ {r} : UNCHANGED <<st[q], at[q], ctx[q], todo[q]>>
    BY DEF Continue, AcceptInv, IssuanceInv, TypeInv, HolderInv, HolderTypes
  <1>2. HasBranded(r)' /\ \A x : ~Tells(r, x)'
    BY <1>1 DEF HasBranded, Tells, Accepting
  <1> QED
    BY <1>1, <1>2 DEF Aside

LEMMA UserAside ==
    ASSUME AcceptInv, NEW r \in Run,
           LookForContact(r) \/ SelectCredentials(r) \/ InvokeAuthorization(r) \/ EnterPin(r)
           \/ GoBack(r) \/ AcceptCredentials(r)
    PROVE  Aside(r)
  <1> USE DEF AcceptInv, IssuanceInv
  <1>1. UNCHANGED <<branded, stored, deleting, gone, told>>
    BY DEF LookForContact, SelectCredentials, InvokeAuthorization, EnterPin, GoBack,
           AcceptCredentials, storeVars
  <1>2. ctx[r] \in Context /\ (st[r] # "idle" => Known(st[r], ctx[r], born))
    BY DEF TypeInv, HolderInv, HolderTypes, Runs
  <1>3. CASE LookForContact(r)
    <2>1. st[r] = "addContact" /\ Continue(r, IF parties = {} THEN "create" ELSE "read", parties)
      BY <1>3 DEF LookForContact
    <2> QED
      BY <1>1, <2>1, ContinueAside DEF Accepting
  <1>4. CASE SelectCredentials(r)
    <2>1. PICK sel : LET c == [ctx[r] EXCEPT !.sel = sel] IN GoWith(r, Selected(c), c)
      BY <1>4 DEF SelectCredentials
    <2> DEFINE c == [ctx[r] EXCEPT !.sel = sel]
    <2>2. st[r] = "selectCredentials"
      BY <1>4 DEF SelectCredentials
    <2>3. c.got = {} /\ c.got = ctx[r].got /\ c.offer = ctx[r].offer
      BY <1>2, <2>2 DEF Context, Known, Before
    <2>4. GoWith(r, Selected(c), c)
      BY <2>1
    <2> HIDE DEF c
    <2>5. Selected(c) \notin Accepting
      BY DEF Selected, Accepting
    <2>6. st[r] \notin Spent \cup Accepting \cup {"idle", "handleError", "error", "dead"}
      BY <2>2 DEF Spent, After, Ended, Accepting
    <2> QED
      BY <1>1, <2>3, <2>4, <2>5, <2>6, GoWithAside
  <1>5. CASE EnterPin(r)
    <2> DEFINE c == [ctx[r] EXCEPT !.pin = TRUE]
    <2>1. st[r] = "verifyPin" /\ GoWith(r, "getCredentials", c)
      BY <1>5 DEF EnterPin
    <2>2. c.got = ctx[r].got /\ c.offer = ctx[r].offer /\ c.sel = ctx[r].sel
      BY <1>2 DEF Context
    <2>3. st[r] \notin Spent \cup Accepting \cup {"idle", "handleError", "error", "dead"}
      BY <2>1 DEF Spent, After, Ended, Accepting
    <2>4. GoWith(r, "getCredentials", c)
      BY <2>1
    <2> HIDE DEF c
    <2>5. "getCredentials" \notin Accepting
      BY DEF Accepting
    <2> QED
      BY <1>1, <2>2, <2>3, <2>4, <2>5, GoWithAside
  <1>6. CASE GoBack(r)
    <2>1. PICK s : /\ st[r] \in Waiting /\ Go(r, s)
                   /\ \/ s = Previous(r)
                      \/ s = "declined" /\ st[r] \in {"addContact", "reviewCredentials"}
      BY <1>6 DEF GoBack
    <2>2. \/ s \in {"aborted", "declined"} /\ st[r] # "handleError"
          \/ s = "error"
          \/ s = "selectCredentials" /\ st[r] \in {"initiateAuthorizationRequest", "verifyPin"}
          \/ s = "initiateAuthorizationRequest" /\ st[r] = "waitForAuthorizationResponse"
      BY <2>1 DEF Previous, Waiting
    <2>3. /\ st[r] \in Spent => s \in Spent
          /\ s \notin Accepting
          /\ st[r] \in Accepting \cup {"handleError", "error", "dead"} =>
               s \in {"handleError", "error", "dead"}
      BY <2>1, <2>2 DEF Spent, After, Ended, Accepting, Waiting
    <2> QED
      BY <1>1, <2>1, <2>3, GoAside DEF Waiting
  <1>7. CASE InvokeAuthorization(r) \/ AcceptCredentials(r)
    <2>1. /\ \/ /\ st[r] = "initiateAuthorizationRequest"
                /\ st' = [st EXCEPT ![r] = "waitForAuthorizationResponse"]
                /\ todo' = todo
             \/ /\ st[r] = "reviewCredentials"
                /\ st' = [st EXCEPT ![r] = "storeCredentialBranding"]
                /\ todo' = [todo EXCEPT ![r] = IF ctx[r].offer.branded THEN ctx[r].sel ELSE {}]
          /\ UNCHANGED <<at, ctx, rows>>
      BY <1>7 DEF InvokeAuthorization, AcceptCredentials
    <2>2. /\ \A q \in Run \ {r} : UNCHANGED <<st[q], at[q], ctx[q], todo[q]>>
          /\ UNCHANGED <<at[r], ctx[r]>>
      BY <2>1 DEF TypeInv, HolderInv, HolderTypes
    <2>3. CASE st[r] = "initiateAuthorizationRequest"
      <3>1. st'[r] = "waitForAuthorizationResponse"
        BY <2>1, <2>3 DEF TypeInv, HolderInv, HolderTypes
      <3> QED
        BY <1>1, <2>1, <2>2, <2>3, <3>1
        DEF Aside, HasBranded, Tells, Accepting, Spent, After, Ended
    <2>4. CASE st[r] = "reviewCredentials"
      <3>1. /\ st'[r] = "storeCredentialBranding"
            /\ todo'[r] = IF ctx[r].offer.branded THEN ctx[r].sel ELSE {}
        BY <2>1, <2>4 DEF TypeInv, HolderInv, HolderTypes
      <3>2. {x[2] : x \in ctx[r].got} = ctx[r].sel
        BY <1>2, <2>4 DEF Known, After
      <3>3. HasBranded(r)'
        BY <2>2, <3>1, <3>2 DEF HasBranded
      <3>4. \A x \in ctx'[r].got : ~Tells(r, x)'
        BY <2>2, <3>1, <3>2 DEF Tells
      <3>5. st[r] \notin Accepting \cup {"idle", "handleError", "error", "dead"}
        BY <2>4 DEF Accepting
      <3>6. st'[r] \in Spent
        BY <3>1 DEF Spent, After, Ended, Invoking, Branding, Final, Waiting
      <3> QED
        BY <1>1, <2>1, <2>2, <3>3, <3>4, <3>5, <3>6 DEF Aside
    <2> QED
      BY <2>1, <2>3, <2>4
  <1> QED
    BY <1>3, <1>4, <1>5, <1>6, <1>7

\* Services that leave the stores alone.
LEMMA SetupAside ==
    ASSUME AcceptInv, NEW r \in Run,
           Start(r) \/ CreateCredentialsToSelectFrom(r) \/ GetContact(r) \/ CreateContact(r)
           \/ ReadContact(r) \/ RenameContact(r)
    PROVE  Aside(r)
  <1> USE DEF AcceptInv, IssuanceInv
  <1>1. UNCHANGED <<branded, stored, deleting, gone, told>>
    BY DEF Start, CreateCredentialsToSelectFrom, GetContact, CreateContact, ReadContact,
           RenameContact, storeVars
  <1>2. /\ st[r] \in {"start", "createCredentialsToSelectFrom", "getContact", "addContact"}
        /\ st[r] \notin Spent \cup Accepting \cup {"idle", "handleError", "error", "dead"}
    BY DEF Start, CreateCredentialsToSelectFrom, GetContact, CreateContact, ReadContact,
           RenameContact, Spent, After, Ended, Accepting
  <1>3. ctx[r] \in Context /\ ctx[r].got = {}
    BY <1>2 DEF TypeInv, HolderInv, HolderTypes, Runs, Known, Before
  <1>4. ASSUME NEW s, NEW c, GoWith(r, s, c), c.offer = ctx[r].offer, c.got = ctx[r].got,
               s \notin Accepting
        PROVE  Aside(r)
    BY <1>1, <1>2, <1>3, <1>4, GoWithAside
  <1>5. ASSUME NEW s, Go(r, s), s \notin Accepting PROVE Aside(r)
    BY <1>4, <1>5 DEF Go
  <1>6. ASSUME NEW step, NEW left, Continue(r, step, left) PROVE Aside(r)
    BY <1>1, <1>2, <1>6, ContinueAside
  <1>7. CASE Start(r)
    BY <1>5, <1>7 DEF Start, Accepting
  <1>8. CASE CreateCredentialsToSelectFrom(r)
    <2> DEFINE c == [ctx[r] EXCEPT !.sel = ctx[r].offer.choices]
    <2>1. GoWith(r, "getContact", c) \/ Go(r, "handleError")
      BY <1>8 DEF CreateCredentialsToSelectFrom
    <2>2. c.offer = ctx[r].offer /\ c.got = ctx[r].got
      BY <1>3 DEF Context
    <2> HIDE DEF c
    <2> QED
      BY <1>4, <1>5, <2>1, <2>2 DEF Accepting
  <1>9. CASE GetContact(r)
    <2> DEFINE c == WithContact(ctx[r], FoundContact(ctx[r].offer))
    <2>1. GoWith(r, AfterSetup(c), c) \/ Go(r, "handleError")
      BY <1>9 DEF GetContact
    <2>2. c.offer = ctx[r].offer /\ c.got = ctx[r].got
      BY <1>3 DEF Context, WithContact
    <2>3. \A d : AfterSetup(d) \notin Accepting
      BY DEF AfterSetup, Unselected, Accepting
    <2> HIDE DEF c
    <2> QED
      BY <1>4, <1>5, <2>1, <2>2, <2>3 DEF Accepting
  <1>10. CASE ReadContact(r)
    BY <1>6, <1>10 DEF ReadContact
  <1>11. CASE CreateContact(r) \/ RenameContact(r)
    <2>1. \/ \E step, left : Continue(r, step, left)
          \/ \E p, ids : ContactAdded(r, p, ids)
      BY <1>11 DEF CreateContact, RenameContact
    <2>2. ASSUME NEW p, NEW ids, ContactAdded(r, p, ids) PROVE Aside(r)
      <3> DEFINE c == [ctx[r] EXCEPT !.contact = p, !.known = ids]
      <3>1. GoWith(r, "addIssuerBranding", c)
        BY <2>2 DEF ContactAdded
      <3>2. c.offer = ctx[r].offer /\ c.got = ctx[r].got
        BY <1>3 DEF Context
      <3> HIDE DEF c
      <3> QED
        BY <1>4, <3>1, <3>2 DEF Accepting
    <2> QED
      BY <1>6, <2>1, <2>2
  <1> QED
    BY <1>7, <1>8, <1>9, <1>10, <1>11

LEMMA ReviewAside ==
    ASSUME AcceptInv, NEW r \in Run,
           \/ FindIssuerBranding(r) \/ AddIssuerBranding(r) \/ AssertValidCredentials(r)
           \/ FindIdentityParty(r) \/ SaveIdentity(r)
           \/ GetCredentials(r) /\ ctx'[r].got = ctx[r].got
    PROVE  Aside(r)
  <1> USE DEF AcceptInv, IssuanceInv
  <1>1. UNCHANGED <<branded, stored, deleting, gone, told>>
    BY DEF FindIssuerBranding, AddIssuerBranding, AssertValidCredentials, FindIdentityParty,
           SaveIdentity, GetCredentials, storeVars
  <1>2. /\ st[r] \in Branding \cup {"getCredentials", "verifyCredentials", "addContactIdentity"}
        /\ st[r] \notin Accepting \cup {"idle", "handleError", "error", "dead"}
    BY DEF FindIssuerBranding, AddIssuerBranding, AssertValidCredentials, FindIdentityParty,
           SaveIdentity, GetCredentials, Accepting, Branding
  <1>3. ctx[r] \in Context /\ Known(st[r], ctx[r], born)
    BY <1>2 DEF TypeInv, HolderInv, HolderTypes, Runs
  <1>4. ASSUME NEW s, NEW c, GoWith(r, s, c), c.offer = ctx[r].offer, c.got = ctx[r].got,
               c.sel = ctx[r].sel, s \notin Accepting, st[r] \in Spent => s \in Spent
        PROVE  Aside(r)
    BY <1>1, <1>2, <1>4, GoWithAside
  <1>5. ASSUME NEW s, Go(r, s), s \notin Accepting, st[r] \in Spent => s \in Spent
        PROVE  Aside(r)
    BY <1>4, <1>5 DEF Go
  <1>6. ASSUME NEW step, NEW left, Continue(r, step, left) PROVE Aside(r)
    BY <1>1, <1>2, <1>6, ContinueAside
  <1>7. CASE FindIssuerBranding(r) \/ AddIssuerBranding(r)
    <2>1. BrandingDone(r) \/ \E step, left : Continue(r, step, left)
      BY <1>7 DEF FindIssuerBranding, AddIssuerBranding
    <2>2. st[r] \in Branding
      BY <1>7 DEF FindIssuerBranding, AddIssuerBranding
    <2>3. ASSUME BrandingDone(r) PROVE Aside(r)
      <3> DEFINE s == IF st[r] = "addIssuerBranding" THEN Unselected(ctx[r])
                      ELSE "reviewCredentials"
      <3>1. Go(r, s)
        BY <2>3 DEF BrandingDone
      <3>2. s \notin Accepting /\ (st[r] \in Spent => s \in Spent)
        BY <2>2 DEF Unselected, Accepting, Spent, After, Ended, Branding
      <3> HIDE DEF s
      <3> QED
        BY <1>5, <3>1, <3>2
    <2> QED
      BY <1>6, <2>1, <2>3
  <1>8. CASE AssertValidCredentials(r)
    <2>1. Go(r, AfterVerification(ctx[r])) \/ Go(r, "handleError")
      BY <1>8 DEF AssertValidCredentials
    <2>2. /\ AfterVerification(ctx[r]) \notin Accepting /\ AfterVerification(ctx[r]) \in Spent
          /\ "handleError" \notin Accepting /\ "handleError" \in Spent
      BY DEF AfterVerification, Accepting, Spent, After, Ended
    <2> QED
      BY <1>5, <2>1, <2>2
  <1>9. CASE FindIdentityParty(r) \/ SaveIdentity(r)
    <2> DEFINE c == [ctx[r] EXCEPT !.known = @ \cup {ctx[r].offer.issuer}]
    <2>1. \/ \E step, left : Continue(r, step, left)
          \/ Go(r, "handleError")
          \/ GoWith(r, "addIssuerBrandingAfterIdentity", c)
      BY <1>9 DEF FindIdentityParty, SaveIdentity
    <2>2. c.offer = ctx[r].offer /\ c.got = ctx[r].got /\ c.sel = ctx[r].sel
      BY <1>3 DEF Context
    <2>3. /\ "addIssuerBrandingAfterIdentity" \notin Accepting
          /\ "addIssuerBrandingAfterIdentity" \in Spent
          /\ "handleError" \notin Accepting /\ "handleError" \in Spent
      BY DEF Accepting, Spent, After, Ended
    <2> HIDE DEF c
    <2> QED
      BY <1>4, <1>5, <1>6, <2>1, <2>2, <2>3
  <1>10. CASE GetCredentials(r) /\ ctx'[r].got = ctx[r].got
    <2> DEFINE c == [ctx[r] EXCEPT !.pin = FALSE, !.got = {<<r, k>> : k \in ctx[r].sel}]
               d == [ctx[r] EXCEPT !.pin = FALSE]
    <2>1. /\ st[r] = "getCredentials"
          /\ GoWith(r, "verifyCredentials", c) \/ GoWith(r, "handleError", d)
      BY <1>10 DEF GetCredentials
    <2>2. ~GoWith(r, "verifyCredentials", c)
      <3> SUFFICES ASSUME GoWith(r, "verifyCredentials", c) PROVE FALSE
        OBVIOUS
      <3>1. ctx'[r] = c
        BY DEF GoWith, TypeInv, HolderInv, HolderTypes
      <3>2. PICK k : k \in ctx[r].sel
        BY <1>3, <2>1 DEF Known, Before, Unset
      <3>3. <<r, k>> \in c.got
        BY <1>3, <3>2 DEF Context
      <3>4. ctx[r].got = {}
        BY <1>3, <2>1 DEF Known, Before
      <3> QED
        BY <1>10, <3>1, <3>3, <3>4
    <2>3. d.offer = ctx[r].offer /\ d.got = ctx[r].got /\ d.sel = ctx[r].sel
      BY <1>3 DEF Context
    <2>4. GoWith(r, "handleError", d)
      BY <2>1, <2>2
    <2>5. "handleError" \notin Accepting /\ "handleError" \in Spent
      BY DEF Accepting, Spent, Ended
    <2> HIDE DEF d
    <2> QED
      BY <1>4, <2>3, <2>4, <2>5
  <1> QED
    BY <1>7, <1>8, <1>9, <1>10

(* A step of a run that has nothing in hand and knows of nobody who has    *)
(* what it stands for: it may take over what another has in hand, but not  *)
(* go on accepting it.                                                     *)
LEMMA TakesKeeps ==
    ASSUME AcceptInv, IssuanceInv', NEW r \in Run, st[r] \notin Spent,
           UNCHANGED <<branded, stored, deleting, gone, told>>,
           \A q \in Run \ {r} : UNCHANGED <<st[q], at[q], ctx[q], todo[q]>>,
           \A f \in Run : rows'[f].ctx = rows[f].ctx \/ rows'[f].ctx.got = {},
           OneSource(ctx[r])', SameOffer(ctx[r])',
           st'[r] \in Accepting => at'[r] = "stuck"
    PROVE  AcceptInv'
  <1> USE DEF AcceptInv
  <1>1. TypeInv /\ Fresh /\ Handed
    BY DEF IssuanceInv
  <1>2. ctx[r].got = {}
    BY <1>1, HandIsLate
  <1>3. \A q \in Run : \A x \in ctx[q].got : x[1] \in Run \ {r}
    BY <1>1, GotType DEF Fresh
  <1>4. \A q \in Run \ {r} : First(q)' = First(q)
    BY FirstSame
  <1>5. Sources'
    <2>1. \A q \in Run \ {r} : OneSource(ctx[q])' /\ SameOffer(ctx[q])'
      BY <1>3 DEF Sources, OneSource, SameOffer
    <2>2. ASSUME NEW f \in Run PROVE OneSource(rows[f].ctx)' /\ SameOffer(rows[f].ctx)'
      <3>1. CASE rows'[f].ctx.got = {}
        BY <3>1 DEF OneSource, SameOffer
      <3>2. CASE rows'[f].ctx = rows[f].ctx
        <4>1. \A x \in rows[f].ctx.got : x[1] \in Run \ {r}
          BY <1>1, <1>3 DEF Handed
        <4> QED
          BY <3>2, <4>1 DEF Sources, OneSource, SameOffer
      <3> QED
        BY <3>1, <3>2
    <2> QED
      BY <2>1, <2>2 DEF Sources
  <1>6. \A q \in Run : HasBranded(q)'
    <2>1. HasBranded(r)'
      BY DEF HasBranded
    <2>2. \A q \in Run \ {r} : HasBranded(q)'
      BY DEF HasBranded
    <2> QED
      BY <2>1, <2>2
  <1>7. StoredIsBranded' /\ deleting' \subseteq stored'
    <2>1. \A x \in stored : x[1] \in Run \ {r}
      BY <1>1, StoredType DEF Fresh
    <2> QED
      BY <2>1 DEF StoredIsBranded
  <1>8. BrandingIsBlamed'
    <2>1. \A q \in Run : \A x : Blamed(q, x) => Blamed(q, x)'
      BY <1>2, <1>4 DEF Blamed
    <2> QED
      BY <2>1 DEF BrandingIsBlamed
  <1>9. ASSUME NEW x \in Credential PROVE Telling(x)'
    <2>1. x[1] \in Run /\ told'[x] = told[x]
      BY DEF Credential
    <2>2. \A q \in Run \ {r} : Tells(q, x)' = Tells(q, x)
      BY <1>4 DEF Tells
    <2>3. ~Tells(r, x)'
      BY DEF Tells, Accepting
    <2>4. CASE x[1] = r
      <3>1. told[x] = 0
        BY <1>1, <2>1, <2>4 DEF Telling, TypeInv, StoresInv
      <3>2. \A q \in Run : ~Tells(q, x)
        BY <1>3, <2>4 DEF Tells
      <3> QED
        BY <2>1, <2>2, <2>3, <3>1, <3>2 DEF Telling
    <2>5. CASE x[1] # r
      BY <2>1, <2>2, <2>3, <2>5 DEF Telling
    <2> QED
      BY <2>4, <2>5
  <1> QED
    BY <1>5, <1>6, <1>7, <1>8, <1>9

LEMMA LinkAccept ==
    ASSUME AcceptInv, IssuanceInv', NEW r \in Run, OpenOffer(r) \/ OpenRedirect(r)
    PROVE  AcceptInv'
  <1> USE DEF AcceptInv, IssuanceInv
  <1>1. /\ st[r] = "idle" /\ "idle" \notin Spent
        /\ UNCHANGED <<branded, stored, deleting, gone, told, todo>>
    BY DEF OpenOffer, OpenRedirect, storeVars, Spent, After, Ended
  <1>2. CASE OpenOffer(r)
    <2>1. PICK o \in Offer :
            /\ st' = [st EXCEPT ![r] = "start"]
            /\ ctx' = [ctx EXCEPT ![r] = [NoContext EXCEPT !.flow = r, !.offer = o]]
            /\ rows' = [f \in Run |-> NoRow] /\ UNCHANGED at
      BY <1>2 DEF OpenOffer
    <2>2. /\ st'[r] = "start" /\ ctx'[r].got = {}
          /\ \A q \in Run \ {r} : UNCHANGED <<st[q], at[q], ctx[q], todo[q]>>
          /\ \A f \in Run : rows'[f].ctx.got = {}
      BY <1>1, <2>1 DEF TypeInv, HolderInv, HolderTypes, NoContext, NoRow
    <2>3. OneSource(ctx[r])' /\ SameOffer(ctx[r])'
      BY <2>2 DEF OneSource, SameOffer
    <2> QED
      BY <1>1, <2>2, <2>3, TakesKeeps DEF Accepting
  <1>3. CASE OpenRedirect(r)
    <2>1. PICK code \in browser, f \in Saved :
            /\ LET row == rows[f]
                   waits == row.st = "waitForAuthorizationResponse" IN
               /\ st' = [st EXCEPT ![r] = IF waits THEN "getCredentials" ELSE row.st]
               /\ ctx' = [ctx EXCEPT ![r] = IF waits THEN [row.ctx EXCEPT !.code = code]
                                            ELSE row.ctx]
               /\ at' = [at EXCEPT ![r] = IF row.st \in Invoking THEN "stuck" ELSE "begin"]
            /\ UNCHANGED rows
      BY <1>3 DEF OpenRedirect
    <2> DEFINE row == rows[f]
    <2>2. f \in Run /\ row.st \in Waiting \cup Invoking /\ row.ctx \in Context
      BY DEF Saved, TypeInv, HolderInv, SavedRuns, HolderTypes
    <2>3. /\ st'[r] = IF row.st = "waitForAuthorizationResponse" THEN "getCredentials"
                      ELSE row.st
          /\ at'[r] = IF row.st \in Invoking THEN "stuck" ELSE "begin"
          /\ \A q \in Run \ {r} : UNCHANGED <<st[q], at[q], ctx[q], todo[q]>>
      BY <1>1, <2>1 DEF TypeInv, HolderInv, HolderTypes
    <2>4. ctx'[r].got = row.ctx.got /\ ctx'[r].offer = row.ctx.offer
      BY <2>1, <2>2 DEF TypeInv, HolderInv, HolderTypes, Context
    <2>5. \A x \in row.ctx.got : x[1] \in Run \ {r}
      BY <1>1, <2>2, GotType DEF Handed, Fresh
    <2>6. OneSource(ctx[r])' /\ SameOffer(ctx[r])'
      BY <2>2, <2>3, <2>4, <2>5 DEF Sources, OneSource, SameOffer
    <2>7. st'[r] \in Accepting => at'[r] = "stuck"
      BY <2>2, <2>3 DEF Accepting, Waiting, Invoking
    <2> QED
      BY <1>1, <2>1, <2>3, <2>6, <2>7, TakesKeeps
  <1> QED
    BY <1>2, <1>3

LEMMA ObtainAccept ==
    ASSUME AcceptInv, IssuanceInv', NEW r \in Run, GetCredentials(r), ctx'[r].got # ctx[r].got
    PROVE  AcceptInv'
  <1> USE DEF AcceptInv, IssuanceInv
  <1> DEFINE got == {<<r, k>> : k \in ctx[r].sel}
             c == [ctx[r] EXCEPT !.pin = FALSE, !.got = got]
             d == [ctx[r] EXCEPT !.pin = FALSE]
  <1>1. /\ st[r] = "getCredentials" /\ "getCredentials" \notin Spent
        /\ UNCHANGED <<branded, stored, deleting, gone, told>>
        /\ GoWith(r, "verifyCredentials", c) \/ GoWith(r, "handleError", d)
    BY DEF GetCredentials, storeVars, Spent, After, Ended
  <1>2. ctx[r] \in Context
    BY DEF TypeInv, HolderInv, HolderTypes
  <1>3. ~GoWith(r, "handleError", d)
    BY <1>2 DEF GoWith, TypeInv, HolderInv, HolderTypes, Context
  <1>4. /\ st'[r] = "verifyCredentials" /\ ctx'[r] = c /\ UNCHANGED rows
        /\ \A q \in Run \ {r} : UNCHANGED <<st[q], at[q], ctx[q], todo[q]>>
    BY <1>1, <1>3 DEF GoWith, TypeInv, HolderInv, HolderTypes
  <1>5. c.got = got /\ \A x \in got : x[1] = r
    BY <1>2 DEF Context
  <1> HIDE DEF got, c
  <1>6. OneSource(ctx[r])' /\ SameOffer(ctx[r])'
    BY <1>4, <1>5 DEF OneSource, SameOffer
  <1> QED
    BY <1>1, <1>4, <1>6, TakesKeeps DEF Accepting

\* Who has a credential of one source in hand has it for its configuration.
LEMMA ObtainedIsOnly ==
    ASSUME TypeInv, NEW r \in Run, OneSource(ctx[r]), NEW k, NEW x \in ctx[r].got, x[2] = k
    PROVE  Obtained(r, k) = x
  <1>1. \A y \in ctx[r].got : y[2] = k => y = x
    BY DEF OneSource, TypeInv, HolderInv, HolderTypes, Context, Credential
  <1> QED
    BY <1>1 DEF Obtained

\* A step of acceptance: r goes on, with what it has in hand; others stay.
Accepts(r) ==
    /\ st[r] \in Accepting /\ ctx' = ctx /\ rows' = rows
    /\ \A q \in Run \ {r} : UNCHANGED <<st[q], at[q], todo[q]>>
    /\ UNCHANGED <<deleting, gone>>
    /\ st'[r] \in Spent

LEMMA AcceptedStay ==
    ASSUME AcceptInv, NEW r \in Run, Accepts(r)
    PROVE  /\ Sources'
           /\ \A q \in Run : First(q)' = First(q)
           /\ \A q \in Run : st[q] \in Spent <=> st'[q] \in Spent
           /\ \A q \in Run \ {r} : \A x : Tells(q, x)' = Tells(q, x)
  <1>1. \A q \in Run : First(q)' = First(q)
    BY FirstSame DEF Accepts
  <1>2. st[r] \in Spent
    BY DEF Accepts, Accepting, Spent, After
  <1>3. Sources'
    BY DEF AcceptInv, Sources, OneSource, SameOffer, Accepts
  <1> QED
    BY <1>1, <1>2, <1>3 DEF Accepts, Tells

LEMMA BrandAccept ==
    ASSUME AcceptInv, IssuanceInv', NEW r \in Run, StoreCredentialBranding(r)
    PROVE  AcceptInv'
  <1> USE DEF AcceptInv, IssuanceInv
  <1>1. /\ st[r] = "storeCredentialBranding" /\ at[r] = "begin"
        /\ UNCHANGED <<stored, deleting, gone, told>>
    BY DEF StoreCredentialBranding
  <1>2. /\ ctx[r] \in Context /\ todo[r] \subseteq ctx[r].sel
        /\ {x[2] : x \in ctx[r].got} = ctx[r].sel
    BY <1>1 DEF TypeInv, HolderInv, HolderTypes, Runs, Known, After
  <1>3. CASE todo[r] = {}
    <2>1. Go(r, "storeCredentials") /\ UNCHANGED branded
      BY <1>3 DEF StoreCredentialBranding
    <2>2. /\ st'[r] = "storeCredentials" /\ ctx' = ctx /\ rows' = rows
          /\ \A q \in Run \ {r} : UNCHANGED <<st[q], at[q], ctx[q], todo[q]>>
      BY <2>1 DEF Go, GoWith, TypeInv, HolderInv, HolderTypes
    <2>3. HasBranded(r)'
      BY <1>1, <1>3, <2>1, <2>2 DEF HasBranded, Accepting
    <2>4. \A x \in ctx'[r].got : Tells(r, x)' => Tells(r, x)
      <3>1. First(r)' = First(r)
        BY <2>2, FirstSame
      <3> QED
        BY <1>1, <1>3, <2>2, <3>1 DEF Tells
    <2>5. Aside(r)
      BY <1>1, <2>1, <2>2, <2>3, <2>4 DEF Aside, Spent, After, Accepting
    <2> QED
      BY <2>5, AsideKeeps
  <1>4. CASE todo[r] # {}
    <2> PICK k : k = Min1(todo[r])
      OBVIOUS
    <2> PICK x : x = Obtained(r, k)
      OBVIOUS
    <2>1. k \in todo[r] /\ k \in ctx[r].sel
      BY <1>2, <1>4, LeastIsOne, HolderAssumption DEF Context
    <2>2. x \in ctx[r].got /\ x[2] = k
      BY <1>2, <2>1, ObtainedIsGot
    <2>3. IF CanBrand(x) THEN branded' = branded \cup {x} /\ Continue(r, "begin", todo[r] \ {k})
                         ELSE Go(r, "handleError") /\ UNCHANGED branded
      BY <1>4 DEF StoreCredentialBranding
    <2>4. x \in Credential /\ x[1] \in Run
      BY <1>2, <2>2 DEF Context, Credential
    <2>5. \A y \in ctx[r].got : y[2] = k => y = x
      BY <2>2, ObtainedIsOnly DEF Sources
    <2>6. ctx[x[1]].offer = ctx[r].offer
      BY <2>2 DEF Sources, SameOffer
    <2>7. CASE ~CanBrand(x)
      <3>1. Aside(r)
        BY <1>1, <2>3, <2>7, GoAside DEF Accepting, Spent, Ended
      <3> QED
        BY <3>1, AsideKeeps
    <2>8. CASE CanBrand(x)
      <3>1. x \notin branded /\ branded' = branded \cup {x}
        BY <2>3, <2>8 DEF CanBrand
      <3>2. /\ st' = st /\ ctx' = ctx /\ rows' = rows
            /\ at'[r] = "begin" /\ todo'[r] = todo[r] \ {k}
            /\ \A q \in Run \ {r} : UNCHANGED <<at[q], todo[q]>>
        BY <2>3, <2>8 DEF Continue, TypeInv, HolderInv, HolderTypes
      <3>3. Accepts(r)
        BY <1>1, <3>2 DEF Accepts, Accepting, Spent, After
      <3>4. \A q \in Run : HasBranded(q)'
        <4>1. HasBranded(r)'
          BY <1>1, <2>5, <3>1, <3>2 DEF HasBranded, Accepting
        <4>2. \A q \in Run \ {r} : HasBranded(q)'
          BY <1>1, <3>1, <3>2 DEF HasBranded
        <4> QED
          BY <4>1, <4>2
      <3>5. StoredIsBranded'
        BY <1>1, <3>1, <3>2 DEF StoredIsBranded
      <3>6. BrandingIsBlamed'
        <4>1. \A q \in Run : \A y : Blamed(q, y) => Blamed(q, y)'
          BY <3>2, <3>3, AcceptedStay DEF Blamed
        <4>2. Blamed(r, x)'
          BY <1>1, <2>2, <3>2 DEF Blamed, Accepting
        <4> QED
          BY <1>1, <3>1, <4>1, <4>2 DEF BrandingIsBlamed
      <3>7. ASSUME NEW y \in Credential PROVE Telling(y)'
        <4>1. CASE y # x
          <5>1. Tells(r, y)' => Tells(r, y)
            BY <1>1, <2>5, <3>2, <3>3, <4>1, AcceptedStay DEF Tells
          <5>2. \A q \in Run : Tells(q, y)' => Tells(q, y)
            BY <3>3, <5>1, AcceptedStay
          <5>3. y \notin branded' => y \notin branded
            BY <3>1
          <5> QED
            BY <1>1, <3>2, <5>2, <5>3 DEF Telling
        <4>2. CASE y = x
          <5> SUFFICES ASSUME x \notin gone, ctx[x[1]].offer.branded PROVE Telling(x)'
            BY <1>1, <3>2, <4>2 DEF Telling
          <5>1. st[x[1]] \in Spent
            BY <2>2 DEF Fresh
          <5>2. told[x] = 0
            BY <2>4, <3>1, <5>1 DEF Telling
          <5>3. \A q \in Run \ {r} : ~Tells(q, x)
            BY <3>1 DEF HasBranded, Tells, Accepting
          <5>4. \A q \in Run \ {r} : ~Tells(q, x)'
            BY <3>3, <5>3, AcceptedStay
          <5> QED
            BY <1>1, <3>2, <5>1, <5>2, <5>4 DEF Telling
        <4> QED
          BY <4>1, <4>2
      <3> QED
        BY <1>1, <3>3, <3>4, <3>5, <3>6, <3>7, AcceptedStay
    <2> QED
      BY <2>7, <2>8
  <1> QED
    BY <1>3, <1>4

LEMMA TellAccept ==
    ASSUME AcceptInv, IssuanceInv', NEW r \in Run, SendNotification(r)
    PROVE  AcceptInv'
  <1> USE DEF AcceptInv, IssuanceInv
  <1> PICK x : x = First(r)
    OBVIOUS
  <1>1. /\ st[r] = "storeCredentials" /\ at[r] = "begin"
        /\ UNCHANGED <<branded, stored, deleting, gone>>
        /\ \/ Continue(r, "save", {}) /\ UNCHANGED told
           \/ Continue(r, "save", {}) /\ told' = [told EXCEPT ![x] = @ + 1]
           \/ Go(r, "handleError") /\ UNCHANGED told
    BY DEF SendNotification
  <1>2. x \in ctx[r].got /\ x \in Credential /\ x[1] \in Run
    BY <1>1, FirstIsGot DEF TypeInv, After, Credential
  <1>3. CASE Go(r, "handleError") /\ UNCHANGED told
    <2>1. Aside(r)
      BY <1>1, <1>3, GoAside DEF Accepting, Spent, Ended
    <2> QED
      BY <2>1, AsideKeeps
  <1>4. CASE Continue(r, "save", {})
    <2>1. /\ st' = st /\ ctx' = ctx /\ rows' = rows /\ at'[r] = "save"
          /\ \A q \in Run \ {r} : UNCHANGED <<at[q], todo[q]>>
      BY <1>4 DEF Continue, TypeInv, HolderInv, HolderTypes
    <2>2. Accepts(r)
      BY <1>1, <2>1 DEF Accepts, Accepting, Spent, After
    <2>3. \A q \in Run : HasBranded(q)'
      BY <1>1, <2>1 DEF HasBranded, Accepting
    <2>4. StoredIsBranded'
      BY <1>1, <2>1 DEF StoredIsBranded
    <2>5. BrandingIsBlamed'
      <3>1. \A q \in Run : \A y : Blamed(q, y) => Blamed(q, y)'
        BY <2>1, <2>2, AcceptedStay DEF Blamed
      <3> QED
        BY <1>1, <3>1 DEF BrandingIsBlamed
    <2>6. ASSUME NEW y \in Credential PROVE Telling(y)'
      <3>1. ~Tells(r, y)'
        BY <2>1 DEF Tells
      <3>2. \A q \in Run : Tells(q, y)' => Tells(q, y)
        BY <2>2, <3>1, AcceptedStay
      <3>3. CASE told'[y] = told[y]
        BY <1>1, <2>1, <3>2, <3>3 DEF Telling
      <3>4. CASE told'[y] # told[y]
        <4>1. y = x /\ told'[x] = told[x] + 1
          BY <1>1, <1>2, <3>4 DEF TypeInv, StoresInv
        <4>2. st'[x[1]] \in Spent
          BY <1>2, <2>1 DEF Fresh
        <4> SUFFICES ASSUME x \notin gone, ctx[x[1]].offer.branded
                     PROVE  told'[x] = 1 /\ x \in branded /\ \A q \in Run : ~Tells(q, x)'
          BY <1>1, <2>1, <4>1, <4>2 DEF Telling
        <4>3. ctx[r].offer.branded
          BY <1>2 DEF Sources, SameOffer
        <4>4. Tells(r, x)
          BY <1>1, <1>2, <4>3 DEF Tells
        <4>5. told[x] = 0 /\ \A q \in Run : Tells(q, x) => q = r
          BY <1>2, <2>1, <4>2, <4>4 DEF Telling
        <4>6. x \in branded
          BY <1>1, <1>2, <4>3 DEF HasBranded, Accepting
        <4> QED
          BY <3>1, <3>2, <4>1, <4>5, <4>6
      <3> QED
        BY <3>3, <3>4
    <2> QED
      BY <1>1, <2>2, <2>3, <2>4, <2>5, <2>6, AcceptedStay
  <1> QED
    BY <1>1, <1>3, <1>4

LEMMA StoreAccept ==
    ASSUME AcceptInv, IssuanceInv', NEW r \in Run, StoreCredential(r)
    PROVE  AcceptInv'
  <1> USE DEF AcceptInv, IssuanceInv
  <1> PICK x : x = First(r)
    OBVIOUS
  <1>1. /\ st[r] = "storeCredentials" /\ at[r] = "save"
        /\ UNCHANGED <<branded, deleting, gone, told>>
        /\ \/ x \notin stored /\ stored' = stored \cup {x} /\ Go(r, "done")
           \/ Go(r, "handleError") /\ UNCHANGED stored
    BY DEF StoreCredential, ToStore
  <1>2. x \in ctx[r].got
    BY <1>1, FirstIsGot DEF TypeInv, After
  <1>3. CASE Go(r, "handleError") /\ UNCHANGED stored
    <2>1. Aside(r)
      BY <1>1, <1>3, GoAside DEF Accepting, Spent, Ended
    <2> QED
      BY <2>1, AsideKeeps
  <1>4. CASE x \notin stored /\ stored' = stored \cup {x} /\ Go(r, "done")
    <2>1. /\ st'[r] = "done" /\ ctx' = ctx /\ rows' = rows
          /\ \A q \in Run \ {r} : UNCHANGED <<st[q], at[q], todo[q]>>
      BY <1>4 DEF Go, GoWith, TypeInv, HolderInv, HolderTypes
    <2>2. Accepts(r)
      BY <1>1, <2>1 DEF Accepts, Accepting, Spent, After
    <2>3. \A q \in Run : HasBranded(q)'
      BY <1>1, <2>1 DEF HasBranded, Accepting
    <2>4. StoredIsBranded'
      <3>1. ctx[x[1]].offer.branded => x \in branded \cup gone
        BY <1>1, <1>2 DEF HasBranded, Accepting, Sources, SameOffer
      <3> QED
        BY <1>1, <1>4, <2>1, <3>1 DEF StoredIsBranded
    <2>5. BrandingIsBlamed'
      <3> SUFFICES ASSUME NEW y \in branded
                   PROVE  y \in stored' \ deleting \/ \E q \in Run : Blamed(q, y)'
        BY <1>1 DEF BrandingIsBlamed
      <3>1. CASE y = x
        BY <1>4, <3>1
      <3>2. CASE y # x
        <4>1. \A q \in Run : Blamed(q, y) => Blamed(q, y)'
          BY <2>1, <2>2, <3>2, AcceptedStay DEF Blamed
        <4> QED
          BY <1>4, <4>1 DEF BrandingIsBlamed
      <3> QED
        BY <3>1, <3>2
    <2>6. ASSUME NEW y \in Credential PROVE Telling(y)'
      <3>1. \A q \in Run : Tells(q, y)' => Tells(q, y)
        <4>1. ~Tells(r, y)'
          BY <2>1 DEF Tells
        <4> QED
          BY <2>2, <4>1, AcceptedStay
      <3>2. y[1] \in Run /\ (st[y[1]] \in Spent <=> st'[y[1]] \in Spent)
        BY <2>2, AcceptedStay DEF Credential
      <3> QED
        BY <1>1, <2>1, <3>1, <3>2 DEF Telling
    <2>7. deleting' \subseteq stored'
      BY <1>1, <1>4
    <2> QED
      BY <2>2, <2>3, <2>4, <2>5, <2>6, <2>7, AcceptedStay
  <1> QED
    BY <1>1, <1>3, <1>4

\* The user deletes, a contact is edited, a state is saved, the process dies.
LEMMA OthersAccept ==
    ASSUME AcceptInv, IssuanceInv', Editing \/ Crash \/ \E r \in Run : SaveState(r)
    PROVE  AcceptInv'
  <1> USE DEF AcceptInv, IssuanceInv
  <1>1. ctx' = ctx /\ branded' \subseteq branded /\ told' = told
    BY DEF Editing, Edit, DeleteBranding, DeleteCredential, Crash, SaveState, holderVars, storeVars
  <1>2. \A q \in Run : First(q)' = First(q)
    BY <1>1, FirstSame
  <1>3. CASE Edit \/ \E r \in Run : SaveState(r)
    <2>1. UNCHANGED <<st, at, todo, branded, stored, deleting, gone>>
      BY <1>3 DEF Edit, SaveState, holderVars, storeVars
    <2>2. ASSUME NEW f \in Run PROVE OneSource(rows[f].ctx)' /\ SameOffer(rows[f].ctx)'
      <3>1. rows'[f] = rows[f] \/ rows'[f] = NoRow \/ \E r \in Run : rows'[f].ctx = ctx[r]
        <4>1. CASE Edit
          BY <4>1 DEF Edit, holderVars
        <4>2. ASSUME NEW r \in Run, SaveState(r)
              PROVE  rows'[f] = rows[f] \/ rows'[f] = NoRow \/ rows'[f].ctx = ctx[r]
          <5> DEFINE row == IF st[r] \in Final THEN NoRow ELSE [st |-> st[r], ctx |-> ctx[r]]
          <5>1. rows' = [rows EXCEPT ![ctx[r].flow] = row]
            BY <4>2 DEF SaveState
          <5>2. row = NoRow \/ row.ctx = ctx[r]
            OBVIOUS
          <5> HIDE DEF row
          <5>3. rows'[f] \in {rows[f], row}
            BY <5>1 DEF TypeInv, HolderInv, HolderTypes
          <5> QED
            BY <5>2, <5>3
        <4> QED
          BY <1>3, <4>1, <4>2
      <3> QED
        BY <1>1, <3>1 DEF Sources, OneSource, SameOffer, NoRow, NoContext
    <2>3. Sources'
      BY <1>1, <2>2 DEF Sources, OneSource, SameOffer
    <2>4. (\A r \in Run : HasBranded(r)') /\ StoredIsBranded'
      BY <1>1, <2>1 DEF HasBranded, StoredIsBranded
    <2>5. BrandingIsBlamed'
      BY <1>1, <1>2, <2>1 DEF BrandingIsBlamed, Blamed
    <2>6. \A x \in Credential : Telling(x)'
      BY <1>1, <1>2, <2>1 DEF Telling, Tells
    <2> QED
      BY <2>1, <2>3, <2>4, <2>5, <2>6
  <1>4. CASE DeleteBranding \/ DeleteCredential
    <2>1. UNCHANGED <<st, at, todo, rows>>
      BY <1>4 DEF DeleteBranding, DeleteCredential, holderVars
    <2>2. \/ UNCHANGED <<branded, gone>> /\ stored' = stored \ deleting /\ deleting' = {}
          \/ \E c \in stored : /\ branded' = branded \ {c} /\ gone' = gone \cup {c}
                               /\ deleting' = {c} /\ deleting = {} /\ stored' = stored
      BY <1>4 DEF DeleteBranding, DeleteCredential
    <2>3. \A x : x \in branded \cup gone => x \in branded' \cup gone'
      BY <2>2
    <2>4. Sources' /\ (\A r \in Run : HasBranded(r)') /\ StoredIsBranded'
      <3>1. Sources'
        BY <1>1, <2>1 DEF Sources, OneSource, SameOffer
      <3>2. \A r \in Run : HasBranded(r)'
        BY <1>1, <2>1, <2>3 DEF HasBranded
      <3>3. StoredIsBranded'
        BY <1>1, <2>2, <2>3 DEF StoredIsBranded
      <3> QED
        BY <3>1, <3>2, <3>3
    <2>5. BrandingIsBlamed'
      <3>1. \A q \in Run : \A x : Blamed(q, x) <=> Blamed(q, x)'
        BY <1>1, <1>2, <2>1 DEF Blamed
      <3> QED
        BY <2>2, <3>1 DEF BrandingIsBlamed
    <2>6. \A x \in Credential : Telling(x)'
      <3>1. \A q \in Run : \A x : Tells(q, x) <=> Tells(q, x)'
        BY <1>1, <1>2, <2>1 DEF Tells
      <3>2. \A x : x \notin gone' => x \notin gone /\ (x \in branded' <=> x \in branded)
        BY <2>2
      <3> QED
        BY <1>1, <2>1, <3>1, <3>2 DEF Telling
    <2>7. deleting' \subseteq stored'
      BY <2>2
    <2> QED
      BY <2>4, <2>5, <2>6, <2>7
  <1>5. CASE Crash
    <2>1. /\ st' = [r \in Run |-> IF st[r] = "idle" THEN "idle" ELSE "dead"]
          /\ deleting' = {} /\ UNCHANGED <<rows, branded, stored, gone>>
      BY <1>5 DEF Crash
    <2>2. \A r \in Run : st'[r] \in {"idle", "dead"}
      BY <2>1
    <2>3. Sources' /\ (\A r \in Run : HasBranded(r)') /\ StoredIsBranded'
      <3>1. Sources'
        BY <1>1, <2>1 DEF Sources, OneSource, SameOffer
      <3>2. \A r \in Run : HasBranded(r)'
        BY <2>2 DEF HasBranded, Accepting
      <3>3. StoredIsBranded'
        BY <1>1, <2>1 DEF StoredIsBranded
      <3> QED
        BY <3>1, <3>2, <3>3
    <2>4. BrandingIsBlamed'
      <3>1. \A q \in Run : ctx[q].got # {} => st'[q] = "dead"
        BY <2>1, HandIsLate DEF Spent, After, Ended
      <3>2. \A q \in Run : \A x : Blamed(q, x) => Blamed(q, x)'
        BY <1>1, <1>2, <3>1 DEF Blamed
      <3> QED
        BY <2>1, <3>2 DEF BrandingIsBlamed
    <2>5. ASSUME NEW x \in Credential PROVE Telling(x)'
      <3>1. x[1] \in Run /\ told[x] \in Nat
        BY DEF Credential, TypeInv, StoresInv
      <3>2. \A q \in Run : ~Tells(q, x)'
        BY <2>2 DEF Tells
      <3>3. st[x[1]] \in Spent => st'[x[1]] \in Spent
        BY <2>1, <3>1 DEF Spent, After, Ended
      <3> QED
        BY <1>1, <2>1, <3>1, <3>2, <3>3 DEF Telling
    <2> QED
      BY <2>1, <2>3, <2>4, <2>5
  <1> QED
    BY <1>3, <1>4, <1>5 DEF Editing

LEMMA AcceptStep == ASSUME AcceptInv, [Next]_vars PROVE AcceptInv'
  <1>1. IssuanceInv'
    BY IssuanceStep DEF AcceptInv
  <1>2. CASE Crash \/ Editing \/ \E r \in Run : SaveState(r)
    BY <1>1, <1>2, OthersAccept
  <1>3. ASSUME NEW r \in Run, User(r) PROVE AcceptInv'
    <2>1. CASE OpenOffer(r) \/ OpenRedirect(r)
      BY <1>1, <2>1, LinkAccept
    <2>2. CASE ~(OpenOffer(r) \/ OpenRedirect(r))
      BY <1>1, <1>3, <2>2, UserAside, AsideKeeps DEF User
    <2> QED
      BY <2>1, <2>2
  <1>4. ASSUME NEW r \in Run, Service(r) PROVE AcceptInv'
    <2>1. CASE Start(r) \/ CreateCredentialsToSelectFrom(r) \/ GetContact(r)
               \/ CreateContact(r) \/ ReadContact(r) \/ RenameContact(r)
      BY <1>1, <2>1, SetupAside, AsideKeeps
    <2>2. CASE \/ FindIssuerBranding(r) \/ AddIssuerBranding(r) \/ AssertValidCredentials(r)
               \/ FindIdentityParty(r) \/ SaveIdentity(r)
               \/ GetCredentials(r) /\ ctx'[r].got = ctx[r].got
      BY <1>1, <2>2, ReviewAside, AsideKeeps
    <2>3. CASE GetCredentials(r) /\ ctx'[r].got # ctx[r].got
      BY <1>1, <2>3, ObtainAccept
    <2>4. CASE StoreCredentialBranding(r) \/ SendNotification(r) \/ StoreCredential(r)
      BY <1>1, <2>4, BrandAccept, TellAccept, StoreAccept
    <2> QED
      BY <1>4, <2>1, <2>2, <2>3, <2>4 DEF Service
  <1>5. CASE UNCHANGED vars
    <2>1. UNCHANGED <<st, at, ctx, todo, rows, branded, stored, deleting, gone, told>>
      BY <1>5 DEF vars, holderVars, storeVars
    <2>2. \A q \in Run : First(q)' = First(q)
      BY <2>1, FirstSame
    <2> QED
      BY <1>1, <2>1, <2>2
      DEF AcceptInv, Sources, OneSource, SameOffer, HasBranded, StoredIsBranded,
          BrandingIsBlamed, Blamed, Telling, Tells
  <1> QED
    BY <1>2, <1>3, <1>4, <1>5 DEF Next

LEMMA AcceptAlways == Spec => []AcceptInv
  BY AcceptInit, AcceptStep, PTL DEF Spec

(* An issuer with brandings hears once, at most, that a credential was     *)
(* accepted, until the user deletes the credential: whatever runs are      *)
(* resumed, in whatever order they accept, wherever the process dies.      *)
THEOREM IssuerIsToldOnce == Spec => []BrandedToldOnce
  <1>1. AcceptInv => BrandedToldOnce
    BY DEF AcceptInv, Telling, BrandedToldOnce
  <1> QED
    BY <1>1, AcceptAlways, PTL

(* A stored credential has the branding its issuer provides until the user *)
(* deletes it, and a branding without a credential is that of an acceptance*)
(* under way, failed or dead, or of a credential selected beside another.  *)
THEOREM BrandingsFollow == Spec => []BrandingFollowsCredential
  <1>1. AcceptInv => BrandingFollowsCredential
    <2> SUFFICES ASSUME AcceptInv PROVE BrandingFollowsCredential
      OBVIOUS
    <2>1. \A c \in branded \ stored : \E r \in Run : Blamed(r, c)
      BY DEF AcceptInv, BrandingIsBlamed
    <2> QED
      BY <2>1 DEF AcceptInv, StoredIsBranded, BrandingFollowsCredential, Blamed, Accepting
  <1> QED
    BY <1>1, AcceptAlways, PTL
-----------------------------------------------------------------------------
(* What a run knows of the issuer's contact. As long as nobody edits       *)
(* contacts no contact goes away, so that the one in a context, of a run or*)
(* of a saved state, is on file; and an identity that the context lists is *)
(* that contact's, or an orphan when a later agreement to the same contact *)
(* wrote over it.                                                          *)
Reviewing == {"addIssuerBrandingAfterIdentity", "reviewCredentials"}

Review(s, c) == s \in Reviewing => c.offer.issuer \in c.known

OnFile(c) ==
    /\ c.contact \in parties \cup {Nobody}
    /\ c.contact = Nobody => c.known = {}
    /\ \A i \in c.known : owner[i] \in {c.contact, Orphan}

Unedited ==
    /\ edit.op = "none" /\ parties = born
    /\ \A r \in Run : OnFile(ctx[r]) /\ OnFile(rows[r].ctx)

ReviewInv ==
    /\ TypeInv
    /\ edits \in Nat
    /\ \A r \in Run : Review(st[r], ctx[r]) /\ Review(rows[r].st, rows[r].ctx)
    /\ edits = 0 => Unedited

LEMMA ReviewInit == Init => ReviewInv
  <1> SUFFICES ASSUME Init PROVE ReviewInv
    OBVIOUS
  <1>1. \A r \in Run : st[r] = "idle" /\ rows[r].st = "idle"
    BY DEF Init, NoRow
  <1>2. \A r \in Run : OnFile(ctx[r]) /\ OnFile(rows[r].ctx)
    BY DEF Init, NoRow, NoContext, OnFile
  <1>3. Unedited /\ edits = 0
    BY <1>2 DEF Init, InitContacts, NoEdit, Unedited
  <1> QED
    BY <1>1, <1>3, TypeInit DEF ReviewInv, Review, Reviewing

\* A step of run r: what the contacts of the others need stays.
LEMMA ReviewWrite ==
    ASSUME ReviewInv, TypeInv', NEW r \in Run, UNCHANGED <<rows, edit, edits>>,
           \A q \in Run \ {r} : UNCHANGED <<st[q], ctx[q]>>,
           Review(st[r], ctx[r])',
           edits = 0 => /\ parties' = born' /\ parties \subseteq parties'
                        /\ \A p \in parties : \A i \in Ident :
                              owner[i] \in {p, Orphan} => owner'[i] \in {p, Orphan}
                        /\ OnFile(ctx[r])'
    PROVE  ReviewInv'
  <1>1. \A q \in Run : Review(st[q], ctx[q])' /\ Review(rows[q].st, rows[q].ctx)'
    BY DEF ReviewInv, Review
  <1>2. ASSUME edits = 0 PROVE Unedited'
    <2>1. ASSUME NEW c \in Context, OnFile(c)
          PROVE  /\ c.contact \in parties' \cup {Nobody}
                 /\ \A i \in c.known : owner'[i] \in {c.contact, Orphan}
      BY <1>2, <2>1 DEF OnFile, Context
    <2>2. \A q \in Run : ctx[q] \in Context /\ rows[q].ctx \in Context
      BY DEF ReviewInv, TypeInv, HolderInv, HolderTypes
    <2>3. \A q \in Run : OnFile(ctx[q]) /\ OnFile(rows[q].ctx)
      BY <1>2 DEF ReviewInv, Unedited
    <2>4. ASSUME NEW q \in Run \ {r} PROVE OnFile(ctx[q])'
      <3>1. ctx'[q] = ctx[q]
        OBVIOUS
      <3> QED
        BY <2>1, <2>2, <2>3, <3>1 DEF OnFile
    <2>5. \A q \in Run : OnFile(rows[q].ctx)'
      BY <2>1, <2>2, <2>3 DEF OnFile
    <2> QED
      BY <1>2, <2>4, <2>5 DEF Unedited, ReviewInv
  <1> QED
    BY <1>1, <1>2 DEF ReviewInv

\* A step of run r that leaves the contacts alone, and its own as well.
LEMMA ReviewMove ==
    ASSUME ReviewInv, TypeInv', NEW r \in Run, UNCHANGED <<contactVars, edits, rows>>,
           \A q \in Run \ {r} : UNCHANGED <<st[q], ctx[q]>>,
           Review(st[r], ctx[r])',
           ctx'[r].contact = ctx[r].contact, ctx'[r].known = ctx[r].known
    PROVE  ReviewInv'
  <1>1. UNCHANGED <<parties, born, owner, edit>>
    BY DEF contactVars
  <1>2. edits = 0 => OnFile(ctx[r])'
    BY <1>1 DEF ReviewInv, Unedited, OnFile
  <1> QED
    BY <1>1, <1>2, ReviewWrite DEF ReviewInv, Unedited

LEMMA GoWithEffect ==
    ASSUME TypeInv, NEW r \in Run, NEW s, NEW c, GoWith(r, s, c)
    PROVE  /\ st'[r] = s /\ ctx'[r] = c /\ rows' = rows
           /\ \A q \in Run \ {r} : UNCHANGED <<st[q], ctx[q]>>
  BY DEF GoWith, TypeInv, HolderInv, HolderTypes

LEMMA ReviewGoWith ==
    ASSUME ReviewInv, TypeInv', NEW r \in Run, NEW s, NEW c, GoWith(r, s, c),
           UNCHANGED <<contactVars, edits>>, Review(s, c),
           c.contact = ctx[r].contact, c.known = ctx[r].known
    PROVE  ReviewInv'
  <1>1. Review(st[r], ctx[r])'
    BY GoWithEffect DEF ReviewInv, Review
  <1> QED
    BY <1>1, GoWithEffect, ReviewMove DEF ReviewInv

LEMMA ReviewGo ==
    ASSUME ReviewInv, TypeInv', NEW r \in Run, NEW s, Go(r, s),
           UNCHANGED <<contactVars, edits>>, Review(s, ctx[r])
    PROVE  ReviewInv'
  BY ReviewGoWith DEF Go

LEMMA ReviewContinue ==
    ASSUME ReviewInv, TypeInv', NEW r \in Run, NEW step, NEW left, Continue(r, step, left),
           UNCHANGED <<contactVars, edits>>
    PROVE  ReviewInv'
  <1>1. UNCHANGED <<st, ctx, rows>>
    BY DEF Continue
  <1>2. Review(st[r], ctx[r])'
    BY <1>1 DEF ReviewInv, Review
  <1> QED
    BY <1>1, <1>2, ReviewMove
LEMMA UserReview ==
    ASSUME ReviewInv, TypeInv', NEW r \in Run,
           LookForContact(r) \/ SelectCredentials(r) \/ InvokeAuthorization(r) \/ EnterPin(r)
           \/ GoBack(r) \/ AcceptCredentials(r)
    PROVE  ReviewInv'
  <1>1. UNCHANGED <<contactVars, edits>>
    BY DEF LookForContact, SelectCredentials, InvokeAuthorization, EnterPin, GoBack,
           AcceptCredentials, incidentVars
  <1>2. ctx[r] \in Context
    BY DEF ReviewInv, TypeInv, HolderInv, HolderTypes
  <1>3. CASE LookForContact(r)
    BY <1>1, <1>3, ReviewContinue DEF LookForContact
  <1>4. CASE SelectCredentials(r)
    <2>1. PICK sel \in (SUBSET ctx[r].offer.choices) \ {{}} :
            LET c == [ctx[r] EXCEPT !.sel = sel] IN GoWith(r, Selected(c), c)
      BY <1>4 DEF SelectCredentials
    <2> DEFINE c == [ctx[r] EXCEPT !.sel = sel]
    <2>2. GoWith(r, Selected(c), c)
      BY <2>1
    <2>3. c.contact = ctx[r].contact /\ c.known = ctx[r].known
      BY <1>2 DEF Context
    <2> HIDE DEF c
    <2>4. Review(Selected(c), c)
      BY DEF Selected, Review, Reviewing
    <2> QED
      BY <1>1, <2>2, <2>3, <2>4, ReviewGoWith
  <1>5. CASE InvokeAuthorization(r) \/ AcceptCredentials(r)
    <2>1. /\ st' = [st EXCEPT ![r] =
                       IF InvokeAuthorization(r) THEN "waitForAuthorizationResponse"
                       ELSE "storeCredentialBranding"]
          /\ UNCHANGED <<ctx, rows>>
      BY <1>5 DEF InvokeAuthorization, AcceptCredentials
    <2>2. Review(st[r], ctx[r])' /\ \A q \in Run \ {r} : UNCHANGED <<st[q], ctx[q]>>
      BY <2>1 DEF Review, Reviewing, ReviewInv, TypeInv, HolderInv, HolderTypes
    <2> QED
      BY <1>1, <2>1, <2>2, ReviewMove
  <1>6. CASE EnterPin(r)
    <2> DEFINE c == [ctx[r] EXCEPT !.pin = TRUE]
    <2>1. GoWith(r, "getCredentials", c)
      BY <1>6 DEF EnterPin
    <2>2. c.contact = ctx[r].contact /\ c.known = ctx[r].known
      BY <1>2 DEF Context
    <2> HIDE DEF c
    <2>3. Review("getCredentials", c)
      BY DEF Review, Reviewing
    <2> QED
      BY <1>1, <2>1, <2>2, <2>3, ReviewGoWith
  <1>7. CASE GoBack(r)
    <2>1. PICK s : Go(r, s) /\ s \in {Previous(r), "declined"}
      BY <1>7 DEF GoBack
    <2>2. s \notin Reviewing
      BY <2>1 DEF Previous, Reviewing
    <2> QED
      BY <1>1, <2>1, <2>2, ReviewGo DEF Review
  <1> QED
    BY <1>3, <1>4, <1>5, <1>6, <1>7

\* Services that leave the contacts and what is known of them alone.
LEMMA ServiceReview ==
    ASSUME ReviewInv, TypeInv', NEW r \in Run,
           Start(r) \/ CreateCredentialsToSelectFrom(r) \/ ReadContact(r) \/ GetCredentials(r)
           \/ FindIssuerBranding(r) \/ AddIssuerBranding(r) \/ AssertValidCredentials(r)
           \/ FindIdentityParty(r) \/ StoreCredentialBranding(r) \/ SendNotification(r)
           \/ StoreCredential(r)
    PROVE  ReviewInv'
  <1>1. UNCHANGED <<contactVars, edits>>
    BY DEF Start, CreateCredentialsToSelectFrom, ReadContact, GetCredentials,
           FindIssuerBranding, AddIssuerBranding, AssertValidCredentials, FindIdentityParty,
           StoreCredentialBranding, SendNotification, StoreCredential, incidentVars
  <1>2. ctx[r] \in Context /\ Review(st[r], ctx[r])
    BY DEF ReviewInv, TypeInv, HolderInv, HolderTypes
  <1>3. ASSUME NEW step, NEW left, Continue(r, step, left) PROVE ReviewInv'
    BY <1>1, <1>3, ReviewContinue
  <1>4. ASSUME NEW s, Go(r, s), s \notin Reviewing PROVE ReviewInv'
    BY <1>1, <1>4, ReviewGo DEF Review
  <1>5. ASSUME NEW s, NEW c, GoWith(r, s, c), s \notin Reviewing,
               c.contact = ctx[r].contact, c.known = ctx[r].known
        PROVE  ReviewInv'
    BY <1>1, <1>5, ReviewGoWith DEF Review
  <1>6. CASE Start(r) \/ ReadContact(r) \/ FindIdentityParty(r) \/ StoreCredentialBranding(r)
             \/ SendNotification(r) \/ StoreCredential(r)
    <2>1. \/ \E step, left : Continue(r, step, left)
          \/ \E s \in {"createCredentialsToSelectFrom", "handleError", "storeCredentials",
                       "done"} : Go(r, s)
      BY <1>6 DEF Start, ReadContact, FindIdentityParty, StoreCredentialBranding,
                  SendNotification, StoreCredential
    <2> QED
      BY <1>3, <1>4, <2>1 DEF Reviewing
  <1>7. CASE CreateCredentialsToSelectFrom(r)
    <2> DEFINE c == [ctx[r] EXCEPT !.sel = ctx[r].offer.choices]
    <2>1. GoWith(r, "getContact", c) \/ Go(r, "handleError")
      BY <1>7 DEF CreateCredentialsToSelectFrom
    <2>2. c.contact = ctx[r].contact /\ c.known = ctx[r].known
      BY <1>2 DEF Context
    <2> HIDE DEF c
    <2> QED
      BY <1>4, <1>5, <2>1, <2>2 DEF Reviewing
  <1>8. CASE GetCredentials(r)
    <2> DEFINE c == [ctx[r] EXCEPT !.pin = FALSE, !.got = {<<r, k>> : k \in ctx[r].sel}]
               d == [ctx[r] EXCEPT !.pin = FALSE]
    <2>1. GoWith(r, "verifyCredentials", c) \/ GoWith(r, "handleError", d)
      BY <1>8 DEF GetCredentials
    <2>2. /\ c.contact = ctx[r].contact /\ c.known = ctx[r].known
          /\ d.contact = ctx[r].contact /\ d.known = ctx[r].known
      BY <1>2 DEF Context
    <2> HIDE DEF c, d
    <2> QED
      BY <1>5, <2>1, <2>2 DEF Reviewing
  <1>9. CASE FindIssuerBranding(r) \/ AddIssuerBranding(r)
    <2>1. BrandingDone(r) \/ \E step, left : Continue(r, step, left)
      BY <1>9 DEF FindIssuerBranding, AddIssuerBranding
    <2>2. CASE BrandingDone(r)
      <3> DEFINE s == IF st[r] = "addIssuerBranding" THEN Unselected(ctx[r])
                      ELSE "reviewCredentials"
      <3>1. Go(r, s) /\ st[r] \in Branding
        BY <1>9, <2>2 DEF BrandingDone, FindIssuerBranding, AddIssuerBranding
      <3>2. Review(s, ctx[r])
        BY <1>2, <3>1 DEF Unselected, Review, Reviewing, Branding
      <3> HIDE DEF s
      <3> QED
        BY <1>1, <3>1, <3>2, ReviewGo
    <2> QED
      BY <1>3, <2>1, <2>2
  <1>10. CASE AssertValidCredentials(r)
    <2>1. Go(r, AfterVerification(ctx[r])) \/ Go(r, "handleError")
      BY <1>10 DEF AssertValidCredentials
    <2>2. Review(AfterVerification(ctx[r]), ctx[r])
      BY DEF AfterVerification, Review, Reviewing
    <2> QED
      BY <1>1, <1>4, <2>1, <2>2, ReviewGo DEF Reviewing
  <1> QED
    BY <1>6, <1>7, <1>8, <1>9, <1>10

\* A run finds the contact, or the user agrees to it, or an identity is added.
LEMMA ContactReview ==
    ASSUME ReviewInv, TypeInv', NEW r \in Run,
           GetContact(r) \/ CreateContact(r) \/ RenameContact(r) \/ SaveIdentity(r)
    PROVE  ReviewInv'
  <1> USE DEF contactVars, incidentVars
  <1>1. UNCHANGED <<edit, edits>>
    BY DEF GetContact, CreateContact, RenameContact, SaveIdentity
  <1>2. ctx[r] \in Context /\ (edits = 0 => parties = born /\ OnFile(ctx[r]))
    BY DEF ReviewInv, Unedited, TypeInv, HolderInv, HolderTypes
  <1>3. /\ owner \in [Ident -> Party \cup {Nobody, Orphan}] /\ parties \subseteq Party
        /\ Nobody \notin Party /\ Orphan \notin Party /\ Nobody # Orphan
        /\ \A p, q \in parties : p = q
    BY ContactAssumption DEF ReviewInv, TypeInv, ContactsInv, ContactsTypeOK
  <1>4. CASE GetContact(r)
    <2> DEFINE ps == FoundContact(ctx[r].offer)
               c == WithContact(ctx[r], ps)
    <2>1. /\ GoWith(r, AfterSetup(c), c) \/ Go(r, "handleError")
          /\ UNCHANGED <<parties, born, owner>>
      BY <1>4 DEF GetContact
    <2>6. CASE Go(r, "handleError")
      <3>1. Review("handleError", ctx[r])
        BY DEF Review, Reviewing
      <3> QED
        BY <1>1, <2>1, <2>6, <3>1, ReviewGo
    <2>7. CASE GoWith(r, AfterSetup(c), c)
      <3>2. /\ st'[r] = AfterSetup(c) /\ ctx'[r] = c /\ rows' = rows
            /\ \A q \in Run \ {r} : UNCHANGED <<st[q], ctx[q]>>
        BY <2>1, <2>7, GoWithEffect DEF ReviewInv
      <3>3. Review(st[r], ctx[r])'
        BY <3>2 DEF AfterSetup, Unselected, Review, Reviewing
      <3>4. ASSUME edits = 0 PROVE OnFile(c)
        <4>1. CASE ps = {}
          BY <1>2, <3>4, <4>1 DEF WithContact
        <4>2. CASE ps # {}
          <5>1. PICK p \in ps : TRUE
            BY <4>2
          <5>2. p \in parties /\ ps = {p}
            BY <1>3, <5>1 DEF FoundContact
          <5> HIDE DEF ps
          <5>3. c.contact = p /\ c.known = IdentitiesOf(p)
            <6>1. (CHOOSE x \in ps : TRUE) = p /\ UNION {IdentitiesOf(x) : x \in ps} = IdentitiesOf(p)
              BY <5>2
            <6> QED
              BY <1>2, <4>2, <6>1 DEF WithContact, Context
          <5> QED
            BY <1>3, <5>2, <5>3 DEF OnFile, IdentitiesOf
        <4> QED
          BY <4>1, <4>2
      <3> HIDE DEF c
      <3>5. edits = 0 => OnFile(ctx[r])'
        BY <2>1, <2>7, <3>2, <3>4 DEF OnFile
      <3> QED
        BY <1>1, <1>2, <2>1, <2>7, <3>2, <3>3, <3>5, ReviewWrite
    <2> QED
      BY <2>1, <2>6, <2>7
  <1>5. ASSUME Continue(r, "begin", {}), UNCHANGED <<parties, born, owner>> PROVE ReviewInv'
    BY <1>1, <1>5, ReviewContinue
  <1>6. ASSUME NEW p \in Party, NEW ids \in SUBSET Ident, ContactAdded(r, p, ids),
               p \in parties', \A i \in ids : owner'[i] = p,
               edits = 0 => /\ parties' = born' /\ parties \subseteq parties'
                            /\ \A o \in parties : \A i \in Ident :
                                  owner[i] \in {o, Orphan} => owner'[i] \in {o, Orphan}
        PROVE  ReviewInv'
    <2> DEFINE c == [ctx[r] EXCEPT !.contact = p, !.known = ids]
    <2>1. GoWith(r, "addIssuerBranding", c)
      BY <1>6 DEF ContactAdded
    <2>2. c.contact = p /\ c.known = ids
      BY <1>2 DEF Context
    <2> HIDE DEF c
    <2>3. /\ st'[r] = "addIssuerBranding" /\ ctx'[r] = c /\ rows' = rows
          /\ \A q \in Run \ {r} : UNCHANGED <<st[q], ctx[q]>>
      BY <2>1, GoWithEffect DEF ReviewInv
    <2>4. Review(st[r], ctx[r])'
      BY <2>3 DEF Review, Reviewing
    <2>5. OnFile(ctx[r])'
      BY <1>3, <1>6, <2>2, <2>3 DEF OnFile
    <2> QED
      BY <1>1, <1>6, <2>3, <2>4, <2>5, ReviewWrite
  <1>7. CASE CreateContact(r)
    <2>1. CASE CanAddParty({"host"})
      <3>1. AddParty(NewParty, {"host"}) /\ ContactAdded(r, NewParty, {"host"}) /\ parties = {}
        BY <1>7, <2>1 DEF CreateContact, CanAddParty
      <3>2. NewParty \in Party
        <4>1. born \subseteq Party /\ Party # born
          BY <1>7 DEF CreateContact, ReviewInv, TypeInv, ContactsInv, ContactsTypeOK
        <4> QED
          BY <4>1 DEF NewParty
      <3>3. parties' = {NewParty} /\ born' = born \cup {NewParty} /\ owner'["host"] = NewParty
        BY <3>1 DEF AddParty, Ident
      <3>4. edits = 0 => parties' = born'
        BY <1>2, <3>1, <3>3
      <3> QED
        BY <1>6, <3>1, <3>2, <3>3, <3>4 DEF Ident
    <2> QED
      BY <1>5, <1>7, <2>1 DEF CreateContact
  <1>8. CASE RenameContact(r)
    <2>1. PICK p \in todo[r] \ Ident :
            LET ids == todo[r] \cap Ident IN
            IF CanUpdateParty(p, ids)
            THEN UpdateParty(p, ids) /\ ContactAdded(r, p, ids)
            ELSE Continue(r, "begin", {}) /\ UNCHANGED <<parties, born, owner>>
      BY <1>8 DEF RenameContact
    <2> DEFINE ids == todo[r] \cap Ident
    <2>2. CASE CanUpdateParty(p, ids)
      <3>1. UpdateParty(p, ids) /\ ContactAdded(r, p, ids)
        BY <2>1, <2>2
      <3>2. p \in born /\ p \in Party /\ ids \in SUBSET Ident
        BY <1>8, <2>1 DEF RenameContact, ReviewInv, TypeInv, HolderInv, Runs, ContactsInv,
                          ContactsTypeOK
      <3> HIDE DEF ids
      <3>3. /\ parties' = parties \cup {p} /\ born' = born /\ parties \subseteq {p}
            /\ \A i \in Ident : owner'[i] = IF i \in ids THEN p
                                            ELSE IF owner[i] = p THEN Orphan ELSE owner[i]
        BY <2>2, <3>1 DEF UpdateParty, CanUpdateParty
      <3>4. edits = 0 => parties' = born'
        BY <1>2, <3>2, <3>3
      <3>5. /\ \A i \in ids : owner'[i] = p
            /\ \A o \in parties : \A i \in Ident :
                  owner[i] \in {o, Orphan} => owner'[i] \in {o, Orphan}
        BY <3>2, <3>3
      <3> QED
        BY <1>6, <3>1, <3>2, <3>3, <3>4, <3>5
    <2> QED
      BY <1>5, <2>1, <2>2
  <1>9. CASE SaveIdentity(r)
    <2> DEFINE i == ctx[r].offer.issuer
               p == ctx[r].contact
               c == [ctx[r] EXCEPT !.known = @ \cup {i}]
    <2>1. i = "did"
      BY <1>9 DEF SaveIdentity, ReviewInv, TypeInv, HolderInv, Runs
    <2>2. CASE CanAddIdentity(p, i)
      <3>1. AddIdentity(p, i) /\ GoWith(r, "addIssuerBrandingAfterIdentity", c)
        BY <1>9, <2>2 DEF SaveIdentity
      <3>2. /\ p \in parties /\ owner[i] = Nobody /\ UNCHANGED <<parties, born>>
            /\ owner' = [owner EXCEPT ![i] = p]
        BY <2>2, <3>1 DEF CanAddIdentity, AddIdentity
      <3>3. c.contact = p /\ c.known = ctx[r].known \cup {i} /\ c.offer.issuer = i
        BY <1>2 DEF Context
      <3>4. i \in Ident /\ ctx[r].known \subseteq Ident
        BY <1>2, <2>1 DEF Context, Ident
      <3>5. edits = 0 => OnFile(ctx[r])
        BY <1>2
      <3> HIDE DEF c, i, p
      <3>6. /\ st'[r] = "addIssuerBrandingAfterIdentity" /\ ctx'[r] = c /\ rows' = rows
            /\ \A q \in Run \ {r} : UNCHANGED <<st[q], ctx[q]>>
        BY <3>1, GoWithEffect DEF ReviewInv
      <3>7. Review(st[r], ctx[r])'
        BY <3>3, <3>6 DEF Review
      <3>8. \A o \in parties : \A j \in Ident : owner[j] \in {o, Orphan} => owner'[j] = owner[j]
        BY <1>3, <3>2, <3>4
      <3>9. owner'[i] = p
        BY <1>3, <3>2, <3>4
      <3>10. edits = 0 => OnFile(ctx[r])'
        <4>1. p = ctx[r].contact
          BY DEF p
        <4> SUFFICES ASSUME edits = 0 PROVE OnFile(ctx[r])'
          OBVIOUS
        <4>2. ctx'[r].contact = p /\ ctx'[r].known = ctx[r].known \cup {i} /\ p \in parties'
          BY <3>2, <3>3, <3>6
        <4>3. p # Nobody
          BY <1>3, <3>2
        <4>4. ASSUME NEW j \in ctx[r].known PROVE owner'[j] \in {p, Orphan}
          BY <3>2, <3>4, <3>5, <3>8, <4>1 DEF OnFile
        <4> QED
          BY <3>9, <4>2, <4>3, <4>4 DEF OnFile
      <3> QED
        BY <1>1, <1>2, <3>2, <3>6, <3>7, <3>8, <3>10, ReviewWrite
    <2>3. CASE ~CanAddIdentity(p, i)
      <3>1. Go(r, "handleError") /\ UNCHANGED <<parties, born, owner>>
        BY <1>9, <2>3 DEF SaveIdentity
      <3> QED
        BY <1>1, <3>1, ReviewGo DEF Review, Reviewing
    <2> QED
      BY <2>2, <2>3
  <1> QED
    BY <1>4, <1>7, <1>8, <1>9
\* A link starts a run, or resumes one with what was saved.
LEMMA LinkReview ==
    ASSUME ReviewInv, TypeInv', NEW r \in Run, OpenOffer(r) \/ OpenRedirect(r)
    PROVE  ReviewInv'
  <1> USE DEF contactVars, incidentVars
  <1>1. UNCHANGED <<parties, born, owner, edit, edits>>
    BY DEF OpenOffer, OpenRedirect
  <1>2. \A q \in Run : ctx[q] \in Context /\ rows[q].ctx \in Context /\ st \in [Run -> States]
    BY DEF ReviewInv, TypeInv, HolderInv, HolderTypes
  <1>3. \A f \in Run : rows'[f] = rows[f] \/ rows'[f] = NoRow
    BY DEF OpenOffer, OpenRedirect
  <1>4. /\ \A q \in Run \ {r} : UNCHANGED <<st[q], ctx[q]>>
        /\ \/ /\ st'[r] = "start" /\ ctx'[r].contact = Nobody /\ ctx'[r].known = {}
           \/ \E f \in Run : /\ ctx'[r].contact = rows[f].ctx.contact
                             /\ ctx'[r].known = rows[f].ctx.known
                             /\ ctx'[r].offer = rows[f].ctx.offer
                             /\ st'[r] \in {rows[f].st, "getCredentials"}
    <2>1. CASE OpenOffer(r)
      <3>1. PICK o \in Offer :
              /\ st' = [st EXCEPT ![r] = "start"]
              /\ ctx' = [ctx EXCEPT ![r] = [NoContext EXCEPT !.flow = r, !.offer = o]]
        BY <2>1 DEF OpenOffer
      <3> QED
        BY <3>1 DEF NoContext, ReviewInv, TypeInv, HolderInv, HolderTypes
    <2>2. CASE OpenRedirect(r)
      <3>1. PICK code \in browser, f \in Saved :
              LET row == rows[f]
                  waits == row.st = "waitForAuthorizationResponse" IN
              /\ st' = [st EXCEPT ![r] = IF waits THEN "getCredentials" ELSE row.st]
              /\ ctx' = [ctx EXCEPT ![r] = IF waits THEN [row.ctx EXCEPT !.code = code]
                                           ELSE row.ctx]
        BY <2>2 DEF OpenRedirect
      <3> DEFINE c == IF rows[f].st = "waitForAuthorizationResponse"
                      THEN [rows[f].ctx EXCEPT !.code = code] ELSE rows[f].ctx
      <3>2. f \in Run
        BY DEF Saved
      <3>3. /\ c.contact = rows[f].ctx.contact /\ c.known = rows[f].ctx.known
            /\ c.offer = rows[f].ctx.offer
        BY <1>2, <3>2 DEF Context
      <3>4. ctx' = [ctx EXCEPT ![r] = c]
        BY <3>1
      <3> HIDE DEF c
      <3>5. ctx'[r] = c /\ st'[r] \in {rows[f].st, "getCredentials"}
        BY <3>1, <3>4 DEF ReviewInv, TypeInv, HolderInv, HolderTypes
      <3>6. \A q \in Run \ {r} : UNCHANGED <<st[q], ctx[q]>>
        BY <3>1, <3>4 DEF ReviewInv, TypeInv, HolderInv, HolderTypes
      <3> QED
        BY <3>2, <3>3, <3>5, <3>6
    <2> QED
      BY <2>1, <2>2
  <1>5. \A q \in Run : Review(st[q], ctx[q])' /\ Review(rows[q].st, rows[q].ctx)'
    <2>1. \A q \in Run : Review(st[q], ctx[q])'
      BY <1>4 DEF ReviewInv, Review, Reviewing
    <2>2. \A q \in Run : Review(rows[q].st, rows[q].ctx)'
      BY <1>3 DEF ReviewInv, Review, Reviewing, NoRow
    <2> QED
      BY <2>1, <2>2
  <1>6. ASSUME edits = 0 PROVE Unedited'
    <2>1. \A q \in Run : OnFile(ctx[q]) /\ OnFile(rows[q].ctx)
      BY <1>6 DEF ReviewInv, Unedited
    <2>2. \A q \in Run : OnFile(ctx[q])'
      BY <1>1, <1>4, <2>1 DEF OnFile
    <2>3. \A q \in Run : OnFile(rows[q].ctx)'
      BY <1>1, <1>3, <2>1 DEF OnFile, NoRow, NoContext
    <2> QED
      BY <1>1, <1>6, <2>2, <2>3 DEF ReviewInv, Unedited
  <1> QED
    BY <1>1, <1>5, <1>6 DEF ReviewInv

\* A state is saved, the process dies, the user edits or deletes.
LEMMA OthersReview ==
    ASSUME ReviewInv, TypeInv', Editing \/ Crash \/ \E r \in Run : SaveState(r)
    PROVE  ReviewInv'
  <1> USE DEF contactVars, incidentVars, holderVars
  <1>1. ctx' = ctx
    BY DEF Editing, Edit, DeleteBranding, DeleteCredential, Crash, SaveState
  <1>2. CASE Edit
    <2>1. UNCHANGED <<st, ctx, rows>>
      BY <1>2 DEF Edit
    <2>2. edits' \in Nat /\ edits' # 0
      <3>1. CASE BeginAnEdit /\ edits' = edits + 1
        BY <3>1 DEF ReviewInv
      <3>2. CASE GoOnEditing /\ UNCHANGED edits
        <4>1. edit.op # "none"
          BY <3>2 DEF GoOnEditing, ReadEdited, WriteRenamed, RemoveIdentity, RemoveParty
        <4> QED
          BY <3>2, <4>1 DEF ReviewInv, Unedited
      <3> QED
        BY <1>2, <3>1, <3>2 DEF Edit
    <2> QED
      BY <2>1, <2>2 DEF ReviewInv, Review
  <1>3. CASE DeleteBranding \/ DeleteCredential
    <2>1. UNCHANGED <<st, ctx, rows, parties, born, owner, edit, edits>>
      BY <1>3 DEF DeleteBranding, DeleteCredential
    <2> QED
      BY <2>1 DEF ReviewInv, Review, Unedited, OnFile
  <1>4. CASE Crash
    <2>1. /\ \A q \in Run : st'[q] \in {"idle", "dead"}
          /\ edit'.op = "none" /\ UNCHANGED <<ctx, rows, parties, born, owner, edits>>
      BY <1>4 DEF Crash, NoEdit
    <2> QED
      BY <2>1 DEF ReviewInv, Review, Reviewing, Unedited, OnFile
  <1>5. ASSUME NEW r \in Run, SaveState(r) PROVE ReviewInv'
    <2> DEFINE row == IF st[r] \in Final THEN NoRow ELSE [st |-> st[r], ctx |-> ctx[r]]
    <2>1. /\ rows' = [rows EXCEPT ![ctx[r].flow] = row]
          /\ UNCHANGED <<st, ctx, parties, born, owner, edit, edits>>
      BY <1>5 DEF SaveState
    <2>2. Review(row.st, row.ctx) /\ (edits = 0 => OnFile(row.ctx))
      <3>1. Review(NoRow.st, NoRow.ctx) /\ OnFile(NoRow.ctx)
        BY DEF NoRow, NoContext, Review, Reviewing, OnFile
      <3>2. Review(st[r], ctx[r]) /\ (edits = 0 => OnFile(ctx[r]))
        BY DEF ReviewInv, Unedited
      <3> QED
        BY <3>1, <3>2
    <2> HIDE DEF row
    <2>3. \A f \in Run : rows'[f] = rows[f] \/ rows'[f] = row
      BY <2>1 DEF ReviewInv, TypeInv, HolderInv, HolderTypes
    <2>4. \A f \in Run : Review(rows[f].st, rows[f].ctx)'
      BY <2>2, <2>3 DEF ReviewInv, Review
    <2>5. edits = 0 => \A f \in Run : OnFile(rows[f].ctx)'
      BY <2>1, <2>2, <2>3 DEF ReviewInv, Unedited, OnFile
    <2>6. \A q \in Run : Review(st[q], ctx[q])'
      BY <2>1 DEF ReviewInv, Review
    <2>7. edits = 0 => \A q \in Run : OnFile(ctx[q])'
      BY <2>1 DEF ReviewInv, Unedited, OnFile
    <2> QED
      BY <2>1, <2>4, <2>5, <2>6, <2>7 DEF ReviewInv, Unedited
  <1> QED
    BY <1>2, <1>3, <1>4, <1>5 DEF Editing

LEMMA ReviewStep == ASSUME ReviewInv, [Next]_vars PROVE ReviewInv'
  <1>1. TypeInv'
    BY TypeStep DEF ReviewInv
  <1>2. CASE Crash \/ Editing \/ \E r \in Run : SaveState(r)
    BY <1>1, <1>2, OthersReview
  <1>3. ASSUME NEW r \in Run, User(r) PROVE ReviewInv'
    BY <1>1, <1>3, LinkReview, UserReview DEF User
  <1>4. ASSUME NEW r \in Run, Service(r) PROVE ReviewInv'
    <2>1. CASE GetContact(r) \/ CreateContact(r) \/ RenameContact(r) \/ SaveIdentity(r)
      BY <1>1, <2>1, ContactReview
    <2>2. CASE ~(GetContact(r) \/ CreateContact(r) \/ RenameContact(r) \/ SaveIdentity(r))
      BY <1>1, <1>4, <2>2, ServiceReview DEF Service
    <2> QED
      BY <2>1, <2>2
  <1>5. CASE UNCHANGED vars
    <2>1. UNCHANGED <<st, ctx, rows, parties, born, owner, edit, edits>>
      BY <1>5 DEF vars, holderVars, contactVars, incidentVars
    <2> QED
      BY <1>1, <2>1 DEF ReviewInv, Review, Unedited, OnFile
  <1> QED
    BY <1>2, <1>3, <1>4, <1>5 DEF Next

(* The user reviews credentials of an issuer by which the contact in the   *)
(* context is known, whatever was resumed, renamed or added in between;    *)
(* and the contact is on file and has the identity, as long as nobody      *)
(* edits contacts and no other flow wrote over it.                         *)
THEOREM ReviewersKnowTheIssuer == Spec => []ReviewKnowsIssuer
  <1>1. ReviewInv => ReviewKnowsIssuer
    <2> SUFFICES ASSUME ReviewInv, NEW r \in Run, st[r] = "reviewCredentials"
                 PROVE  /\ ctx[r].offer.issuer \in ctx[r].known
                        /\ \/ edits > 0
                           \/ /\ ctx[r].contact \in parties
                              /\ owner[ctx[r].offer.issuer] \in {ctx[r].contact, Orphan}
      BY DEF ReviewKnowsIssuer
    <2>1. ctx[r].offer.issuer \in ctx[r].known
      BY DEF ReviewInv, Review, Reviewing
    <2>2. edits = 0 => OnFile(ctx[r])
      BY DEF ReviewInv, Unedited
    <2>3. edits \in Nat
      BY DEF ReviewInv
    <2> QED
      BY <2>1, <2>2, <2>3 DEF OnFile
  <1>2. Spec => []ReviewInv
    BY ReviewInit, ReviewStep, PTL DEF Spec
  <1> QED
    BY <1>1, <1>2, PTL
=============================================================================
