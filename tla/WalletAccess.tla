---------------------------- MODULE WalletAccess ----------------------------
(***************************************************************************)
(* The way into the mobile wallet: the onboarding machine and the set-up   *)
(* it ends in, login by PIN, the lock that closes an idle wallet, deleting *)
(* the wallet, and the links that open the app or reach it while it runs.  *)
(*                                                                         *)
(* The app may be left and opened again in the same process (an Android    *)
(* activity that is destroyed): App's effect is undone and done again, the *)
(* redux store and the handlers, which are singletons, stay. Of all this   *)
(* only the users and the PIN outlive the process. What runs between two   *)
(* answers of the system (microtasks) is one step.                         *)
(***************************************************************************)
EXTENDS Naturals, SequencesExt

CONSTANTS Link,       \* links, each sent once
          ErrorLink,  \* those that bear an `error` parameter
          Pin,
          None,       \* no link, PIN or user
          MaxUsers,   \* bound on the set-ups
          Incidents   \* bound on leaving the app and ends of the process, together

ASSUME AccessAssumption ==
    /\ None \notin Link \cup Pin \cup Nat
    /\ ErrorLink \subseteq Link
    /\ {MaxUsers, Incidents} \subseteq Nat

VARIABLES
    app,        \* "off", "shown", or "left" with the process alive
    listener,   \* for links while the app runs: "none", "on" or "removed"
    link,       \* the link that the IntentHandler holds
    locked,     \* what the LockingHandler says
    active,     \* the store's active user
    loggedIn,   \* whether the store has a login time
    login,      \* the login action under way
    onboarding, \* the state of the onboarding machine, "none" without an instance
    form,       \* its context, and the PIN that was typed again
    setup,      \* what the set-up has done
    removing,   \* the user whose deletion from storage nobody waits for
    stored,     \* the users in storage, by number, which is their order in the map
    pin         \* and the PIN

linkVars == <<listener, link>>
storeVars == <<active, loggedIn>>
machineVars == <<onboarding, form, setup>>
storageVars == <<stored, pin>>

VARIABLES sent,       \* history: the links, in the order they were sent
          opened,     \* history: how often each was handed to the link handlers
          consents,   \* history: the PIN typed again for each set-up, and what was agreed
          incidents,  \* history: how often the app was left or its process ended
          hurt,       \* history: a set-up or a deletion was cut short
          byHand      \* history: logged out by hand, or the wallet deleted, and nobody in since

historyVars == <<sent, opened, consents, incidents, hurt, byHand>>
vars == <<app, linkVars, locked, storeVars, login, machineVars, removing, storageVars, historyVars>>

NoLogin == [step |-> "none", user |-> None]
Form == [policy : BOOLEAN, terms : BOOLEAN, data : BOOLEAN,
         pin : Pin \cup {None}, again : Pin \cup {None}]
NoForm == [policy |-> FALSE, terms |-> FALSE, data |-> FALSE, pin |-> None, again |-> None]
SetupStep == [pin : BOOLEAN, user : {"todo", "done", "failed"}]
NoSetup == [pin |-> FALSE, user |-> "todo"]

Init ==
    /\ app = "off" /\ listener = "none" /\ link = None
    /\ locked = TRUE /\ active = None /\ loggedIn = FALSE
    /\ login = NoLogin /\ onboarding = "none" /\ form = NoForm /\ setup = NoSetup
    /\ removing = None /\ stored = {} /\ pin = None
    /\ sent = <<>> /\ opened = [l \in Link |-> 0] /\ consents = <<>>
    /\ incidents = 0 /\ hurt = FALSE /\ byHand = FALSE

\* The users in the store, and what the app shows (walletAuthLockState).
Users == stored \ {removing}
Lacking == Users = {} \/ pin = None
Shown == app = "shown"
Onboards == onboarding # "none" \/ Lacking
Authenticated == ~Onboards /\ active # None /\ loggedIn
-----------------------------------------------------------------------------
(* The app opens. The link it was opened with is held, not opened; a       *)
(* listener that was removed counts as there. Bound: the users are read    *)
(* into the store before the app is shown, which nothing waits for.        *)
OpenApp ==
    /\ app \in {"off", "left"}
    /\ \/ UNCHANGED <<link, sent>>
       \/ \E l \in Link \ ToSet(sent) : link' = l /\ sent' = Append(sent, l)
    /\ app' = "shown"
    /\ listener' = IF listener = "none" THEN "on" ELSE listener
    /\ onboarding' = IF Onboards /\ onboarding = "none" THEN "showIntro" ELSE onboarding
    /\ UNCHANGED <<locked, storeVars, login, form, setup, removing, storageVars,
                   opened, consents, incidents, hurt, byHand>>

\* Bound: not in the middle of onboarding, a login or a deletion.
LeaveApp ==
    /\ Shown /\ incidents < Incidents
    /\ ~Onboards /\ login = NoLogin /\ removing = None
    /\ app' = "left"
    /\ link' = None /\ listener' = "removed"
    /\ incidents' = incidents + 1
    /\ UNCHANGED <<locked, storeVars, login, machineVars, removing, storageVars,
                   sent, opened, consents, hurt, byHand>>

EndProcess ==
    /\ app # "off" /\ incidents < Incidents
    /\ app' = "off" /\ listener' = "none" /\ link' = None
    /\ locked' = TRUE /\ active' = None /\ loggedIn' = FALSE
    /\ login' = NoLogin /\ onboarding' = "none" /\ form' = NoForm /\ setup' = NoSetup
    /\ removing' = None
    /\ incidents' = incidents + 1
    /\ hurt' = (hurt \/ onboarding = "setupWallet" \/ removing # None)
    /\ byHand' = FALSE
    /\ UNCHANGED <<storageVars, sent, opened, consents>>
-----------------------------------------------------------------------------
\* A slip in the next operator: the link that is handed on is held on to.
HandOnAndHold(l) ==
    /\ opened' = [opened EXCEPT ![l] = @ + 1]
    /\ link' = l

(* To the link handlers. A link with an error is taken out as well, and    *)
(* thrown at nobody: openDeepLink is not awaited.                          *)
HandOn(l) ==
    /\ opened' = IF l \in ErrorLink THEN opened ELSE [opened EXCEPT ![l] = @ + 1]
    /\ link' = None

ReceiveLink(l) ==
    /\ Shown /\ l \notin ToSet(sent)
    /\ sent' = Append(sent, l)
    /\ \/ listener = "removed" /\ UNCHANGED <<link, opened>>
       \/ listener = "on" /\ ~locked /\ HandOn(l)
       \/ listener = "on" /\ locked /\ link' = l /\ UNCHANGED opened
    /\ UNCHANGED <<app, listener, locked, storeVars, login, machineVars, removing, storageVars,
                   consents, incidents, hurt, byHand>>

(* The app changes its state (to the background, or back) after more than  *)
(* five minutes without navigation. Logging in does not restart the clock, *)
(* so this may be at any time.                                             *)
LockWhenIdle ==
    /\ Shown /\ ~locked
    /\ locked' = TRUE
    /\ active' = None /\ loggedIn' = FALSE
    /\ UNCHANGED <<app, linkVars, login, machineVars, removing, storageVars, historyVars>>

\* Bound: nobody logs out, or deletes the wallet, in the moment of a login.
Settled == Shown /\ Authenticated /\ login = NoLogin

Logout ==
    /\ Settled
    /\ active' = None /\ loggedIn' = FALSE
    /\ byHand' = TRUE
    /\ UNCHANGED <<app, linkVars, locked, login, machineVars, removing, storageVars,
                   sent, opened, consents, incidents, hurt>>

\* A slip in the next operator: onboarding is left to the next start.
DeleteUserOnly ==
    /\ Settled /\ removing = None
    /\ removing' = active /\ pin' = None
    /\ active' = None /\ loggedIn' = FALSE
    /\ byHand' = TRUE
    /\ UNCHANGED <<app, linkVars, locked, login, machineVars, stored,
                   sent, opened, consents, incidents, hurt>>

\* The wallet is deleted: the store and the PIN at once, the stored user later.
DeleteUser ==
    /\ Settled /\ removing = None
    /\ removing' = active /\ pin' = None
    /\ active' = None /\ loggedIn' = FALSE
    /\ onboarding' = "showIntro"
    /\ byHand' = TRUE
    /\ UNCHANGED <<app, linkVars, locked, login, form, setup, stored,
                   sent, opened, consents, incidents, hurt>>

RemoveUser ==
    /\ removing # None
    /\ stored' = stored \ {removing}
    /\ removing' = None
    /\ UNCHANGED <<app, linkVars, locked, storeVars, login, machineVars, pin, historyVars>>
-----------------------------------------------------------------------------
(* Login, of the first user by the PIN and of a new one by the set-up. The *)
(* set-up ends with its login, however that ended: the machine is stopped, *)
(* and the store is told of a success.                                     *)
FirstUser == CHOOSE u \in Users : \A v \in Users : u <= v

EnterPin ==
    /\ Shown /\ ~Onboards /\ ~Authenticated /\ login = NoLogin
    /\ login' = [step |-> "read", user |-> FirstUser]
    /\ UNCHANGED <<app, linkVars, locked, storeVars, machineVars, removing, storageVars, historyVars>>

SetActiveUser ==
    /\ login.step = "read"
    /\ active' = login.user
    /\ login' = [login EXCEPT !.step = "load"]
    /\ UNCHANGED <<app, linkVars, locked, loggedIn, machineVars, removing, storageVars, historyVars>>

EndSetup ==
    IF onboarding = "setupWallet"
    THEN onboarding' = "none" /\ form' = NoForm /\ setup' = NoSetup
    ELSE UNCHANGED machineVars

Unlock ==
    /\ login.step = "load"
    /\ locked' = FALSE /\ loggedIn' = TRUE
    /\ login' = NoLogin
    /\ IF link = None THEN UNCHANGED <<link, opened>> ELSE HandOn(link)
    /\ EndSetup
    /\ byHand' = (byHand /\ active = None)
    /\ UNCHANGED <<app, listener, active, removing, storageVars, sent, consents, incidents, hurt>>

LoginFails ==
    /\ login.step # "none"
    /\ active' = None /\ loggedIn' = (onboarding = "setupWallet")
    /\ login' = NoLogin
    /\ EndSetup
    /\ UNCHANGED <<app, linkVars, locked, removing, storageVars, historyVars>>
-----------------------------------------------------------------------------
\* Onboarding (onboardingMachine.tsx).
Elsewhere == <<app, linkVars, locked, storeVars, login, removing, storageVars>>

Move(from, to, f) ==
    /\ Shown /\ onboarding = from
    /\ onboarding' = to /\ form' = f
    /\ UNCHANGED <<Elsewhere, setup, historyVars>>

Accept ==
    \E accepted \in BOOLEAN :
        \/ Move("acceptAgreement", "acceptAgreement", [form EXCEPT !.policy = accepted])
        \/ Move("acceptAgreement", "acceptAgreement", [form EXCEPT !.terms = accepted])

\* A slip in the next operator: either will do.
AnyAgreement == form.policy \/ form.terms

ToSAgreement == form.policy /\ form.terms

\* The personal data come with the event that goes on, if they are complete.
SetPersonalData ==
    \E complete \in BOOLEAN :
        Move("enterPersonalDetails", IF complete THEN "enterPin" ELSE "enterPersonalDetails",
             [form EXCEPT !.data = complete])

SetPin == \E p \in Pin : Move("enterPin", "verifyPin", [form EXCEPT !.pin = p])

VerifyPin ==
    \E p \in Pin : p = form.pin /\ Move("verifyPin", "verifyPersonalDetails", [form EXCEPT !.again = p])

NextScreen ==
    \/ Move("showIntro", "acceptAgreement", form)
    \/ ToSAgreement /\ Move("acceptAgreement", "enterPersonalDetails", form)

Previous ==
    \/ Move("acceptAgreement", "showIntro", form)
    \/ Move("enterPersonalDetails", "acceptAgreement", form)
    \/ Move("enterPin", "enterPersonalDetails", form)
    \/ Move("verifyPin", "enterPin", form)
    \/ Move("verifyPersonalDetails", "enterPin", form)

Decline == Move("acceptAgreement", "showIntro", NoForm)

(* The set-up. The PIN and the user are stored side by side; when both are *)
(* there the user is logged in. Nobody handles a failure.                  *)
SetupWallet ==
    /\ Shown /\ onboarding = "verifyPersonalDetails" /\ Len(consents) < MaxUsers
    /\ onboarding' = "setupWallet"
    /\ consents' = Append(consents, [pin |-> form.again,
                        agreed |-> form.policy /\ form.terms /\ form.data
                                              /\ form.pin = form.again])
    /\ UNCHANGED <<Elsewhere, form, setup, sent, opened, incidents, hurt, byHand>>

NewUser == Len(consents)

PersistPin ==
    /\ onboarding = "setupWallet" /\ ~setup.pin
    /\ pin' = form.pin
    /\ setup' = [setup EXCEPT !.pin = TRUE]
    /\ UNCHANGED <<app, linkVars, locked, storeVars, login, onboarding, form, removing, stored,
                   historyVars>>

CreateUser ==
    /\ onboarding = "setupWallet" /\ setup.user = "todo"
    /\ stored' = stored \cup {NewUser}
    /\ setup' = [setup EXCEPT !.user = "done"]
    /\ UNCHANGED <<app, linkVars, locked, storeVars, login, onboarding, form, removing, pin,
                   historyVars>>

CreateUserFails ==
    /\ onboarding = "setupWallet" /\ setup.user = "todo"
    /\ setup' = [setup EXCEPT !.user = "failed"]
    /\ UNCHANGED <<Elsewhere, onboarding, form, historyVars>>

LoginNewUser ==
    /\ setup = [pin |-> TRUE, user |-> "done"] /\ login = NoLogin
    /\ login' = [step |-> "read", user |-> NewUser]
    /\ UNCHANGED <<app, linkVars, locked, storeVars, machineVars, removing, storageVars, historyVars>>
-----------------------------------------------------------------------------
User ==
    \/ OpenApp \/ LeaveApp \/ Logout \/ DeleteUser \/ EnterPin
    \/ NextScreen \/ Accept \/ SetPersonalData \/ SetPin \/ VerifyPin \/ Previous \/ Decline
    \/ SetupWallet

Service ==
    \/ RemoveUser \/ SetActiveUser \/ Unlock \/ LoginFails
    \/ PersistPin \/ CreateUser \/ CreateUserFails \/ LoginNewUser

Next == User \/ Service \/ EndProcess \/ LockWhenIdle \/ \E l \in Link : ReceiveLink(l)

Spec == Init /\ [][Next]_vars
-----------------------------------------------------------------------------
OnboardingState == {"none", "showIntro", "acceptAgreement", "enterPersonalDetails", "enterPin",
                    "verifyPin", "verifyPersonalDetails", "setupWallet"}

(* The variables keep their types, and go together: an app that is shown   *)
(* and has no users or no PIN is being onboarded, and a login has the user *)
(* it is for, until it is logged out.                                      *)
TypeOK ==
    /\ app \in {"off", "shown", "left"}
    /\ listener \in {"none", "on", "removed"} /\ link \in Link \cup {None}
    /\ locked \in BOOLEAN /\ loggedIn \in BOOLEAN
    /\ active \in {None} \cup stored
    /\ login.step \in {"none", "read", "load"} /\ login.user \in {None} \cup Users
    /\ onboarding \in OnboardingState
    /\ form \in Form /\ setup \in SetupStep
    /\ onboarding # "setupWallet" => setup = NoSetup
    /\ removing \in {None} \cup stored
    /\ stored \subseteq 1 .. Len(consents) /\ pin \in Pin \cup {None}
    /\ Shown /\ Lacking => onboarding # "none"
    /\ login.step = "load" => active = login.user \/ byHand

(* Whoever is shown the wallet has unlocked it, or is about to, and is a   *)
(* user in storage who agreed to terms and policy and typed the PIN twice. *)
(* It is the user of the last set-up and that PIN, though logging in takes *)
(* the first user of the map: unless a set-up or a deletion was cut short. *)
WhoIsInBelongs ==
    Authenticated =>
        /\ ~locked \/ login.step = "load"
        /\ active \in stored
        /\ consents[active].agreed
        /\ hurt \/ (active = Len(consents) /\ pin = consents[active].pin)

(* A link is handed on once, and one with an error never. Any other that   *)
(* was not is held, but if a later one came, or the app was left or ended. *)
(* Links are held only while the wallet is locked, or if the app was left  *)
(* and opened again in one process, whose listener is gone. And an         *)
(* unlocked wallet is one that somebody is in, or was until they logged    *)
(* out by hand, which does not lock it.                                    *)
LinksWait ==
    /\ \A l \in ToSet(sent) :
          /\ opened[l] <= (IF l \in ErrorLink THEN 0 ELSE 1)
          /\ opened[l] = 1 \/ link = l \/ l # Last(sent) \/ incidents > 0 \/ l \in ErrorLink
    /\ link # None /\ Shown /\ ~locked => listener = "removed"
    /\ ~locked => active # None \/ byHand
=============================================================================
