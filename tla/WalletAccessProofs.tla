------------------------- MODULE WalletAccessProofs -------------------------
(***************************************************************************)
(* Theorems about WalletAccess, for any links, PINs, set-ups and number of *)
(* incidents. The invariant says what the app has done whenever it is in a *)
(* state of the onboarding machine or in the middle of a login, what it    *)
(* leaves behind when it is left or ends, and what keeps a link.           *)
(***************************************************************************)
EXTENDS WalletAccess, SequenceTheorems, WellFoundedInduction, TLAPS

USE AccessAssumption DEF Shown

\* What TypeOK says, in parts that few actions disturb, and the types of the histories.
Typed ==
    /\ app \in {"off", "shown", "left"}
    /\ listener \in {"none", "on", "removed"} /\ link \in Link \cup {None}
    /\ locked \in BOOLEAN /\ loggedIn \in BOOLEAN /\ pin \in Pin \cup {None}
    /\ onboarding \in OnboardingState
    /\ incidents \in Nat /\ hurt \in BOOLEAN /\ byHand \in BOOLEAN

Formed ==
    /\ form \in Form /\ setup \in SetupStep
    /\ onboarding # "setupWallet" => setup = NoSetup

Recorded ==
    /\ sent \in Seq(Link) /\ opened \in [Link -> Nat]
    /\ consents \in Seq([pin : Pin, agreed : BOOLEAN])

\* A user who is active, or logs in, is in storage and is not being removed.
Peopled ==
    /\ stored \subseteq 1 .. NewUser
    /\ removing \in {None} \cup stored
    /\ active \in {None} \cup Users
    /\ login \in [step : {"none", "read", "load"}, user : {None} \cup Users]
    /\ login.step = "none" <=> login.user = None
    /\ login.step = "load" => active = login.user \/ byHand

Onboarded == Shown /\ Lacking => onboarding # "none"

TypeInv == Typed /\ Formed /\ Recorded /\ Peopled /\ Onboarded

\* An app that is not shown is in the middle of nothing.
Away ==
    /\ app = "off" => locked /\ onboarding = "none" /\ link = None /\ listener = "none"
    /\ app = "left" => ~Onboards /\ listener = "removed"
    /\ ~Shown => login = NoLogin /\ removing = None
    /\ Shown => listener # "none"

AfterAgreement == {"enterPersonalDetails", "enterPin", "verifyPin", "verifyPersonalDetails",
                   "setupWallet"}

\* What was filled in on the way to each screen.
Filled ==
    /\ onboarding \in AfterAgreement => form.policy /\ form.terms
    /\ onboarding \in AfterAgreement \ {"enterPersonalDetails"} => form.data
    /\ onboarding \in {"verifyPin", "verifyPersonalDetails", "setupWallet"} => form.pin \in Pin
    /\ onboarding \in {"verifyPersonalDetails", "setupWallet"} => form.again = form.pin
    /\ \A i \in DOMAIN consents : consents[i].agreed

\* What a set-up has stored so far; the only login while the machine runs is its last step.
SetUp ==
    /\ onboarding = "setupWallet" =>
          /\ NewUser # 0 /\ consents[NewUser].pin = form.pin
          /\ removing # NewUser
          /\ setup.pin => pin = form.pin
          /\ setup.user = "done" => NewUser \in stored
    /\ login.step # "none" /\ onboarding # "none" =>
          onboarding = "setupWallet" /\ setup.pin /\ setup.user = "done"

\* Unless something was cut short: one user, with the PIN of the last set-up.
Whole ==
    ~hurt =>
        /\ Users \subseteq {NewUser}
        /\ onboarding \notin {"none", "setupWallet"} => Users = {}
        /\ onboarding = "setupWallet" /\ setup.user # "done" => Users = {}
        /\ onboarding = "none" /\ Users # {} => pin = consents[NewUser].pin

\* An open wallet without anybody in was left by hand.
Entered ==
    /\ ~locked => active # None \/ byHand
    /\ ~locked /\ (login.step # "none" \/ onboarding # "none") => byHand
    /\ active # None /\ login.step = "none" => loggedIn
    /\ active # None /\ loggedIn => ~locked \/ login.step = "load"

\* A link that is held was sent and not handed on.
Held ==
    /\ listener = "removed" => incidents > 0
    /\ \A l \in Link : l \notin ToSet(sent) => opened[l] = 0
    /\ link # None => link \in ToSet(sent) /\ opened[link] = 0

\* What LinksWait says of links, in the words of the other parts.
HandedOnce ==
    /\ \A l \in ToSet(sent) :
          /\ opened[l] <= 1 /\ (l \in ErrorLink => opened[l] = 0)
          /\ opened[l] = 1 \/ link = l \/ l # Last(sent) \/ incidents > 0 \/ l \in ErrorLink
    /\ link # None /\ ~locked => listener = "removed"

IInv == TypeInv /\ Away /\ Filled /\ SetUp /\ Whole /\ Entered /\ Held /\ HandedOnce
-----------------------------------------------------------------------------
\* The first user of the map is one of them.
LEMMA FirstUserIsOne ==
    ASSUME Users # {}, Users \subseteq Nat
    PROVE  FirstUser \in Users
  <1>1. PICK u \in Users : \A v \in Users : ~(<<v, u>> \in OpToRel(<, Nat))
    BY NatLessThanWellFounded, WFMin
  <1>2. \A v \in Users : u <= v
    <2> TAKE v \in Users
    <2>1. u \in Nat /\ v \in Nat /\ ~(v < u)
      BY <1>1 DEF OpToRel
    <2> QED
      BY <2>1
  <1> QED
    BY <1>2 DEF FirstUser

\* An empty form is a form, and its fields are empty.
LEMMA Nothing == NoForm \in Form /\ NoSetup \in SetupStep /\ ~NoSetup.pin /\ NoSetup.user = "todo"
  BY DEF NoForm, Form, NoSetup, SetupStep

\* The types hold at the start, of an app that was never opened.
LEMMA TypeInit == Init => TypeInv
  <1> SUFFICES ASSUME Init PROVE TypeInv
    OBVIOUS
  <1>1. Typed /\ Formed
    BY Nothing DEF Init, Typed, Formed, OnboardingState
  <1>2. Recorded
    BY DEF Init, Recorded
  <1>3. Peopled /\ Onboarded
    BY DEF Init, Peopled, Onboarded, Users, NoLogin
  <1> QED
    BY <1>1, <1>2, <1>3 DEF TypeInv

\* The parts say no less than TypeOK.
LEMMA TypesHold == TypeInv => TypeOK
  BY DEF TypeInv, Typed, Formed, Recorded, Peopled, Onboarded, TypeOK, NewUser, Users

\* What stays of the onboarding machine when a login ends.
LEMMA EndSetupEnds ==
    EndSetup =>
        \/ /\ onboarding = "setupWallet" /\ onboarding' = "none"
           /\ form' = NoForm /\ setup' = NoSetup
        \/ /\ onboarding # "setupWallet" /\ onboarding' = onboarding
           /\ form' = form /\ setup' = setup
  <1> SUFFICES ASSUME EndSetup
               PROVE  \/ /\ onboarding = "setupWallet" /\ onboarding' = "none"
                         /\ form' = NoForm /\ setup' = NoSetup
                      \/ /\ onboarding # "setupWallet" /\ onboarding' = onboarding
                         /\ form' = form /\ setup' = setup
    OBVIOUS
  <1>1. CASE onboarding = "setupWallet"
    BY <1>1 DEF EndSetup
  <1>2. CASE onboarding # "setupWallet"
    <2>1. UNCHANGED machineVars
      BY <1>2 DEF EndSetup
    <2> QED
      BY <1>2, <2>1 DEF machineVars
  <1> QED
    BY <1>1, <1>2

\* A link that is sent is among the links sent, and the last of them.
LEMMA Sent ==
    ASSUME sent \in Seq(Link), NEW l \in Link
    PROVE  ToSet(Append(sent, l)) = ToSet(sent) \cup {l} /\ Last(Append(sent, l)) = l
  BY AppendProperties DEF ToSet, Last

\* Only links are sent.
LEMMA SentAreLinks == sent \in Seq(Link) => ToSet(sent) \subseteq Link
  BY DEF ToSet
-----------------------------------------------------------------------------
\* The variables keep their plain types.
LEMMA TypedStep == Typed /\ Formed /\ [Next]_vars => Typed'
  <1> SUFFICES ASSUME Typed, Formed, [Next]_vars PROVE Typed'
    OBVIOUS
  <1> USE DEF storeVars, linkVars, machineVars, storageVars, historyVars, Typed, Formed, Form,
              OnboardingState
  <1>1. ASSUME OpenApp PROVE Typed'
    BY <1>1 DEF OpenApp
  <1>2. ASSUME LeaveApp PROVE Typed'
    BY <1>2 DEF LeaveApp
  <1>3. ASSUME EndProcess PROVE Typed'
    <2>1. hurt' \in BOOLEAN
      BY <1>3 DEF EndProcess
    <2>2. incidents' \in Nat
      BY <1>3 DEF EndProcess
    <2> QED
      BY <1>3, <2>1, <2>2 DEF EndProcess
  <1>4. ASSUME Logout PROVE Typed'
    BY <1>4 DEF Logout, Settled
  <1>5. ASSUME DeleteUser PROVE Typed'
    BY <1>5 DEF DeleteUser, Settled, Authenticated, Onboards
  <1>6. ASSUME NextScreen PROVE Typed'
    BY <1>6 DEF NextScreen, Move, Elsewhere
  <1>7. ASSUME Accept PROVE Typed'
    BY <1>7 DEF Accept, Move, Elsewhere
  <1>8. ASSUME SetPersonalData PROVE Typed'
    BY <1>8 DEF SetPersonalData, Move, Elsewhere
  <1>9. ASSUME SetPin PROVE Typed'
    BY <1>9 DEF SetPin, Move, Elsewhere
  <1>10. ASSUME VerifyPin PROVE Typed'
    BY <1>10 DEF VerifyPin, Move, Elsewhere
  <1>11. ASSUME Previous PROVE Typed'
    BY <1>11 DEF Previous, Move, Elsewhere
  <1>12. ASSUME Decline PROVE Typed'
    BY <1>12 DEF Decline, Move, Elsewhere
  <1>13. ASSUME SetupWallet PROVE Typed'
    BY <1>13 DEF SetupWallet, Elsewhere
  <1>14. ASSUME Unlock PROVE Typed'
    <2>1. EndSetup
      BY <1>14 DEF Unlock
    <2> QED
      BY <1>14, <2>1, EndSetupEnds, Nothing DEF Unlock, HandOn
  <1>15. ASSUME LoginFails PROVE Typed'
    <2>1. EndSetup
      BY <1>15 DEF LoginFails
    <2> QED
      BY <1>15, <2>1, EndSetupEnds, Nothing DEF LoginFails
  <1>16. ASSUME PersistPin PROVE Typed'
    BY <1>16 DEF PersistPin
  <1>17. ASSUME LockWhenIdle PROVE Typed'
    BY <1>17 DEF LockWhenIdle
  <1>18. ASSUME NEW l \in Link, ReceiveLink(l) PROVE Typed'
    BY <1>18 DEF ReceiveLink, HandOn
  <1>19. CASE EnterPin \/ LoginNewUser \/ RemoveUser
    BY <1>19 DEF EnterPin, LoginNewUser, RemoveUser
  <1>20. CASE CreateUser \/ CreateUserFails \/ SetActiveUser
    BY <1>20 DEF CreateUser, CreateUserFails, Elsewhere, SetActiveUser
  <1>21. CASE UNCHANGED vars
    BY <1>21 DEF vars
  <1> QED
    BY <1>1, <1>2, <1>3, <1>4, <1>5, <1>6, <1>7, <1>8, <1>9, <1>10, <1>11, <1>12, <1>13, <1>14,
       <1>15, <1>16, <1>17, <1>18, <1>19, <1>20, <1>21 DEF Next, User, Service

\* The context of the machine keeps its type, and is left when the set-up ends.
LEMMA FormedStep == Typed /\ Formed /\ [Next]_vars => Formed'
  <1> SUFFICES ASSUME Typed, Formed, [Next]_vars PROVE Formed'
    OBVIOUS
  <1> USE DEF storeVars, linkVars, machineVars, storageVars, historyVars, Typed, Formed, Form,
              SetupStep
  <1>1. ASSUME EndProcess PROVE Formed'
    BY <1>1, Nothing DEF EndProcess
  <1>2. ASSUME DeleteUser PROVE Formed'
    BY <1>2 DEF DeleteUser, Settled, Authenticated, Onboards
  <1>3. ASSUME NextScreen PROVE Formed'
    BY <1>3 DEF NextScreen, Move, Elsewhere
  <1>4. ASSUME Accept PROVE Formed'
    BY <1>4 DEF Accept, Move, Elsewhere
  <1>5. ASSUME SetPersonalData PROVE Formed'
    BY <1>5 DEF SetPersonalData, Move, Elsewhere
  <1>6. ASSUME SetPin PROVE Formed'
    BY <1>6 DEF SetPin, Move, Elsewhere
  <1>7. ASSUME VerifyPin PROVE Formed'
    BY <1>7 DEF VerifyPin, Move, Elsewhere
  <1>8. ASSUME Previous PROVE Formed'
    BY <1>8 DEF Previous, Move, Elsewhere
  <1>9. ASSUME Decline PROVE Formed'
    BY <1>9, Nothing DEF Decline, Move, Elsewhere
  <1>10. ASSUME SetupWallet PROVE Formed'
    BY <1>10 DEF SetupWallet, Elsewhere
  <1>11. ASSUME Unlock PROVE Formed'
    <2>1. EndSetup
      BY <1>11 DEF Unlock
    <2> QED
      BY <1>11, <2>1, EndSetupEnds, Nothing DEF Unlock
  <1>12. ASSUME LoginFails PROVE Formed'
    <2>1. EndSetup
      BY <1>12 DEF LoginFails
    <2> QED
      BY <1>12, <2>1, EndSetupEnds, Nothing DEF LoginFails
  <1>13. ASSUME PersistPin PROVE Formed'
    BY <1>13 DEF PersistPin
  <1>14. ASSUME CreateUser PROVE Formed'
    BY <1>14 DEF CreateUser
  <1>15. ASSUME CreateUserFails PROVE Formed'
    BY <1>15 DEF CreateUserFails, Elsewhere
  <1>16. ASSUME NEW l \in Link, ReceiveLink(l) PROVE Formed'
    BY <1>16 DEF ReceiveLink, HandOn
  <1>17. CASE OpenApp \/ LeaveApp \/ Logout \/ EnterPin \/ SetActiveUser \/ LoginNewUser \/
              LockWhenIdle \/ RemoveUser
    BY <1>17 DEF OpenApp, LeaveApp, Logout, Settled, EnterPin, SetActiveUser, LoginNewUser,
                 LockWhenIdle, RemoveUser
  <1>18. CASE UNCHANGED vars
    BY <1>18 DEF vars
  <1> QED
    BY <1>1, <1>2, <1>3, <1>4, <1>5, <1>6, <1>7, <1>8, <1>9, <1>10, <1>11, <1>12, <1>13, <1>14,
       <1>15, <1>16, <1>17, <1>18 DEF Next, User, Service

\* The histories keep their types: a set-up starts with a PIN that was typed.
LEMMA RecordedStep == Typed /\ Formed /\ Filled /\ Recorded /\ [Next]_vars => Recorded'
  <1> SUFFICES ASSUME Typed, Formed, Filled, Recorded, [Next]_vars PROVE Recorded'
    OBVIOUS
  <1> USE DEF storeVars, linkVars, machineVars, storageVars, historyVars, Typed, Formed, Form,
              Recorded, Filled, AfterAgreement
  <1>1. ASSUME OpenApp PROVE Recorded'
    <2>1. CASE UNCHANGED <<link, sent>>
      BY <1>1, <2>1 DEF OpenApp
    <2>2. CASE \E l \in Link : link' = l /\ sent' = Append(sent, l)
      BY <1>1, <2>2 DEF OpenApp
    <2> QED
      BY <1>1, <2>1, <2>2 DEF OpenApp
  <1>2. ASSUME SetupWallet PROVE Recorded'
    BY <1>2 DEF SetupWallet, Elsewhere
  <1>3. ASSUME Unlock PROVE Recorded'
    BY <1>3 DEF Unlock, HandOn
  <1>4. ASSUME NEW l \in Link, ReceiveLink(l) PROVE Recorded'
    BY <1>4 DEF ReceiveLink, HandOn
  <1>5. CASE LeaveApp \/ EndProcess \/ Logout \/ DeleteUser \/ EnterPin \/ NextScreen \/ Accept
             \/ SetPersonalData \/ SetPin \/ VerifyPin \/ Previous \/ Decline \/ RemoveUser \/
             SetActiveUser \/ LoginFails \/ PersistPin \/ CreateUser \/ CreateUserFails \/
             LoginNewUser \/ LockWhenIdle
    BY <1>5 DEF LeaveApp, EndProcess, Logout, Settled, DeleteUser, Authenticated, Onboards,
                EnterPin, NextScreen, Move, Elsewhere, Accept, SetPersonalData, SetPin,
                VerifyPin, Previous, Decline, RemoveUser, SetActiveUser, LoginFails, PersistPin,
                CreateUser, CreateUserFails, LoginNewUser, LockWhenIdle
  <1>6. CASE UNCHANGED vars
    BY <1>6 DEF vars
  <1> QED
    BY <1>1, <1>2, <1>3, <1>4, <1>5, <1>6 DEF Next, User, Service

\* Nobody who is in, or on the way in, leaves storage: removal takes whom it has marked.
LEMMA PeopledStep == TypeInv /\ SetUp /\ Entered /\ [Next]_vars => Peopled'
  <1> SUFFICES ASSUME TypeInv, SetUp, Entered, [Next]_vars PROVE Peopled'
    OBVIOUS
  <1> USE DEF storeVars, linkVars, machineVars, storageVars, historyVars, TypeInv, Typed,
              Recorded, Peopled, SetUp, Entered, NewUser, Users, NoLogin
  <1>1. ASSUME EndProcess PROVE Peopled'
    BY <1>1 DEF EndProcess
  <1>2. ASSUME Logout PROVE Peopled'
    BY <1>2 DEF Logout, Settled
  <1>3. ASSUME DeleteUser PROVE Peopled'
    BY <1>3 DEF DeleteUser, Settled, Authenticated, Onboards
  <1>4. ASSUME EnterPin PROVE Peopled'
    <2>1. Users # {}
      BY <1>4 DEF EnterPin, Onboards, Lacking
    <2>2. Len(consents) \in Nat
      OBVIOUS
    <2>3. 1 .. Len(consents) \subseteq Nat
      BY <2>2
    <2>4. Users \subseteq Nat
      BY <2>3
    <2>5. FirstUser \in Users
      BY <2>1, <2>4, FirstUserIsOne
    <2> QED
      BY <1>4, <2>5 DEF EnterPin
  <1>5. ASSUME SetupWallet PROVE Peopled'
    BY <1>5 DEF SetupWallet, Elsewhere
  <1>6. ASSUME RemoveUser PROVE Peopled'
    BY <1>6 DEF RemoveUser
  <1>7. ASSUME SetActiveUser PROVE Peopled'
    BY <1>7 DEF SetActiveUser
  <1>8. ASSUME Unlock PROVE Peopled'
    BY <1>8 DEF Unlock, HandOn
  <1>9. ASSUME LoginFails PROVE Peopled'
    BY <1>9 DEF LoginFails
  <1>10. ASSUME CreateUser PROVE Peopled'
    BY <1>10 DEF CreateUser
  <1>11. ASSUME LoginNewUser PROVE Peopled'
    <2>1. setup.pin /\ setup.user = "done" /\ onboarding = "setupWallet"
      BY <1>11, Nothing DEF LoginNewUser, Formed
    <2> QED
      BY <1>11, <2>1 DEF LoginNewUser
  <1>12. ASSUME LockWhenIdle PROVE Peopled'
    BY <1>12 DEF LockWhenIdle
  <1>13. ASSUME NEW l \in Link, ReceiveLink(l) PROVE Peopled'
    BY <1>13 DEF ReceiveLink, HandOn
  <1>14. CASE NextScreen \/ Accept \/ SetPersonalData \/ SetPin \/ VerifyPin \/ Previous \/
              Decline \/ OpenApp \/ LeaveApp \/ PersistPin \/ CreateUserFails
    BY <1>14 DEF NextScreen, Move, Elsewhere, Accept, SetPersonalData, SetPin, VerifyPin,
                 Previous, Decline, OpenApp, LeaveApp, PersistPin, CreateUserFails
  <1>15. CASE UNCHANGED vars
    BY <1>15 DEF vars
  <1> QED
    BY <1>1, <1>2, <1>3, <1>4, <1>5, <1>6, <1>7, <1>8, <1>9, <1>10, <1>11, <1>12, <1>13, <1>14,
       <1>15 DEF Next, User, Service

\* No step shows an app without users or PIN and no onboarding (walletAuthLockState).
LEMMA OnboardedStep == TypeInv /\ Filled /\ SetUp /\ [Next]_vars => Onboarded'
  <1> SUFFICES ASSUME TypeInv, Filled, SetUp, [Next]_vars PROVE Onboarded'
    OBVIOUS
  <1> USE DEF storeVars, linkVars, machineVars, storageVars, historyVars, TypeInv, Typed,
              Peopled, Onboarded, Filled, SetUp, Lacking, Users, Onboards
  <1>1. ASSUME OpenApp PROVE Onboarded'
    BY <1>1 DEF OpenApp
  <1>2. ASSUME DeleteUser PROVE Onboarded'
    BY <1>2 DEF DeleteUser, Settled, Authenticated, Onboards
  <1>3. ASSUME Unlock PROVE Onboarded'
    <2>1. EndSetup
      BY <1>3 DEF Unlock
    <2> QED
      BY <1>3, <2>1, EndSetupEnds, Nothing DEF Unlock, HandOn
  <1>4. ASSUME LoginFails PROVE Onboarded'
    <2>1. EndSetup
      BY <1>4 DEF LoginFails
    <2> QED
      BY <1>4, <2>1, EndSetupEnds, Nothing DEF LoginFails
  <1>5. ASSUME PersistPin PROVE Onboarded'
    BY <1>5 DEF PersistPin
  <1>6. ASSUME CreateUser PROVE Onboarded'
    BY <1>6 DEF CreateUser
  <1>7. ASSUME NEW l \in Link, ReceiveLink(l) PROVE Onboarded'
    BY <1>7 DEF ReceiveLink, HandOn
  <1>8. CASE Logout \/ SetActiveUser \/ EnterPin \/ LoginNewUser \/ LockWhenIdle \/ RemoveUser
    BY <1>8 DEF Logout, Settled, SetActiveUser, EnterPin, LoginNewUser, LockWhenIdle, RemoveUser
  <1>9. CASE NextScreen \/ Accept \/ SetPersonalData \/ SetPin \/ VerifyPin \/ Previous \/
             Decline
    BY <1>9 DEF NextScreen, Move, Elsewhere, Accept, SetPersonalData, SetPin, VerifyPin,
                Previous, Decline
  <1>10. CASE CreateUserFails \/ SetupWallet \/ LeaveApp \/ EndProcess
    BY <1>10 DEF CreateUserFails, Elsewhere, SetupWallet, LeaveApp, EndProcess
  <1>11. CASE UNCHANGED vars
    BY <1>11 DEF vars
  <1> QED
    BY <1>1, <1>2, <1>3, <1>4, <1>5, <1>6, <1>7, <1>8, <1>9, <1>10, <1>11 DEF Next, User, Service
-----------------------------------------------------------------------------
\* Leaving the app, or its end, leaves nothing under way.
LEMMA AwayStep == TypeInv /\ Away /\ [Next]_vars => Away'
  <1> SUFFICES ASSUME TypeInv, Away, [Next]_vars PROVE Away'
    OBVIOUS
  <1> USE DEF storeVars, linkVars, machineVars, storageVars, historyVars, TypeInv, Typed,
              Peopled, Away, Lacking, Users, Onboards, NoLogin
  <1>1. ASSUME OpenApp PROVE Away'
    BY <1>1 DEF OpenApp
  <1>2. ASSUME LeaveApp PROVE Away'
    BY <1>2 DEF LeaveApp
  <1>3. ASSUME EndProcess PROVE Away'
    BY <1>3 DEF EndProcess
  <1>4. ASSUME DeleteUser PROVE Away'
    BY <1>4 DEF DeleteUser, Settled, Authenticated, Onboards
  <1>5. ASSUME RemoveUser PROVE Away'
    BY <1>5 DEF RemoveUser
  <1>6. ASSUME Unlock PROVE Away'
    <2>1. EndSetup
      BY <1>6 DEF Unlock
    <2> QED
      BY <1>6, <2>1, EndSetupEnds, Nothing DEF Unlock, HandOn
  <1>7. ASSUME LoginFails PROVE Away'
    <2>1. EndSetup
      BY <1>7 DEF LoginFails
    <2> QED
      BY <1>7, <2>1, EndSetupEnds, Nothing DEF LoginFails
  <1>8. ASSUME LoginNewUser PROVE Away'
    <2>1. setup.pin /\ setup.user = "done" /\ onboarding = "setupWallet"
      BY <1>8, Nothing DEF LoginNewUser, Formed
    <2> QED
      BY <1>8, <2>1 DEF LoginNewUser
  <1>9. ASSUME LockWhenIdle PROVE Away'
    BY <1>9 DEF LockWhenIdle
  <1>10. ASSUME NEW l \in Link, ReceiveLink(l) PROVE Away'
    BY <1>10 DEF ReceiveLink, HandOn
  <1>11. CASE Logout \/ EnterPin
    BY <1>11 DEF Logout, Settled, EnterPin
  <1>12. CASE SetActiveUser
    BY <1>12 DEF SetActiveUser
  <1>13. CASE NextScreen \/ Accept \/ SetPersonalData \/ SetPin \/ VerifyPin \/ Previous \/
              Decline
    BY <1>13 DEF NextScreen, Move, Elsewhere, Accept, SetPersonalData, SetPin, VerifyPin,
                 Previous, Decline
  <1>14. CASE PersistPin \/ CreateUser \/ CreateUserFails \/ SetupWallet
    BY <1>14 DEF PersistPin, CreateUser, CreateUserFails, Elsewhere, SetupWallet
  <1>15. CASE UNCHANGED vars
    BY <1>15 DEF vars
  <1> QED
    BY <1>1, <1>2, <1>3, <1>4, <1>5, <1>6, <1>7, <1>8, <1>9, <1>10, <1>11, <1>12, <1>13, <1>14,
       <1>15 DEF Next, User, Service

\* Every way to a screen fills in what the next one needs, and going back keeps it.
LEMMA FilledStep == TypeInv /\ Away /\ Filled /\ [Next]_vars => Filled'
  <1> SUFFICES ASSUME TypeInv, Away, Filled, [Next]_vars PROVE Filled'
    OBVIOUS
  <1> USE DEF storeVars, linkVars, machineVars, storageVars, historyVars, TypeInv, Typed,
              Formed, Recorded, Form, Filled, AfterAgreement, ToSAgreement
  <1>1. ASSUME OpenApp PROVE Filled'
    BY <1>1 DEF OpenApp
  <1>2. ASSUME DeleteUser PROVE Filled'
    BY <1>2 DEF DeleteUser, Settled, Authenticated, Onboards
  <1>3. ASSUME NextScreen PROVE Filled'
    BY <1>3 DEF NextScreen, Move, Elsewhere
  <1>4. ASSUME Accept PROVE Filled'
    BY <1>4 DEF Accept, Move, Elsewhere
  <1>5. ASSUME SetPersonalData PROVE Filled'
    BY <1>5 DEF SetPersonalData, Move, Elsewhere
  <1>6. ASSUME SetPin PROVE Filled'
    BY <1>6 DEF SetPin, Move, Elsewhere
  <1>7. ASSUME VerifyPin PROVE Filled'
    BY <1>7 DEF VerifyPin, Move, Elsewhere
  <1>8. ASSUME Previous PROVE Filled'
    BY <1>8 DEF Previous, Move, Elsewhere
  <1>9. ASSUME Decline PROVE Filled'
    BY <1>9 DEF Decline, Move, Elsewhere
  <1>10. ASSUME SetupWallet PROVE Filled'
    BY <1>10 DEF SetupWallet, Elsewhere
  <1>11. ASSUME Unlock PROVE Filled'
    <2>1. EndSetup
      BY <1>11 DEF Unlock
    <2> QED
      BY <1>11, <2>1, EndSetupEnds, Nothing DEF Unlock
  <1>12. ASSUME LoginFails PROVE Filled'
    <2>1. EndSetup
      BY <1>12 DEF LoginFails
    <2> QED
      BY <1>12, <2>1, EndSetupEnds, Nothing DEF LoginFails
  <1>13. ASSUME NEW l \in Link, ReceiveLink(l) PROVE Filled'
    BY <1>13 DEF ReceiveLink, HandOn
  <1>14. CASE Logout \/ SetActiveUser \/ EnterPin \/ LoginNewUser \/ LockWhenIdle \/ RemoveUser
    BY <1>14 DEF Logout, Settled, SetActiveUser, EnterPin, LoginNewUser, LockWhenIdle,
                 RemoveUser
  <1>15. CASE PersistPin \/ CreateUser \/ CreateUserFails \/ LeaveApp \/ EndProcess
    BY <1>15 DEF PersistPin, CreateUser, CreateUserFails, Elsewhere, LeaveApp, EndProcess
  <1>16. CASE UNCHANGED vars
    BY <1>16 DEF vars
  <1> QED
    BY <1>1, <1>2, <1>3, <1>4, <1>5, <1>6, <1>7, <1>8, <1>9, <1>10, <1>11, <1>12, <1>13, <1>14,
       <1>15, <1>16 DEF Next, User, Service

\* The set-up logs in the user it created, with the PIN it stored, and nobody else logs in.
LEMMA SetUpStep == TypeInv /\ Away /\ Filled /\ SetUp /\ [Next]_vars => SetUp'
  <1> SUFFICES ASSUME TypeInv, Away, Filled, SetUp, [Next]_vars PROVE SetUp'
    OBVIOUS
  <1> USE DEF storeVars, linkVars, machineVars, storageVars, historyVars, TypeInv, Typed,
              Formed, Recorded, Peopled, Filled, SetUp, NewUser, Away, NoLogin, Onboards, Users
  <1>1. ASSUME OpenApp PROVE SetUp'
    BY <1>1 DEF OpenApp
  <1>2. ASSUME EndProcess PROVE SetUp'
    BY <1>2 DEF EndProcess
  <1>3. ASSUME DeleteUser PROVE SetUp'
    BY <1>3 DEF DeleteUser, Settled, Authenticated, Onboards
  <1>4. ASSUME EnterPin PROVE SetUp'
    BY <1>4 DEF EnterPin
  <1>5. ASSUME SetupWallet PROVE SetUp'
    <2> DEFINE c == [pin |-> form.again,
                     agreed |-> form.policy /\ form.terms /\ form.data
                                  /\ form.pin = form.again]
    <2>1. c \in [pin : Pin, agreed : BOOLEAN] /\ c.pin = form.pin
          /\ consents' = Append(consents, c)
      BY <1>5 DEF SetupWallet
    <2> HIDE DEF c
    <2>2. Len(consents) \in Nat /\ Len(consents') = Len(consents) + 1
          /\ consents'[Len(consents) + 1] = c
      BY <2>1, AppendProperties
    <2>3. UNCHANGED <<setup, login, removing, stored>> /\ onboarding' = "setupWallet"
          /\ form' = form
      BY <1>5 DEF SetupWallet, Elsewhere
    <2>4. setup = NoSetup /\ login.step = "none"
      BY <1>5 DEF SetupWallet
    <2>5. removing # Len(consents) + 1
      BY <2>2
    <2> QED
      BY <2>1, <2>2, <2>3, <2>4, <2>5, Nothing
  <1>6. ASSUME RemoveUser PROVE SetUp'
    BY <1>6 DEF RemoveUser
  <1>7. ASSUME SetActiveUser PROVE SetUp'
    BY <1>7 DEF SetActiveUser
  <1>8. ASSUME Unlock PROVE SetUp'
    <2>1. EndSetup
      BY <1>8 DEF Unlock
    <2> QED
      BY <1>8, <2>1, EndSetupEnds, Nothing DEF Unlock
  <1>9. ASSUME LoginFails PROVE SetUp'
    <2>1. EndSetup
      BY <1>9 DEF LoginFails
    <2> QED
      BY <1>9, <2>1, EndSetupEnds, Nothing DEF LoginFails
  <1>10. ASSUME PersistPin PROVE SetUp'
    BY <1>10 DEF PersistPin
  <1>11. ASSUME CreateUser PROVE SetUp'
    BY <1>11 DEF CreateUser
  <1>12. ASSUME CreateUserFails PROVE SetUp'
    BY <1>12 DEF CreateUserFails, Elsewhere
  <1>13. ASSUME LoginNewUser PROVE SetUp'
    <2>1. setup.pin /\ setup.user = "done" /\ onboarding = "setupWallet"
      BY <1>13, Nothing DEF LoginNewUser, Formed
    <2> QED
      BY <1>13, <2>1 DEF LoginNewUser
  <1>14. ASSUME NEW l \in Link, ReceiveLink(l) PROVE SetUp'
    BY <1>14 DEF ReceiveLink, HandOn
  <1>15. CASE Logout \/ LockWhenIdle \/ LeaveApp
    BY <1>15 DEF Logout, Settled, LockWhenIdle, LeaveApp
  <1>16. CASE NextScreen \/ Accept \/ SetPersonalData \/ SetPin \/ VerifyPin \/ Previous \/
              Decline
    BY <1>16 DEF NextScreen, Move, Elsewhere, Accept, SetPersonalData, SetPin, VerifyPin,
                 Previous, Decline
  <1>17. CASE UNCHANGED vars
    BY <1>17 DEF vars
  <1> QED
    BY <1>1, <1>2, <1>3, <1>4, <1>5, <1>6, <1>7, <1>8, <1>9, <1>10, <1>11, <1>12, <1>13, <1>14,
       <1>15, <1>16, <1>17 DEF Next, User, Service

\* A set-up starts without users and leaves one, and a deletion none, if it ends.
LEMMA WholeStep == TypeInv /\ Away /\ Filled /\ SetUp /\ Whole /\ [Next]_vars => Whole'
  <1> SUFFICES ASSUME TypeInv, Away, Filled, SetUp, Whole, [Next]_vars PROVE Whole'
    OBVIOUS
  <1> USE DEF storeVars, linkVars, machineVars, storageVars, historyVars, TypeInv, Typed,
              Formed, Recorded, Peopled, Away, Filled, SetUp, Whole, NewUser, Users, NoLogin,
              Onboards, Lacking
  <1>1. ASSUME OpenApp PROVE Whole'
    <2>1. ASSUME ~hurt, onboarding = "none", Users # {}
          PROVE  pin \in Pin
      <3>1. Len(consents) \in 1 .. Len(consents)
        BY <2>1
      <3>2. consents[Len(consents)] \in [pin : Pin, agreed : BOOLEAN]
        BY <3>1, ElementOfSeq
      <3> QED
        BY <2>1, <3>2
    <2> QED
      BY <1>1, <2>1 DEF OpenApp
  <1>2. ASSUME EndProcess PROVE Whole'
    BY <1>2 DEF EndProcess
  <1>3. ASSUME DeleteUser PROVE Whole'
    <2>1. onboarding = "none" /\ removing = None /\ active \in Users
      BY <1>3 DEF DeleteUser, Settled, Authenticated
    <2>2. Users' = Users \ {active}
      BY <1>3, <2>1 DEF DeleteUser
    <2> QED
      BY <1>3, <2>1, <2>2 DEF DeleteUser
  <1>4. ASSUME NextScreen PROVE Whole'
    BY <1>4 DEF NextScreen, Move, Elsewhere
  <1>5. ASSUME Accept PROVE Whole'
    BY <1>5 DEF Accept, Move, Elsewhere
  <1>6. ASSUME SetPersonalData PROVE Whole'
    BY <1>6 DEF SetPersonalData, Move, Elsewhere
  <1>7. ASSUME SetPin PROVE Whole'
    BY <1>7 DEF SetPin, Move, Elsewhere
  <1>8. ASSUME VerifyPin PROVE Whole'
    BY <1>8 DEF VerifyPin, Move, Elsewhere
  <1>9. ASSUME Previous PROVE Whole'
    BY <1>9 DEF Previous, Move, Elsewhere
  <1>10. ASSUME Decline PROVE Whole'
    BY <1>10 DEF Decline, Move, Elsewhere
  <1>11. ASSUME SetupWallet PROVE Whole'
    BY <1>11 DEF SetupWallet, Elsewhere
  <1>12. ASSUME RemoveUser PROVE Whole'
    BY <1>12 DEF RemoveUser
  <1>13. ASSUME Unlock PROVE Whole'
    <2>1. EndSetup
      BY <1>13 DEF Unlock
    <2> QED
      BY <1>13, <2>1, EndSetupEnds, Nothing DEF Unlock
  <1>14. ASSUME LoginFails PROVE Whole'
    <2>1. EndSetup
      BY <1>14 DEF LoginFails
    <2> QED
      BY <1>14, <2>1, EndSetupEnds, Nothing DEF LoginFails
  <1>15. ASSUME PersistPin PROVE Whole'
    BY <1>15 DEF PersistPin
  <1>16. ASSUME CreateUser PROVE Whole'
    BY <1>16 DEF CreateUser
  <1>17. ASSUME CreateUserFails PROVE Whole'
    BY <1>17 DEF CreateUserFails, Elsewhere
  <1>18. ASSUME NEW l \in Link, ReceiveLink(l) PROVE Whole'
    BY <1>18 DEF ReceiveLink, HandOn
  <1>19. CASE Logout \/ SetActiveUser \/ EnterPin \/ LoginNewUser \/ LockWhenIdle
    BY <1>19 DEF Logout, Settled, SetActiveUser, EnterPin, LoginNewUser, LockWhenIdle
  <1>20. CASE LeaveApp
    BY <1>20 DEF LeaveApp
  <1>21. CASE UNCHANGED vars
    BY <1>21 DEF vars
  <1> QED
    BY <1>1, <1>2, <1>3, <1>4, <1>5, <1>6, <1>7, <1>8, <1>9, <1>10, <1>11, <1>12, <1>13, <1>14,
       <1>15, <1>16, <1>17, <1>18, <1>19, <1>20, <1>21 DEF Next, User, Service

\* Only a login unlocks; a lock that overtakes it leaves the store as the login finds it.
LEMMA EnteredStep == TypeInv /\ Away /\ SetUp /\ Entered /\ [Next]_vars => Entered'
  <1> SUFFICES ASSUME TypeInv, Away, SetUp, Entered, [Next]_vars PROVE Entered'
    OBVIOUS
  <1> USE DEF storeVars, linkVars, machineVars, storageVars, historyVars, TypeInv, Typed,
              Formed, Peopled, Away, SetUp, Entered, NoLogin, Onboards, Authenticated
  <1>1. ASSUME OpenApp PROVE Entered'
    BY <1>1 DEF OpenApp
  <1>2. ASSUME EndProcess PROVE Entered'
    BY <1>2 DEF EndProcess
  <1>3. ASSUME Logout PROVE Entered'
    BY <1>3 DEF Logout, Settled
  <1>4. ASSUME DeleteUser PROVE Entered'
    BY <1>4 DEF DeleteUser, Settled, Authenticated, Onboards
  <1>5. ASSUME EnterPin PROVE Entered'
    BY <1>5 DEF EnterPin
  <1>6. ASSUME SetActiveUser PROVE Entered'
    BY <1>6 DEF SetActiveUser
  <1>7. ASSUME Unlock PROVE Entered'
    <2>1. EndSetup
      BY <1>7 DEF Unlock
    <2> QED
      BY <1>7, <2>1, EndSetupEnds, Nothing DEF Unlock
  <1>8. ASSUME LoginFails PROVE Entered'
    <2>1. EndSetup
      BY <1>8 DEF LoginFails
    <2> QED
      BY <1>8, <2>1, EndSetupEnds, Nothing DEF LoginFails
  <1>9. ASSUME LoginNewUser PROVE Entered'
    <2>1. setup.pin /\ setup.user = "done" /\ onboarding = "setupWallet"
      BY <1>9, Nothing DEF LoginNewUser, Formed
    <2> QED
      BY <1>9, <2>1 DEF LoginNewUser
  <1>10. ASSUME LockWhenIdle PROVE Entered'
    BY <1>10 DEF LockWhenIdle
  <1>11. ASSUME NEW l \in Link, ReceiveLink(l) PROVE Entered'
    BY <1>11 DEF ReceiveLink, HandOn
  <1>12. CASE LeaveApp \/ RemoveUser \/ PersistPin \/ CreateUser \/ CreateUserFails \/
              SetupWallet
    BY <1>12 DEF LeaveApp, RemoveUser, PersistPin, CreateUser, CreateUserFails, Elsewhere,
                 SetupWallet
  <1>13. CASE NextScreen \/ Accept \/ SetPersonalData \/ SetPin \/ VerifyPin \/ Previous \/
              Decline
    BY <1>13 DEF NextScreen, Move, Elsewhere, Accept, SetPersonalData, SetPin, VerifyPin,
                 Previous, Decline
  <1>14. CASE UNCHANGED vars
    BY <1>14 DEF vars
  <1> QED
    BY <1>1, <1>2, <1>3, <1>4, <1>5, <1>6, <1>7, <1>8, <1>9, <1>10, <1>11, <1>12, <1>13, <1>14
    DEF Next, User, Service
-----------------------------------------------------------------------------
\* What is held was just sent, and is let go of when it is handed on (IntentHandler).
LEMMA HeldStep == TypeInv /\ Held /\ [Next]_vars => Held'
  <1> SUFFICES ASSUME TypeInv, Held, [Next]_vars PROVE Held'
    OBVIOUS
  <1> USE DEF storeVars, linkVars, machineVars, storageVars, historyVars, TypeInv, Typed,
              Recorded, Held
  <1>1. ASSUME OpenApp PROVE Held'
    <2>1. CASE UNCHANGED <<link, sent>>
      BY <1>1, <2>1 DEF OpenApp
    <2>2. CASE \E l \in Link \ ToSet(sent) : link' = l /\ sent' = Append(sent, l)
      <3>1. PICK l \in Link \ ToSet(sent) : link' = l /\ sent' = Append(sent, l)
        BY <2>2
      <3> QED
        BY <1>1, <3>1, Sent DEF OpenApp
    <2> QED
      BY <1>1, <2>1, <2>2 DEF OpenApp
  <1>2. ASSUME LeaveApp PROVE Held'
    BY <1>2 DEF LeaveApp
  <1>3. ASSUME EndProcess PROVE Held'
    BY <1>3 DEF EndProcess
  <1>4. ASSUME Unlock PROVE Held'
    BY <1>4 DEF Unlock, HandOn
  <1>5. ASSUME NEW l \in Link, ReceiveLink(l) PROVE Held'
    <2>1. sent' = Append(sent, l) /\ ToSet(sent') = ToSet(sent) \cup {l}
      BY <1>5, Sent DEF ReceiveLink
    <2> QED
      BY <1>5, <2>1 DEF ReceiveLink, HandOn
  <1>6. CASE Logout \/ DeleteUser \/ EnterPin \/ NextScreen \/ Accept \/ SetPersonalData \/
             SetPin \/ VerifyPin \/ Previous \/ Decline \/ SetupWallet \/ RemoveUser \/
             SetActiveUser \/ LoginFails \/ PersistPin \/ CreateUser \/ CreateUserFails \/
             LoginNewUser \/ LockWhenIdle
    BY <1>6 DEF Logout, Settled, DeleteUser, Authenticated, Onboards, EnterPin, NextScreen,
                Move, Elsewhere, Accept, SetPersonalData, SetPin, VerifyPin, Previous, Decline,
                SetupWallet, RemoveUser, SetActiveUser, LoginFails, PersistPin, CreateUser,
                CreateUserFails, LoginNewUser, LockWhenIdle
  <1>7. CASE UNCHANGED vars
    BY <1>7 DEF vars
  <1> QED
    BY <1>1, <1>2, <1>3, <1>4, <1>5, <1>6, <1>7 DEF Next, User, Service

(* A link is handed on by the login after it or on arrival, never by both, *)
(* and one with an error by neither.                                       *)
LEMMA HandedOnceStep == TypeInv /\ Away /\ Held /\ HandedOnce /\ [Next]_vars => HandedOnce'
  <1> SUFFICES ASSUME TypeInv, Away, Held, HandedOnce, [Next]_vars PROVE HandedOnce'
    OBVIOUS
  <1> USE DEF storeVars, linkVars, machineVars, storageVars, historyVars, TypeInv, Typed,
              Recorded, Away, Held, HandedOnce
  <1>1. ASSUME OpenApp PROVE HandedOnce'
    <2>1. CASE UNCHANGED <<link, sent>>
      BY <1>1, <2>1 DEF OpenApp
    <2>2. CASE \E l \in Link \ ToSet(sent) : link' = l /\ sent' = Append(sent, l)
      <3>1. PICK l \in Link \ ToSet(sent) : link' = l /\ sent' = Append(sent, l)
        BY <2>2
      <3> QED
        BY <1>1, <3>1, Sent DEF OpenApp
    <2> QED
      BY <1>1, <2>1, <2>2 DEF OpenApp
  <1>2. ASSUME LeaveApp PROVE HandedOnce'
    BY <1>2 DEF LeaveApp
  <1>3. ASSUME EndProcess PROVE HandedOnce'
    BY <1>3 DEF EndProcess
  <1>4. ASSUME Unlock PROVE HandedOnce'
    BY <1>4, SentAreLinks DEF Unlock, HandOn
  <1>5. ASSUME NEW l \in Link, ReceiveLink(l) PROVE HandedOnce'
    <2>1. ToSet(sent') = ToSet(sent) \cup {l} /\ Last(sent') = l /\ l \notin ToSet(sent)
      BY <1>5, Sent DEF ReceiveLink
    <2> QED
      BY <1>5, <2>1, SentAreLinks DEF ReceiveLink, HandOn
  <1>6. CASE Logout \/ DeleteUser \/ EnterPin \/ NextScreen \/ Accept \/ SetPersonalData \/
             SetPin \/ VerifyPin \/ Previous \/ Decline \/ SetupWallet \/ RemoveUser \/
             SetActiveUser \/ LoginFails \/ PersistPin \/ CreateUser \/ CreateUserFails \/
             LoginNewUser
    BY <1>6 DEF Logout, Settled, DeleteUser, Authenticated, Onboards, EnterPin, NextScreen,
                Move, Elsewhere, Accept, SetPersonalData, SetPin, VerifyPin, Previous, Decline,
                SetupWallet, RemoveUser, SetActiveUser, LoginFails, PersistPin, CreateUser,
                CreateUserFails, LoginNewUser
  <1>7. CASE LockWhenIdle
    BY <1>7 DEF LockWhenIdle
  <1>8. CASE UNCHANGED vars
    BY <1>8 DEF vars
  <1> QED
    BY <1>1, <1>2, <1>3, <1>4, <1>5, <1>6, <1>7, <1>8 DEF Next, User, Service
-----------------------------------------------------------------------------
\* The invariant holds of the app that was never opened.
LEMMA IInvInit == Init => IInv
  <1> SUFFICES ASSUME Init PROVE IInv
    OBVIOUS
  <1>1. TypeInv /\ Away
    BY TypeInit DEF Init, Away, Onboards, NoLogin
  <1>2. Filled /\ SetUp
    BY DEF Init, Filled, SetUp, AfterAgreement, NoLogin
  <1>3. Whole /\ Entered
    BY DEF Init, Whole, Entered, Users, NoLogin
  <1>4. ToSet(sent) = {}
    BY DEF Init, ToSet
  <1>5. Held /\ HandedOnce
    BY <1>4 DEF Init, Held, HandedOnce
  <1> QED
    BY <1>1, <1>2, <1>3, <1>5 DEF IInv

\* It is kept by every step, each part with the parts it leans on.
LEMMA IInvStep == IInv /\ [Next]_vars => IInv'
  <1> SUFFICES ASSUME IInv, [Next]_vars PROVE IInv'
    OBVIOUS
  <1> USE DEF IInv
  <1>1. TypeInv'
    BY TypedStep, FormedStep, RecordedStep, PeopledStep, OnboardedStep DEF TypeInv
  <1>2. Away' /\ Filled' /\ SetUp'
    BY AwayStep, FilledStep, SetUpStep
  <1>3. Whole' /\ Entered'
    BY WholeStep, EnteredStep
  <1>4. Held' /\ HandedOnce'
    BY HeldStep, HandedOnceStep
  <1> QED
    BY <1>1, <1>2, <1>3, <1>4

(* Whatever the user, the system and the services do, in any order, and    *)
(* wherever the app is left or its process ends, the invariant holds.      *)
THEOREM InductiveInvariant == Spec => []IInv
  BY IInvInit, IInvStep, PTL DEF Spec

(* The variables of the wallet keep their types and go together: an app    *)
(* that is shown without users or PIN has its onboarding machine, and a    *)
(* login has set its user active (onboardingMachine.tsx, user.actions.ts). *)
THEOREM TypeCorrect == Spec => []TypeOK
  <1>1. IInv => TypeOK
    BY TypesHold DEF IInv
  <1> QED
    BY <1>1, InductiveInvariant, PTL

(* Whoever is shown the wallet has unlocked it or is about to, agreed to   *)
(* terms and policy, typed the PIN twice, and is the user of the last      *)
(* set-up unless one was cut short (authenticationService.ts,              *)
(* onboardingMachineService.ts): for any number of set-ups and incidents.  *)
THEOREM WhoIsInAlways == Spec => []WhoIsInBelongs
  <1>1. IInv => WhoIsInBelongs
    <2> SUFFICES ASSUME IInv, Authenticated PROVE WhoIsInBelongs
      BY DEF WhoIsInBelongs
    <2>1. onboarding = "none" /\ active # None /\ loggedIn
      BY DEF Authenticated, Onboards
    <2>2. active \in Users /\ Users \subseteq 1 .. NewUser
      BY <2>1 DEF IInv, TypeInv, Peopled, Users
    <2>3. ~locked \/ login.step = "load"
      BY <2>1 DEF IInv, Entered
    <2>4. consents[active].agreed
      BY <2>2 DEF IInv, TypeInv, Recorded, Filled, NewUser
    <2>5. hurt \/ (active = Len(consents) /\ pin = consents[active].pin)
      BY <2>1, <2>2 DEF IInv, Whole, NewUser
    <2> QED
      BY <2>2, <2>3, <2>4, <2>5 DEF WhoIsInBelongs, Users
  <1> QED
    BY <1>1, InductiveInvariant, PTL

(* A link is handed on once, and one that was not waits in the             *)
(* IntentHandler until somebody is in (IntentHandler/index.ts), for any    *)
(* number of links, but for those that a later link or the end of the app  *)
(* displaced, and those that bear an error, which openDeepLink refuses.    *)
THEOREM LinksWaitAlways == Spec => []LinksWait
  <1>1. IInv => LinksWait
    BY DEF IInv, HandedOnce, Entered, LinksWait
  <1> QED
    BY <1>1, InductiveInvariant, PTL
=============================================================================
