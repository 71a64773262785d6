---------------------------- MODULE SessionProofs ----------------------------
(***************************************************************************)
(* Proofs about a tab of the frontend, for any users, any bounds and every *)
(* deployment.  The invariant has two halves: what the state and the       *)
(* storage say of the session, and what the login page, its requests and   *)
(* its popup can be.  The second is needed by the first at the answer of   *)
(* /auth/initiate, which writes the mode, and by the type of a window,     *)
(* which counts the windows that were opened.                              *)
(***************************************************************************)
EXTENDS Session, FiniteSetTheorems, TLAPS

\* The state and the storage.
SessionTypes ==
  /\ storage \in [token : Tokens \union {None}, elig : BOOLEAN, mode : Modes]
  /\ auth \in [token : Tokens \union {None}, elig : BOOLEAN, mode : Modes, ready : BOOLEAN]

\* The first half of SessionSurvivesReload; what a page shows follows from it.
Stored ==
  auth.ready => IF auth.token = None THEN storage.token = None ELSE storage = Session(auth)

\* Before the effect of AuthProvider has run nothing else has.
Unread == ~ auth.ready => auth = Fresh /\ login = NewLogin /\ requests = NoRequests

SessionHalf == SessionTypes /\ EligibilityOfToken /\ Stored

\* Clicks that wait for /auth/initiate
Waiting == requests.initiate \union requests.orphaned

\* A click opens at most one window: those that wait may each open one more.
WindowsOfClicks ==
  /\ attempts \in 0 .. MaxAttempts
  /\ popup.window + Cardinality(Waiting) <= attempts
  /\ popup.open => popup.window > 0

\* A page that was left has no request of its own.
LeftBehind == page # "login" => requests.initiate = {}

\* The page, its login state, its requests and the popup.
LoginTypes ==
  /\ page \in PageNames
  /\ login \in LoginState
  /\ page # "login" => login = NewLogin
  /\ requests \in [initiate : SUBSET Attempts, orphaned : SUBSET Attempts, mock : SUBSET Users]
  /\ popup \in [window : 0 .. MaxAttempts, open : BOOLEAN]

LoginHalf == LoginTypes /\ Unread /\ LeftBehind /\ WindowsOfClicks

\* The rest of TypeOK.
OtherTypes ==
  /\ real \in BOOLEAN
  /\ query \in Tokens \union {None} /\ history \subseteq Tokens
  /\ messages \in Seq(Tokens \union {None})

IInv == TypeOK /\ SessionHalf /\ Unread /\ LeftBehind /\ WindowsOfClicks

-----------------------------------------------------------------------------
(* The session *)

\* A login leaves state and storage with the token, and its eligibility, alike.
LEMMA LogInKeeps ==
  ASSUME SessionHalf, NEW token \in Tokens, NEW mode \in Modes, LogIn(token, mode)
  PROVE  SessionHalf' /\ page' = "dashboard" /\ login' = NewLogin /\ auth'.ready = auth.ready
<1>1. token.elig \in BOOLEAN /\ token # None
  BY SessionAssumption DEF Tokens
<1>2. /\ auth' = [auth EXCEPT !.token = token, !.elig = token.elig, !.mode = mode]
      /\ storage' = Session(auth') /\ page' = "dashboard" /\ login' = NewLogin
  BY DEF LogIn, Show
<1>3. /\ auth' \in [token : Tokens \union {None}, elig : BOOLEAN, mode : Modes, ready : BOOLEAN]
      /\ auth'.token = token /\ auth'.elig = token.elig /\ auth'.mode = mode
      /\ auth'.ready = auth.ready
  BY <1>1, <1>2 DEF SessionHalf, SessionTypes
<1>4. storage' = [token |-> token, elig |-> token.elig, mode |-> mode]
  BY <1>2, <1>3 DEF Session
<1>5. SessionTypes'
  BY <1>1, <1>3, <1>4 DEF SessionTypes
<1>6. EligibilityOfToken'
  BY <1>1, <1>3, <1>4 DEF EligibilityOfToken
<1>7. Stored'
  BY <1>1, <1>2, <1>3 DEF Stored
<1> QED
  BY <1>2, <1>3, <1>5, <1>6, <1>7 DEF SessionHalf

\* A new mode is written to both.
LEMMA SetModeKeeps ==
  ASSUME SessionHalf, NEW mode \in Modes, SetMode(mode)
  PROVE  SessionHalf' /\ auth'.ready = auth.ready
<1>1. /\ storage' \in [token : Tokens \union {None}, elig : BOOLEAN, mode : Modes]
      /\ auth' \in [token : Tokens \union {None}, elig : BOOLEAN, mode : Modes, ready : BOOLEAN]
      /\ storage'.token = storage.token /\ storage'.elig = storage.elig /\ storage'.mode = mode
      /\ auth'.token = auth.token /\ auth'.elig = auth.elig /\ auth'.mode = mode
      /\ auth'.ready = auth.ready
  BY DEF SetMode, SessionHalf, SessionTypes
<1>2. EligibilityOfToken'
  BY <1>1 DEF SessionHalf, EligibilityOfToken
<1>3. Stored'
  BY <1>1 DEF SessionHalf, SessionTypes, Stored, Session
<1> QED
  BY <1>1, <1>2, <1>3 DEF SessionHalf, SessionTypes

\* The effect of AuthProvider: what is shown after it is what is stored.
LEMMA RestoredKeeps ==
  ASSUME SessionHalf, ~ auth.ready => auth = Fresh, UNCHANGED storage,
         auth' = [Restored(auth) EXCEPT !.ready = TRUE]
  PROVE  SessionHalf' /\ auth'.ready /\ auth'.token = storage.token
<1>1. auth.token = None => storage.token = None \/ ~ auth.ready
  BY DEF SessionHalf, Stored
<1>2. CASE storage.token = None
  <2>1. auth.token = None /\ auth.elig = FALSE
    <3>1. CASE auth.ready
      BY <1>2, <3>1 DEF SessionHalf, SessionTypes, Stored, EligibilityOfToken, Session
    <3>2. CASE ~ auth.ready
      BY <3>2 DEF Fresh
    <3> QED
      BY <3>1, <3>2
  <2>2. auth' = [auth EXCEPT !.ready = TRUE]
    BY <1>2 DEF Restored
  <2> QED
    BY <1>2, <2>1, <2>2 DEF SessionHalf, SessionTypes, Stored, EligibilityOfToken
<1>3. CASE storage.token # None
  <2>1. auth' = [[auth EXCEPT !.token = storage.token, !.elig = storage.elig,
                              !.mode = storage.mode] EXCEPT !.ready = TRUE]
    BY <1>3 DEF Restored
  <2>2. /\ auth' \in [token : Tokens \union {None}, elig : BOOLEAN, mode : Modes, ready : BOOLEAN]
        /\ auth'.token = storage.token /\ auth'.elig = storage.elig
        /\ auth'.mode = storage.mode /\ auth'.ready = TRUE
    BY <2>1 DEF SessionHalf, SessionTypes
  <2>3. storage' = Session(auth')
    BY <2>2 DEF Session, SessionHalf, SessionTypes
  <2>4. EligibilityOfToken'
    BY <2>2 DEF SessionHalf, EligibilityOfToken
  <2> QED
    BY <1>3, <2>2, <2>3, <2>4 DEF SessionHalf, SessionTypes, Stored
<1> QED
  BY <1>2, <1>3

\* A step that does not touch the session.
LEMMA SameSession ==
  ASSUME SessionHalf, UNCHANGED <<storage, auth>>
  PROVE  SessionHalf'
BY DEF SessionHalf, SessionTypes, Stored, EligibilityOfToken, Session

\* Every step keeps the half of the session.
LEMMA StepSession == IInv /\ [Next]_vars => SessionHalf'
<1> SUFFICES ASSUME IInv, [Next]_vars PROVE SessionHalf'
  OBVIOUS
<1>1. SessionHalf /\ TypeOK /\ Unread
  BY DEF IInv
<1>2. ~ auth.ready => auth = Fresh
  BY <1>1 DEF Unread
<1>3. CASE UNCHANGED <<storage, auth>>
  BY <1>1, <1>3, SameSession
<1>4. ASSUME NEW token \in Tokens, NEW mode \in Modes, LogIn(token, mode)
      PROVE  SessionHalf'
  BY <1>1, <1>4, LogInKeeps
<1>5. ASSUME NEW mode \in Modes, SetMode(mode)
      PROVE  SessionHalf'
  BY <1>1, <1>5, SetModeKeeps
<1>6. CASE Logout
  <2>1. /\ storage' = [token |-> None, elig |-> FALSE, mode |-> "guest"]
        /\ auth' = [token |-> None, elig |-> FALSE, mode |-> "guest", ready |-> auth.ready]
    BY <1>6 DEF Logout, NoSession, Fresh
  <2> QED
    BY <1>1, <2>1
    DEF SessionHalf, SessionTypes, Stored, EligibilityOfToken, Modes
<1>7. CASE Mount
  BY <1>1, <1>2, <1>7, RestoredKeeps DEF Mount
<1>8. ASSUME auth.ready, auth' = Restored(auth), UNCHANGED storage
      PROVE  SessionHalf'
  <2>1. auth' = [Restored(auth) EXCEPT !.ready = TRUE]
    BY <1>1, <1>8 DEF Restored, SessionHalf, SessionTypes
  <2> QED
    BY <1>1, <1>2, <1>8, <2>1, RestoredKeeps
<1>9. ASSUME NEW p \in PageNames, NEW token \in Tokens \union {None}, Load(p, token)
      PROVE  SessionHalf'
  BY <1>1, <1>9
  DEF Load, Fresh, SessionHalf, SessionTypes, Stored, EligibilityOfToken, Modes
<1>10. ASSUME NEW u \in Users PROVE [user |-> u, elig |-> TRUE] \in Tokens
  BY DEF Tokens
<1>11. CASE ToggleMode
  BY <1>5, <1>11 DEF ToggleMode, Modes
<1>12. CASE QueryLogin
  BY <1>1, <1>4, <1>12 DEF QueryLogin, TypeOK, Modes
<1>13. CASE Deliver
  <2>1. CASE Head(messages) # None
    <3>1. Head(messages) \in Tokens
      BY <1>1, <1>13, <2>1 DEF Deliver, TypeOK
    <3> QED
      BY <1>4, <1>13, <2>1, <3>1 DEF Deliver, Modes
  <2> QED
    BY <1>3, <1>13, <2>1 DEF Deliver
<1>14. CASE User
  <2>1. ASSUME NEW p \in PageNames, Follow(p) \/ Reload(p)
        PROVE  SessionHalf'
    BY <1>8, <1>9, <2>1 DEF Follow, Reload
  <2>2. ASSUME NEW token \in Tokens, Redirected(token)
        PROVE  SessionHalf'
    BY <1>9, <2>2 DEF Redirected, PageNames
  <2>3. ASSUME NEW token \in history, Back(token)
        PROVE  SessionHalf'
    BY <1>8, <2>3 DEF Back
  <2>4. ASSUME NEW u \in Users, MockSubmit(u)
        PROVE  SessionHalf'
    BY <1>3, <2>4 DEF MockSubmit
  <2>5. CASE ClickMock \/ StartLogin \/ MockCancel
    BY <1>3, <1>5, <2>5 DEF ClickMock, OpenMock, StartLogin, MockCancel, Modes
  <2> QED
    BY <1>6, <1>11, <1>14, <2>1, <2>2, <2>3, <2>4, <2>5 DEF User
<1>15. ASSUME NEW k \in Attempts, InitiateMock(k) \/ InitiatePopup(k) \/ PopupBlocked(k)
       PROVE  SessionHalf'
  BY <1>3, <1>5, <1>15 DEF InitiateMock, InitiatePopup, PopupBlocked, OpenMock, Modes
<1>16. CASE PopupEnds \/ Ticks \/ MessageLost \/ SentToLogin \/ SentToDashboard
  BY <1>3, <1>16
  DEF PopupEnds, ClosePopup, PopupFails, PopupAnswers, Ticks, Tick, MessageLost, SentToLogin,
      SentToDashboard
<1>17. ASSUME NEW u \in Users, MockAnswer(u) \/ MockRefused(u)
       PROVE  SessionHalf'
  BY <1>3, <1>4, <1>10, <1>17 DEF MockAnswer, MockRefused, Modes
<1> QED
  BY <1>3, <1>7, <1>12, <1>13, <1>14, <1>15, <1>16, <1>17 DEF Next, Initiated, vars

-----------------------------------------------------------------------------
(* The login page, its requests and its popup *)

\* A page that is left takes its state along; its requests are orphaned.
LEMMA OrphanedKeeps ==
  ASSUME IInv
  PROVE  /\ Orphaned(requests) \in
              [initiate : SUBSET Attempts, orphaned : SUBSET Attempts, mock : SUBSET Users]
         /\ Orphaned(requests).initiate = {}
         /\ Orphaned(requests).initiate \union Orphaned(requests).orphaned = Waiting
         /\ Orphaned(requests).mock = requests.mock
         /\ auth.ready \/ Orphaned(requests) = NoRequests
<1>1. requests \in [initiate : SUBSET Attempts, orphaned : SUBSET Attempts, mock : SUBSET Users]
  BY DEF IInv, TypeOK
<1> DEFINE r == [requests EXCEPT !.orphaned = requests.orphaned \union requests.initiate]
<1>2. Orphaned(requests) = [initiate |-> {}, mock |-> requests.mock,
                            orphaned |-> requests.orphaned \union requests.initiate]
  <2>1. /\ r \in [initiate : SUBSET Attempts, orphaned : SUBSET Attempts, mock : SUBSET Users]
        /\ r.mock = requests.mock /\ r.orphaned = requests.orphaned \union requests.initiate
    BY <1>1
  <2>2. Orphaned(requests) = [r EXCEPT !.initiate = {}]
    BY <1>1 DEF Orphaned
  <2> HIDE DEF r
  <2> QED
    BY <2>1, <2>2
<1>3. Orphaned(requests).initiate = {} /\ Orphaned(requests).mock = requests.mock
  BY <1>2
<1>4. Orphaned(requests).orphaned = Waiting
  BY <1>2 DEF Waiting
<1>5. auth.ready \/ Orphaned(requests) = NoRequests
  BY <1>2 DEF IInv, Unread, NoRequests
<1> QED
  BY <1>1, <1>2, <1>3, <1>4, <1>5

\* The login page has state only while it is shown.
LEMMA LoginFields ==
  ASSUME TypeOK
  PROVE  /\ login.aborted \in BOOLEAN /\ login.mock \in BOOLEAN
         /\ login.polls \subseteq Attempts \X Attempts /\ login.blocked \subseteq Attempts
         /\ page # "login" => ~ login.mock /\ login.polls = {}
         /\ requests.initiate \subseteq Attempts /\ requests.orphaned \subseteq Attempts
         /\ requests.mock \subseteq Users
         /\ popup.window \in 0 .. MaxAttempts /\ popup.open \in BOOLEAN
BY DEF TypeOK, NewLogin, LoginState

\* Of finitely many clicks.
LEMMA WaitingFinite ==
  ASSUME TypeOK
  PROVE  IsFiniteSet(Waiting) /\ Cardinality(Waiting) \in Nat
<1>1. IsFiniteSet(Attempts)
  BY FS_Interval, SessionAssumption DEF Attempts
<1>2. Waiting \subseteq Attempts
  BY LoginFields DEF Waiting
<1> QED
  BY <1>1, <1>2, FS_Subset, FS_CardinalityType

\* Nothing but the document's own effects happens before AuthProvider's effect.
LEMMA Ready ==
  ASSUME IInv, \/ auth.token # None \/ login # NewLogin \/ requests # NoRequests
  PROVE  auth.ready
BY DEF IInv, Unread, Fresh

\* Another page of the document, or of the same address.
LEMMA Moves ==
  ASSUME IInv, page' \in PageNames, login' = NewLogin, UNCHANGED <<popup, attempts>>,
         requests' \in [initiate : SUBSET Attempts, orphaned : SUBSET Attempts,
                        mock : SUBSET Users],
         requests'.initiate = {}, Waiting' = Waiting,
         auth'.ready \/ (auth' = Fresh /\ requests' = NoRequests)
  PROVE  LoginHalf'
<1>1. login' = [aborted |-> FALSE, mock |-> FALSE, polls |-> {}, blocked |-> {}] /\ login' = NewLogin
  BY DEF NewLogin
<1>2. LoginTypes'
  BY <1>1 DEF LoginTypes, IInv, TypeOK, LoginState
<1>3. WindowsOfClicks'
  BY DEF WindowsOfClicks, IInv
<1> QED
  BY <1>1, <1>2, <1>3 DEF LoginHalf, Unread, LeftBehind

\* What only the login page does, and the answers to its requests.
LEMMA Stays ==
  ASSUME IInv, UNCHANGED page, WindowsOfClicks', auth'.ready,
         login' \in LoginState,
         requests' \in [initiate : SUBSET Attempts, orphaned : SUBSET Attempts,
                        mock : SUBSET Users],
         popup' \in [window : 0 .. MaxAttempts, open : BOOLEAN],
         page # "login" => login' = login /\ requests'.initiate \subseteq requests.initiate
  PROVE  LoginHalf'
BY DEF LoginHalf, LoginTypes, Unread, LeftBehind, IInv, TypeOK

\* A step of a document that nobody leaves, which touches nothing of the login page.
LEMMA SameLogin ==
  ASSUME IInv, UNCHANGED <<page, login, requests, popup, attempts>>,
         auth'.ready \/ auth' = auth
  PROVE  LoginHalf'
BY DEF LoginHalf, LoginTypes, Unread, LeftBehind, WindowsOfClicks, Waiting, IInv, TypeOK

\* A click: one more request, that may open one more window.
LEMMA StartKeeps ==
  ASSUME IInv, StartLogin
  PROVE  LoginHalf'
<1>1. TypeOK /\ WindowsOfClicks /\ SessionHalf /\ MaxAttempts \in Nat
  BY SessionAssumption DEF IInv
<1>2. attempts' = attempts + 1 /\ attempts' \in Attempts /\ attempts \in Nat /\ UNCHANGED <<page, popup>>
  BY <1>1 DEF StartLogin, Attempts, WindowsOfClicks, browser
<1>3. /\ requests' \in [initiate : SUBSET Attempts, orphaned : SUBSET Attempts, mock : SUBSET Users]
      /\ Waiting' = Waiting \union {attempts'}
  BY <1>1, <1>2 DEF StartLogin, TypeOK, Waiting
<1>4. Cardinality(Waiting') <= Cardinality(Waiting) + 1 /\ Cardinality(Waiting') \in Nat
  BY <1>1, <1>3, WaitingFinite, FS_AddElement
<1>5. WindowsOfClicks'
  BY <1>1, <1>2, <1>4, LoginFields, WaitingFinite DEF WindowsOfClicks, Attempts
<1>6. login' \in LoginState
  BY <1>1 DEF StartLogin, TypeOK, LoginState
<1>7. auth'.ready
  BY <1>1, SetModeKeeps DEF StartLogin, Modes
<1>8. page = "login" /\ popup' \in [window : 0 .. MaxAttempts, open : BOOLEAN]
  BY <1>1 DEF StartLogin, TypeOK
<1> QED
  BY <1>2, <1>3, <1>5, <1>6, <1>7, <1>8, Stays

\* An answer of /auth/initiate: its click waits no longer.
LEMMA AnsweredKeeps ==
  ASSUME IInv, NEW k \in Attempts, Answered(k)
  PROVE  /\ requests' \in [initiate : SUBSET Attempts, orphaned : SUBSET Attempts,
                           mock : SUBSET Users]
         /\ requests'.initiate \subseteq requests.initiate
         /\ Cardinality(Waiting') = Cardinality(Waiting) - 1
         /\ Cardinality(Waiting) \in Nat /\ Cardinality(Waiting') \in Nat
         /\ auth.ready
         /\ Mounted(k) => page = "login"
<1>1. TypeOK
  BY DEF IInv
<1>2. /\ requests' \in [initiate : SUBSET Attempts, orphaned : SUBSET Attempts, mock : SUBSET Users]
      /\ requests'.initiate = requests.initiate \ {k} /\ requests'.orphaned = requests.orphaned \ {k}
  BY <1>1 DEF TypeOK, Answered
<1>3. k \in Waiting /\ Waiting' = Waiting \ {k}
  BY <1>2 DEF Answered, Waiting
<1>4. Cardinality(Waiting') = Cardinality(Waiting) - 1 /\ Cardinality(Waiting') \in Nat
  BY <1>1, <1>3, WaitingFinite, FS_RemoveElement, FS_CardinalityType
<1>5. requests # NoRequests
  BY DEF Answered, NoRequests
<1> QED
  BY <1>1, <1>2, <1>4, <1>5, WaitingFinite, Ready DEF Mounted, IInv, LeftBehind

\* The answer that a login is a mock one opens the form on the page that asked.
LEMMA InitiateMockKeeps ==
  ASSUME IInv, NEW k \in Attempts, InitiateMock(k)
  PROVE  LoginHalf'
<1>1. TypeOK /\ SessionHalf /\ WindowsOfClicks /\ Answered(k) /\ UNCHANGED <<page, popup, attempts>>
  BY DEF IInv, InitiateMock, browser
<1>2. auth'.ready
  BY <1>1, AnsweredKeeps, SetModeKeeps DEF InitiateMock, OpenMock, Modes
<1>3. /\ login' = [login EXCEPT !.mock = Mounted(k) \/ @]
      /\ Mounted(k) \in BOOLEAN /\ Mounted(k) => page = "login"
      /\ login \in LoginState
  BY <1>1, AnsweredKeeps DEF InitiateMock, OpenMock, Mounted, TypeOK
<1>4. /\ login' \in LoginState
      /\ ~ Mounted(k) => login' = login
  BY <1>3 DEF LoginState
<1>5. WindowsOfClicks'
  BY <1>1, AnsweredKeeps, LoginFields DEF WindowsOfClicks
<1>6. popup' \in [window : 0 .. MaxAttempts, open : BOOLEAN]
  BY <1>1 DEF TypeOK
<1> QED
  BY <1>1, <1>2, <1>3, <1>4, <1>5, <1>6, AnsweredKeeps, Stays

\* A window opens, or the one that is open is found: the click it is for is answered.
LEMMA InitiatePopupKeeps ==
  ASSUME IInv, NEW k \in Attempts, InitiatePopup(k)
  PROVE  LoginHalf'
<1>1. TypeOK /\ WindowsOfClicks /\ Answered(k) /\ UNCHANGED <<auth, page, attempts>> /\ MaxAttempts \in Nat
  BY SessionAssumption DEF IInv, InitiatePopup, browser
<1>2. /\ popup' \in [window : Nat, open : BOOLEAN] /\ popup'.window > 0
      /\ popup'.window <= popup.window + 1 /\ popup.window \in Nat
  BY <1>1, LoginFields DEF InitiatePopup, Opened, WindowsOfClicks
<1>3. WindowsOfClicks' /\ popup'.window <= MaxAttempts
  BY <1>1, <1>2, AnsweredKeeps DEF WindowsOfClicks
<1>4. popup' \in [window : 0 .. MaxAttempts, open : BOOLEAN] /\ popup'.window \in Attempts
  BY <1>1, <1>2, <1>3 DEF Attempts
<1>5. login \in LoginState
  BY <1>1 DEF TypeOK
<1>6. /\ login' \in LoginState
      /\ ~ Mounted(k) => login' = login
  <2>1. CASE Mounted(k)
    <3>1. login' = [login EXCEPT !.polls = @ \union {<<k, popup'.window>>}]
      BY <2>1 DEF InitiatePopup
    <3>2. <<k, popup'.window>> \in Attempts \X Attempts
      BY <1>4
    <3> QED
      BY <1>5, <2>1, <3>1, <3>2 DEF LoginState
  <2>2. CASE ~ Mounted(k)
    BY <1>5, <2>2 DEF InitiatePopup
  <2> QED
    BY <2>1, <2>2
<1> QED
  BY <1>1, <1>3, <1>4, <1>6, AnsweredKeeps, Stays

\* No window opens: the click it was for is answered all the same.
LEMMA PopupBlockedKeeps ==
  ASSUME IInv, NEW k \in Attempts, PopupBlocked(k)
  PROVE  LoginHalf'
<1>1. TypeOK /\ WindowsOfClicks /\ Answered(k) /\ UNCHANGED <<auth, page, popup, attempts>>
  BY DEF IInv, PopupBlocked, browser
<1>2. WindowsOfClicks'
  BY <1>1, AnsweredKeeps, LoginFields DEF WindowsOfClicks
<1>3. login \in LoginState /\ popup' \in [window : 0 .. MaxAttempts, open : BOOLEAN]
  BY <1>1 DEF TypeOK, LoginState
<1>4. login' \in LoginState /\ (~ Mounted(k) => login' = login)
  BY <1>3 DEF PopupBlocked, LoginState
<1> QED
  BY <1>1, <1>2, <1>3, <1>4, AnsweredKeeps, Stays

\* The popup is closed, by its page or by the user.
LEMMA ClosedKeeps ==
  ASSUME IInv, popup' = [popup EXCEPT !.open = FALSE],
         UNCHANGED <<page, auth, login, requests, attempts>>
  PROVE  LoginHalf'
<1>1. /\ popup' \in [window : 0 .. MaxAttempts, open : BOOLEAN]
      /\ popup'.window = popup.window /\ ~ popup'.open
  BY DEF IInv, TypeOK
<1>2. WindowsOfClicks'
  BY <1>1 DEF IInv, WindowsOfClicks, Waiting
<1> QED
  BY <1>1, <1>2 DEF IInv, TypeOK, LoginHalf, LoginTypes, Unread, LeftBehind

\* The login page's own state, while it is shown.
LEMMA LoginChanges ==
  ASSUME IInv, page = "login", auth'.ready, UNCHANGED <<page, requests, popup, attempts>>,
         login' \in LoginState
  PROVE  LoginHalf'
<1>1. WindowsOfClicks'
  BY DEF IInv, WindowsOfClicks, Waiting
<1> QED
  BY <1>1, Stays DEF IInv, TypeOK

\* The requests of the modal
LEMMA MockRequests ==
  ASSUME IInv, UNCHANGED <<page, auth, login, popup, attempts>>, auth.ready,
         NEW S \in SUBSET Users, requests' = [requests EXCEPT !.mock = S]
  PROVE  LoginHalf'
<1>1. /\ requests' \in [initiate : SUBSET Attempts, orphaned : SUBSET Attempts, mock : SUBSET Users]
      /\ requests'.initiate = requests.initiate /\ requests'.orphaned = requests.orphaned
  BY DEF IInv, TypeOK
<1>2. WindowsOfClicks'
  BY <1>1 DEF IInv, WindowsOfClicks, Waiting
<1> QED
  BY <1>1, <1>2, Stays DEF IInv, TypeOK

\* Every step keeps the half of the logins.
LEMMA StepLogin == IInv /\ [Next]_vars => LoginHalf'
<1> SUFFICES ASSUME IInv, [Next]_vars PROVE LoginHalf'
  OBVIOUS
<1>1. TypeOK /\ SessionHalf /\ Unread /\ "login" \in PageNames /\ "dashboard" \in PageNames
  BY DEF IInv, PageNames
<1> DEFINE Req == [initiate : SUBSET Attempts, orphaned : SUBSET Attempts, mock : SUBSET Users]
<1>2. ASSUME page' \in PageNames, login' = NewLogin, requests' = Orphaned(requests),
             UNCHANGED <<popup, attempts>>, auth'.ready \/ (auth' = Fresh /\ ~ auth.ready)
      PROVE  LoginHalf'
  <2>1. requests' \in Req /\ requests'.initiate = {} /\ Waiting' = Waiting
    BY <1>2, OrphanedKeeps DEF Waiting
  <2>2. auth'.ready \/ (auth' = Fresh /\ requests' = NoRequests)
    BY <1>2, OrphanedKeeps
  <2> QED
    BY <1>2, <2>1, <2>2, Moves
<1>3. ASSUME page' \in PageNames, login' = NewLogin, requests' = Orphaned(requests),
             UNCHANGED <<popup, attempts, auth>>
      PROVE  LoginHalf'
  BY <1>1, <1>2, <1>3 DEF Unread
<1>4. ASSUME NEW token \in Tokens, NEW mode \in Modes, LogIn(token, mode), auth.ready,
             requests' = Orphaned(requests), UNCHANGED <<popup, attempts>>
      PROVE  LoginHalf'
  <2>1. auth'.ready /\ page' = "dashboard" /\ login' = NewLogin
    BY <1>1, <1>4, LogInKeeps
  <2> QED
    BY <1>1, <1>2, <1>4, <2>1
<1>5. CASE Logout
  <2>1. auth.ready /\ auth'.ready
    BY <1>5, Ready DEF Logout, Fresh
  <2> QED
    BY <1>1, <1>2, <1>5, <2>1 DEF Logout, Show, bounds
<1>6. CASE ToggleMode
  <2>1. PICK mode \in Modes : SetMode(mode)
    BY <1>6 DEF ToggleMode, Modes
  <2>2. auth'.ready
    BY <1>1, <1>6, <2>1, SetModeKeeps, Ready DEF ToggleMode
  <2> QED
    BY <1>6, <2>2, SameLogin DEF ToggleMode, browser, bounds
<1>7. CASE Mount
  BY <1>1, <1>7, SameLogin, RestoredKeeps DEF Mount, Unread, browser, bounds
<1>8. CASE QueryLogin
  BY <1>1, <1>4, <1>8 DEF QueryLogin, TypeOK, Modes, bounds
<1>9. CASE Deliver
  <2>1. CASE Head(messages) # None
    <3>1. Head(messages) \in Tokens
      BY <1>1, <1>9, <2>1 DEF Deliver, TypeOK
    <3> QED
      BY <1>4, <1>9, <2>1, <3>1 DEF Deliver, Modes, bounds
  <2>2. CASE Head(messages) = None
    <3>1. /\ login' \in Aborted /\ auth.ready
          /\ UNCHANGED <<auth, page, requests, popup, attempts>>
      BY <1>9, <2>2 DEF Deliver, bounds
    <3>2. CASE page # "login"
      BY <3>1, <3>2, SameLogin DEF Aborted
    <3>3. CASE page = "login"
      <4>1. PICK ended : login' = [login EXCEPT !.aborted = TRUE, !.polls = @ \ ended]
        BY <3>1, <3>3 DEF Aborted
      <4>2. login' \in LoginState
        BY <1>1, <4>1 DEF TypeOK, LoginState
      <4> QED
        BY <3>1, <3>3, <4>2, LoginChanges
    <3> QED
      BY <3>2, <3>3
  <2> QED
    BY <2>1, <2>2
<1>10. CASE SentToLogin
  <2>1. page # "login" /\ auth.ready /\ UNCHANGED <<auth, requests, popup, attempts>>
    BY <1>10 DEF SentToLogin, Guarded, bounds
  <2>2. requests' \in Req /\ requests'.initiate = {} /\ Waiting' = Waiting
    BY <1>1, <2>1 DEF TypeOK, IInv, LeftBehind, Waiting
  <2> QED
    BY <1>1, <1>10, <2>1, <2>2, Moves DEF SentToLogin, Show
<1>11. CASE SentToDashboard
  BY <1>1, <1>3, <1>11 DEF SentToDashboard, Show, bounds
<1>12. ASSUME NEW p \in PageNames, Follow(p)
       PROVE  LoginHalf'
  <2>1. auth'.ready
    BY <1>1, <1>12 DEF Follow, Restored, SessionHalf, SessionTypes
  <2> QED
    BY <1>2, <1>12, <2>1 DEF Follow, Show, bounds
<1>13. ASSUME NEW token \in history, Back(token)
       PROVE  LoginHalf'
  <2>1. auth'.ready
    BY <1>1, <1>13 DEF Back, Restored, SessionHalf, SessionTypes
  <2> QED
    BY <1>1, <1>2, <1>13, <2>1 DEF Back, Show, bounds
<1>14. ASSUME NEW p \in PageNames, NEW token, Load(p, token)
       PROVE  LoginHalf'
  <2>1. /\ page' = p /\ auth' = Fresh /\ login' = NewLogin /\ UNCHANGED <<popup, attempts>>
        /\ requests' = [initiate |-> {}, orphaned |-> {}, mock |-> {}] /\ requests' = NoRequests
    BY <1>14 DEF Load, bounds, NoRequests
  <2>2. Waiting' = {} /\ Cardinality({}) = 0
    BY <2>1, FS_EmptySet DEF Waiting
  <2>3. WindowsOfClicks'
    BY <1>1, <2>1, <2>2, WaitingFinite, LoginFields DEF WindowsOfClicks, IInv
  <2>4. login' \in LoginState /\ requests' \in Req
    BY <2>1 DEF NewLogin, LoginState
  <2> QED
    BY <1>1, <2>1, <2>3, <2>4 DEF LoginHalf, LoginTypes, Unread, LeftBehind, TypeOK
<1>15. CASE ClickMock
  <2>1. auth'.ready /\ UNCHANGED <<page, requests, popup, attempts>> /\ page = "login"
    BY <1>1, <1>15, SetModeKeeps DEF ClickMock, OpenMock, Modes, browser, bounds
  <2>2. login' \in LoginState
    BY <1>1, <1>15 DEF ClickMock, OpenMock, TypeOK, LoginState
  <2> QED
    BY <2>1, <2>2, LoginChanges
<1>16. CASE MockCancel
  <2>1. login # NewLogin /\ page = "login"
    BY <1>1, <1>16, LoginFields DEF MockCancel, NewLogin
  <2>2. login' \in LoginState
    BY <1>1, <1>16 DEF MockCancel, TypeOK, LoginState
  <2> QED
    BY <1>16, <2>1, <2>2, Ready, LoginChanges DEF MockCancel, browser, bounds
<1>17. ASSUME NEW i \in login.polls, Tick(i)
       PROVE  LoginHalf'
  <2>1. PICK j : login' = [login EXCEPT !.aborted = TRUE, !.polls = @ \ {j}]
    BY <1>17 DEF Tick
  <2>2. login # NewLogin /\ page = "login"
    BY <1>1, <1>17, LoginFields DEF NewLogin
  <2>3. login' \in LoginState
    BY <1>1, <2>1 DEF TypeOK, LoginState
  <2> QED
    BY <1>17, <2>2, <2>3, Ready, LoginChanges DEF Tick, browser, bounds
<1>18. ASSUME NEW u \in Users, MockSubmit(u)
       PROVE  LoginHalf'
  <2>1. auth.ready
    BY <1>18, Ready DEF MockSubmit, NewLogin
  <2>2. requests.mock \union {u} \in SUBSET Users
    BY <1>1 DEF TypeOK
  <2> QED
    BY <1>18, <2>1, <2>2, MockRequests DEF MockSubmit, browser, bounds
<1>19. ASSUME NEW u \in Users, MockRefused(u)
       PROVE  LoginHalf'
  <2>1. auth.ready
    BY <1>19, Ready DEF MockRefused, NoRequests
  <2>2. requests.mock \ {u} \in SUBSET Users
    BY <1>1 DEF TypeOK
  <2> QED
    BY <1>19, <2>1, <2>2, MockRequests DEF MockRefused, browser
<1>20. ASSUME NEW u \in Users, MockAnswer(u)
       PROVE  LoginHalf'
  <2>1. auth.ready /\ [user |-> u, elig |-> TRUE] \in Tokens /\ "mock" \in Modes
    BY <1>20, Ready DEF MockAnswer, NoRequests, Tokens, Modes
  <2>2. /\ auth'.ready /\ page' = "dashboard" /\ login' = NewLogin
        /\ UNCHANGED <<popup, attempts>>
    BY <1>1, <1>20, <2>1, LogInKeeps DEF MockAnswer, bounds
  <2> DEFINE o == Orphaned(requests)
  <2>3. o \in Req /\ o.initiate = {} /\ o.initiate \union o.orphaned = Waiting
    BY OrphanedKeeps
  <2>4. requests' = [o EXCEPT !.mock = @ \ {u}]
    BY <1>20 DEF MockAnswer
  <2> HIDE DEF o
  <2>5. requests' \in Req /\ requests'.initiate = {} /\ requests'.orphaned = o.orphaned
    BY <2>3, <2>4
  <2>6. Waiting' = Waiting
    BY <2>3, <2>5 DEF Waiting
  <2> QED
    BY <1>1, <2>2, <2>5, <2>6, Moves
<1>21. CASE PopupEnds
  BY <1>21, ClosedKeeps
  DEF PopupEnds, ClosePopup, PopupFails, PopupAnswers, browser, bounds
<1>22. CASE MessageLost \/ UNCHANGED vars
  BY <1>22, SameLogin DEF MessageLost, browser, bounds, vars
<1>23. CASE User
  BY <1>1, <1>5, <1>6, <1>12, <1>13, <1>14, <1>15, <1>16, <1>18, <1>23, StartKeeps
  DEF User, Reload, Redirected
<1>24. CASE Initiated
  BY <1>24, InitiateMockKeeps, InitiatePopupKeeps, PopupBlockedKeeps DEF Initiated
<1> QED
  BY <1>7, <1>8, <1>9, <1>10, <1>11, <1>17, <1>19, <1>20, <1>21, <1>22, <1>23, <1>24
  DEF Next, Ticks

-----------------------------------------------------------------------------
(* The theorems *)

\* Every step keeps the types of the rest.
LEMMA StepOther == IInv /\ [Next]_vars => OtherTypes'
<1> SUFFICES ASSUME IInv, [Next]_vars PROVE OtherTypes'
  OBVIOUS
<1>1. OtherTypes
  BY DEF IInv, TypeOK, OtherTypes
<1>2. CASE UNCHANGED <<real, history, messages>> /\ query' \in {query, None}
  BY <1>1, <1>2 DEF OtherTypes
<1>3. ASSUME NEW s \in Seq(Tokens \union {None}), s # <<>>
      PROVE  Tail(s) \in Seq(Tokens \union {None})
  BY <1>3
<1>4. ASSUME NEW s \in Seq(Tokens \union {None}), NEW e \in Tokens \union {None}
      PROVE  Append(s, e) \in Seq(Tokens \union {None})
  OBVIOUS
<1>5. CASE QueryLogin
  BY <1>1, <1>5 DEF QueryLogin, OtherTypes, bounds
<1>6. CASE messages # <<>> /\ messages' = Tail(messages) /\ UNCHANGED <<real, history>>
           /\ query' \in {query, None}
  BY <1>1, <1>3, <1>6 DEF OtherTypes
<1>7. CASE PopupEnds
  <2>1. UNCHANGED <<real, query, history>>
    BY <1>7 DEF PopupEnds, ClosePopup, PopupFails, PopupAnswers, browser, bounds
  <2>2. \A u \in Users : [user |-> u, elig |-> FALSE] \in Tokens
    BY DEF Tokens
  <2>3. messages' \in Seq(Tokens \union {None})
    BY <1>1, <1>4, <1>7, <2>2 DEF PopupEnds, ClosePopup, PopupFails, PopupAnswers, OtherTypes
  <2> QED
    BY <1>1, <2>1, <2>3 DEF OtherTypes
<1>8. ASSUME NEW p, NEW token \in Tokens \union {None}, Load(p, token)
      PROVE  OtherTypes'
  BY <1>1, <1>8 DEF Load, OtherTypes, bounds
<1>9. ASSUME NEW token \in history, Back(token)
      PROVE  OtherTypes'
  BY <1>1, <1>9 DEF Back, OtherTypes, bounds
<1>10. CASE User
  <2>1. ASSUME NEW p \in PageNames, Follow(p) \/ Reload(p)
        PROVE  OtherTypes'
    BY <1>2, <1>8, <2>1 DEF Follow, Reload, bounds
  <2>2. ASSUME NEW token \in Tokens, Redirected(token)
        PROVE  OtherTypes'
    BY <1>8, <2>2 DEF Redirected
  <2>3. ASSUME NEW u \in Users, MockSubmit(u)
        PROVE  OtherTypes'
    BY <1>2, <2>3 DEF MockSubmit, browser, bounds
  <2>4. CASE Logout \/ ToggleMode \/ ClickMock \/ StartLogin \/ MockCancel
    BY <1>2, <2>4 DEF Logout, ToggleMode, ClickMock, StartLogin, MockCancel, browser, bounds
  <2> QED
    BY <1>9, <1>10, <2>1, <2>2, <2>3, <2>4 DEF User
<1>11. CASE Mount \/ SentToLogin \/ SentToDashboard \/ Ticks
  BY <1>2, <1>11 DEF Mount, SentToLogin, SentToDashboard, Ticks, Tick, browser, bounds
<1>12. CASE Initiated
  BY <1>2, <1>12 DEF Initiated, InitiateMock, InitiatePopup, PopupBlocked, browser
<1>13. ASSUME NEW u \in Users, MockAnswer(u) \/ MockRefused(u)
       PROVE  OtherTypes'
  BY <1>2, <1>13 DEF MockAnswer, LogIn, MockRefused, browser, bounds
<1>14. CASE Deliver \/ MessageLost
  BY <1>6, <1>14 DEF Deliver, LogIn, MessageLost, browser, bounds
<1>15. CASE UNCHANGED vars
  BY <1>2, <1>15 DEF vars
<1> QED
  BY <1>5, <1>7, <1>10, <1>11, <1>12, <1>13, <1>14, <1>15 DEF Next

\* A browser that opens the app has no session and no window.
LEMMA InitIInv == Init => IInv
<1> SUFFICES ASSUME Init PROVE IInv
  OBVIOUS
<1>1. /\ storage = [token |-> None, elig |-> FALSE, mode |-> "guest"]
      /\ auth = [token |-> None, elig |-> FALSE, mode |-> "guest", ready |-> FALSE]
      /\ auth = Fresh /\ login = NewLogin /\ requests = NoRequests
      /\ login = [aborted |-> FALSE, mock |-> FALSE, polls |-> {}, blocked |-> {}]
      /\ requests = [initiate |-> {}, orphaned |-> {}, mock |-> {}]
      /\ popup = [window |-> 0, open |-> FALSE]
  BY DEF Init, NoSession, Fresh, NewLogin, NoRequests
<1>2. SessionHalf
  <2>1. SessionTypes
    BY <1>1 DEF SessionTypes, Modes
  <2>2. storage.token = None /\ storage.elig = FALSE /\ auth.token = None /\ auth.elig = FALSE
        /\ auth.ready = FALSE
    BY <1>1
  <2>3. EligibilityOfToken
    BY <2>2 DEF EligibilityOfToken
  <2>4. Stored
    BY <2>2 DEF Stored
  <2> QED
    BY <2>1, <2>3, <2>4 DEF SessionHalf
<1>3. LoginTypes
  BY <1>1, SessionAssumption DEF Init, LoginTypes, PageNames, LoginState
<1>4. real \in BOOLEAN /\ query = None /\ history = {} /\ messages \in Seq(Tokens \union {None})
  BY SessionAssumption DEF Init
<1>5. Waiting = {} /\ Cardinality({}) = 0
  BY <1>1, FS_EmptySet DEF Waiting
<1>6. WindowsOfClicks
  BY <1>1, <1>5, SessionAssumption DEF Init, WindowsOfClicks
<1> QED
  BY <1>1, <1>2, <1>3, <1>4, <1>6
  DEF IInv, TypeOK, Unread, LeftBehind, SessionHalf, SessionTypes, LoginTypes

\* Every step keeps the invariant.
LEMMA StepIInv == IInv /\ [Next]_vars => IInv'
<1> SUFFICES ASSUME IInv, [Next]_vars PROVE IInv'
  OBVIOUS
<1>1. SessionHalf' /\ LoginHalf' /\ OtherTypes'
  BY StepSession, StepLogin, StepOther
<1> QED
  BY <1>1 DEF IInv, TypeOK, LoginHalf, LoginTypes, OtherTypes, SessionHalf, SessionTypes

\* The inductive invariant of the tab.
THEOREM Invariance == Spec => []IInv
  BY InitIInv, StepIInv, PTL DEF Spec

\* State, storage, requests and windows are what the code can make them.
THEOREM TypeCorrect == Spec => []TypeOK
<1>1. IInv => TypeOK
  BY DEF IInv
<1> QED
  BY <1>1, Invariance, PTL

\* What AuthProvider holds is what a reload would restore, and so is what a page
\* shows, for every order of logins, logouts, popups, redirects and mode changes.
THEOREM ReloadChangesNothing == Spec => []SessionSurvivesReload
<1>1. IInv => SessionSurvivesReload
  <2> SUFFICES ASSUME IInv, auth.ready
               PROVE  SessionSurvivesReload
    BY DEF SessionSurvivesReload
  <2>1. SessionHalf /\ SessionTypes
    BY DEF IInv, SessionHalf
  <2> DEFINE again == [Restored(Fresh) EXCEPT !.ready = TRUE]
  <2>2. /\ Fresh \in [token : Tokens \union {None}, elig : BOOLEAN, mode : Modes, ready : BOOLEAN]
        /\ Fresh.token = None /\ Fresh.elig = FALSE
    BY DEF Fresh, Modes
  <2>3. again.token = auth.token /\ again.elig = auth.elig /\ again.ready
    <3>1. CASE storage.token = None
      <4>1. again = [Fresh EXCEPT !.ready = TRUE]
        BY <3>1 DEF Restored
      <4>2. again.token = None /\ again.elig = FALSE /\ again.ready
        BY <2>2, <4>1
      <4>3. auth.token = None /\ auth.elig = FALSE
        BY <2>1, <3>1 DEF SessionHalf, Stored, Session, EligibilityOfToken, SessionTypes
      <4> QED
        BY <4>2, <4>3
    <3>2. CASE storage.token # None
      <4> DEFINE r == [Fresh EXCEPT !.token = storage.token, !.elig = storage.elig,
                                    !.mode = storage.mode]
      <4>1. again.token = storage.token /\ again.elig = storage.elig /\ again.ready
        <5>1. again = [r EXCEPT !.ready = TRUE]
          BY <3>2 DEF Restored
        <5>2. r \in [token : Tokens \union {None}, elig : BOOLEAN, mode : Modes, ready : BOOLEAN]
              /\ r.token = storage.token /\ r.elig = storage.elig
          BY <2>1, <2>2 DEF SessionTypes
        <5> HIDE DEF r
        <5> QED
          BY <5>1, <5>2
      <4>2. auth.token = storage.token /\ auth.elig = storage.elig
        BY <2>1, <3>2 DEF SessionHalf, Stored, Session
      <4> QED
        BY <4>1, <4>2
    <3> QED
      BY <3>1, <3>2
  <2> HIDE DEF again
  <2>4. Shown(page, auth) = Shown(page, again)
    BY <2>3 DEF Shown, Protected, Gate, Role
  <2> QED
    BY <2>1, <2>4 DEF again, SessionSurvivesReload, SessionHalf, Stored
<1> QED
  BY <1>1, Invariance, PTL

\* Token and eligibility are of one login, in the state and in the storage.
THEOREM EligibilityIsOfToken == Spec => []EligibilityOfToken
<1>1. IInv => EligibilityOfToken
  BY DEF IInv, SessionHalf
<1> QED
  BY <1>1, Invariance, PTL

\* withAuth sends nobody to the login page whose session is in the storage.
THEOREM SessionNotDropped == Spec => SessionIsNotDropped
<1> DEFINE Kept == page # "login" /\ page' = "login" /\ storage.token # None
                     => \/ storage'.token = None
                        \/ auth'.token # None
                        \/ auth.ready /\ ~ auth'.ready
<1>1. IInv /\ [Next]_vars => [Kept]_vars
  <2> SUFFICES ASSUME IInv, [Next]_vars, page # "login", page' = "login", storage.token # None
               PROVE  \/ storage'.token = None
                      \/ auth'.token # None
                      \/ auth.ready /\ ~ auth'.ready
    OBVIOUS
  <2>1. SessionHalf /\ TypeOK
    BY DEF IInv
  <2>2. CASE Logout
    BY <2>2 DEF Logout, NoSession
  <2>3. CASE SentToLogin
    BY <2>1, <2>3 DEF SentToLogin, SessionHalf, Stored
  <2>4. CASE Follow("login")
    BY <2>1, <2>4 DEF Follow, Restored, SessionHalf, SessionTypes
  <2>5. ASSUME NEW p, NEW token, Load(p, token)
        PROVE  auth.ready /\ ~ auth'.ready
    BY <2>5 DEF Load, Fresh
  <2>6. CASE page' = page \/ page' = "dashboard"
    BY <2>6
  <2>7. ASSUME NEW p \in PageNames, Follow(p)
        PROVE  Follow("login")
    BY <2>7 DEF Follow, Show
  <2> QED
    BY <2>2, <2>3, <2>4, <2>5, <2>6, <2>7
    DEF Next, User, ToggleMode, ClickMock, StartLogin, MockCancel, Reload, Redirected, Back,
        MockSubmit, Mount, QueryLogin, Deliver, LogIn, Show, MessageLost, SentToDashboard,
        Initiated, InitiateMock, InitiatePopup, PopupBlocked, PopupEnds, ClosePopup, PopupFails, PopupAnswers,
        Ticks, Tick, MockAnswer, MockRefused, browser, vars
<1> QED
  BY <1>1, Invariance, PTL DEF Spec, SessionIsNotDropped
=============================================================================
