------------------------------ MODULE Session ------------------------------
(***************************************************************************)
(* One tab of the frontend: the session AuthProvider.tsx keeps in React    *)
(* state and in sessionStorage, and the ways to start and to end it: the   *)
(* eID popup and the mock modal of login.tsx, a redirect that carries the  *)
(* token in the query of the URL, and the account menu.                    *)
(*                                                                         *)
(* The tab is one thread; between two of its steps come the user, the      *)
(* popup and the answers of the backend.  A token is known by its user and *)
(* by the eligibility that was issued with it.  Tokens of the mock login   *)
(* do not expire, and a refused token is left out: pages log out on a      *)
(* detail text the backend does not use.                                   *)
(***************************************************************************)
EXTENDS Naturals, Sequences, FiniteSets

CONSTANTS
  Users,
  Admins,        \* those whose token says `admin'
  None,
  Deployments,   \* values USE_REAL_OAUTH may have
  MaxAttempts,   \* bound: clicks on the eID button
  MaxRedirects,  \* bound: URLs with a token in the user's history
  MaxFaults      \* bound: requests that fail

Tokens == [user : Users, elig : BOOLEAN]

ASSUME SessionAssumption ==
  /\ Admins \subseteq Users
  /\ None \notin Tokens
  /\ Deployments \subseteq BOOLEAN
  /\ MaxAttempts \in Nat /\ MaxRedirects \in Nat /\ MaxFaults \in Nat

VARIABLES
  real,       \* USE_REAL_OAUTH of this deployment
  storage,    \* sessionStorage: id_token, eligibility, auth_mode
  auth,       \* the state of AuthProvider
  page,       \* the page shown
  query,      \* the token in the query of the URL, or None
  history,    \* tokens in the queries of URLs the user can go back to
  login,      \* the state of the login page
  requests,   \* requests of this document that are not answered
  popup,      \* the window named `login'
  messages,   \* posted to the tab and not delivered: tokens, None for an error
  attempts, faults

vars == <<real, storage, auth, page, query, history, login, requests, popup, messages,
          attempts, faults>>
browser == <<page, query, history>>
bounds == <<real, attempts, faults>>

Modes == {"eid", "mock", "guest"}
PageNames == {"login", "dashboard", "admin", "create"}
Guarded == {"dashboard", "admin"}   \* by withAuth; elections/create.tsx has gates
Attempts == 1 .. MaxAttempts

NoSession == [token |-> None, elig |-> FALSE, mode |-> "guest"]
Session(a) == [token |-> a.token, elig |-> a.elig, mode |-> a.mode]
Fresh == [token |-> None, elig |-> FALSE, mode |-> "guest", ready |-> FALSE]

\* polls: the intervals that watch a popup, by the click and the window
\* blocked: the clicks for which window.open gave null
LoginState == [aborted : BOOLEAN, mock : BOOLEAN, polls : SUBSET (Attempts \X Attempts),
               blocked : SUBSET Attempts]

NewLogin == [aborted |-> FALSE, mock |-> FALSE, polls |-> {}, blocked |-> {}]

\* initiate, orphaned: clicks of this login page, and of one that was left, that
\* wait for /auth/initiate; mock: users whose mock login is on its way
NoRequests == [initiate |-> {}, orphaned |-> {}, mock |-> {}]

Init ==
  /\ real \in Deployments
  /\ storage = NoSession /\ auth = Fresh
  /\ page = "login" /\ query = None /\ history = {}
  /\ login = NewLogin /\ requests = NoRequests
  /\ popup = [window |-> 0, open |-> FALSE] /\ messages = <<>>
  /\ attempts = 0 /\ faults = 0

Fault == faults < MaxFaults /\ faults' = faults + 1

\* What only the deployment `mode' does without a fault.
Needs(mode) == (mode /\ UNCHANGED faults) \/ (~ mode /\ Fault)

-----------------------------------------------------------------------------
(* AuthProvider *)

\* The effect that reads sessionStorage: without a token, the mode stays too.
Restored(a) ==
  IF storage.token = None THEN a
  ELSE [a EXCEPT !.token = storage.token, !.elig = storage.elig, !.mode = storage.mode]

\* Mutant: the effect restores the token only.
MountToken ==
  /\ ~ auth.ready
  /\ auth' = [auth EXCEPT !.ready = TRUE, !.token = storage.token]
  /\ UNCHANGED <<storage, browser, login, requests, popup, messages, bounds>>

\* Its first run.  React shows the updates of an effect together.
Mount ==
  /\ ~ auth.ready
  /\ auth' = [Restored(auth) EXCEPT !.ready = TRUE]
  /\ UNCHANGED <<storage, browser, login, requests, popup, messages, bounds>>

\* Another page of the same document: the login page's state goes with it, its
\* requests do not.
Show(p) == page' = p /\ login' = NewLogin

Orphaned(r) == [r EXCEPT !.orphaned = r.orphaned \union r.initiate, !.initiate = {}]

\* Mutant: the eligibility in the state is kept.
LogInElsewhere(token, mode) ==
  /\ auth' = [auth EXCEPT !.token = token, !.mode = mode]
  /\ storage' = Session(auth')
  /\ Show("dashboard") /\ query' \in {query, None}

\* login: it ends with router.push, to a URL without a query.  One that the router has
\* not read yet may be overtaken or not.
LogIn(token, mode) ==
  /\ auth' = [auth EXCEPT !.token = token, !.elig = token.elig, !.mode = mode]
  /\ storage' = Session(auth')
  /\ Show("dashboard") /\ query' \in {query, None}

Logout ==
  /\ auth.token # None
  /\ storage' = NoSession
  /\ auth' = [Fresh EXCEPT !.ready = auth.ready]
  /\ Show("login") /\ query' = None
  /\ requests' = Orphaned(requests)
  /\ UNCHANGED <<history, popup, messages, bounds>>

SetMode(mode) ==
  /\ storage' = [storage EXCEPT !.mode = mode]
  /\ auth' = [auth EXCEPT !.mode = mode]

\* toggleMode of the account menu
ToggleMode ==
  /\ auth.token # None
  /\ SetMode(IF auth.mode = "mock" THEN "eid" ELSE "mock")
  /\ UNCHANGED <<browser, login, requests, popup, messages, bounds>>

\* The effect on router.query
QueryLogin ==
  /\ auth.ready /\ query # None
  /\ LogIn(query, "eid")
  /\ query' = None /\ history' = history \union {query}
  /\ requests' = Orphaned(requests)
  /\ UNCHANGED <<popup, messages, bounds>>

\* The handler of the login page: its first rendering's `poll', if that was set, is
\* cleared.
Aborted ==
  IF page = "login"
  THEN {[login EXCEPT !.aborted = TRUE, !.polls = @ \ ended] :
          ended \in {{}} \union {{i} : i \in login.polls}}
  ELSE {login}

\* handleMessage; the errors are for the handler of the login page.
Deliver ==
  /\ auth.ready /\ messages # <<>>
  /\ messages' = Tail(messages)
  /\ IF Head(messages) # None
     THEN LogIn(Head(messages), "eid") /\ requests' = Orphaned(requests)
     ELSE /\ login' \in Aborted
          /\ UNCHANGED <<storage, auth, page, query, requests>>
  /\ UNCHANGED <<history, popup, bounds>>

\* Nobody listens before the effect has run.
MessageLost ==
  /\ ~ auth.ready /\ messages # <<>>
  /\ messages' = Tail(messages)
  /\ UNCHANGED <<storage, auth, browser, login, requests, popup, bounds>>

-----------------------------------------------------------------------------
(* Moving between pages *)

\* getRoleFromToken
Role(a) == IF a.token = None THEN "guest"
           ELSE IF a.token.user \in Admins THEN "admin" ELSE "user"

\* The gates of the page that creates elections
Gate(a) == IF a.token = None THEN "log in first"
           ELSE IF Role(a) # "admin" THEN "forbidden"
           ELSE IF a.elig THEN "create" ELSE "prove first"

\* withAuth, around a page for admins or for all
Protected(p, a) == IF a.token = None THEN "nothing"
                   ELSE IF p = "admin" /\ Role(a) # "admin" THEN "forbidden" ELSE p

\* What a page shows
Shown(p, a) ==
  IF p = "login" THEN p
  ELSE IF ~ a.ready THEN "nothing"
  ELSE IF p \in Guarded THEN Protected(p, a) ELSE Gate(a)

\* Mutant: withAuth does not wait for `ready'.
SentToLoginEarly ==
  /\ page \in Guarded /\ auth.token = None
  /\ Show("login") /\ query' = None
  /\ UNCHANGED <<storage, auth, history, requests, popup, messages, bounds>>

\* withAuth: without a session, to /login, a URL without a query
SentToLogin ==
  /\ page \in Guarded /\ auth.ready /\ auth.token = None
  /\ Show("login") /\ query' = None
  /\ UNCHANGED <<storage, auth, history, requests, popup, messages, bounds>>

\* The effect of the login page
SentToDashboard ==
  /\ page = "login" /\ auth.token # None
  /\ Show("dashboard") /\ query' = None
  /\ requests' = Orphaned(requests)
  /\ UNCHANGED <<storage, auth, history, popup, messages, bounds>>

\* A link.  The router's value is new, and the effect of AuthProvider runs again.
Follow(p) ==
  /\ auth.ready /\ query = None /\ p # page
  /\ auth' = Restored(auth)
  /\ Show(p) /\ requests' = Orphaned(requests)
  /\ UNCHANGED <<storage, query, history, popup, messages, bounds>>

\* Back to the URL of a redirect, in the same document
Back(token) ==
  /\ auth.ready /\ query = None
  /\ query' = token /\ auth' = Restored(auth)
  /\ Show("dashboard") /\ requests' = Orphaned(requests)
  /\ UNCHANGED <<storage, history, popup, messages, bounds>>

\* A new document: a reload, an address, or the redirect of an identity provider.
\* Requests, intervals and undelivered messages end with the old one.
Load(p, token) ==
  /\ auth.ready
  /\ page' = p /\ query' = token
  /\ auth' = Fresh /\ login' = NewLogin /\ requests' = NoRequests /\ messages' = <<>>
  /\ UNCHANGED <<storage, history, popup, bounds>>

Reload(p) == Load(p, None)

Redirected(token) ==
  real /\ Cardinality(history) < MaxRedirects /\ Load("dashboard", token)

-----------------------------------------------------------------------------
(* The login page *)

\* Mutant: the modal is not part of the login page.
OpenMockAnywhere(mounted) ==
  /\ SetMode("mock")
  /\ login' = [login EXCEPT !.mock = TRUE]

OpenMock(mounted) ==
  /\ SetMode("mock")
  /\ login' = [login EXCEPT !.mock = mounted \/ @]

ClickMock ==
  /\ page = "login" /\ auth.ready
  /\ OpenMock(TRUE)
  /\ UNCHANGED <<browser, requests, popup, messages, bounds>>

\* startLogin, up to its await: from the option or from `Retry' in the banner
StartLogin ==
  /\ page = "login" /\ auth.ready /\ attempts < MaxAttempts
  /\ attempts' = attempts + 1
  /\ SetMode("eid")
  /\ login' = [login EXCEPT !.aborted = FALSE]
  /\ requests' = [requests EXCEPT !.initiate = @ \union {attempts'}]
  /\ UNCHANGED <<browser, popup, messages, real, faults>>

Mounted(k) == k \in requests.initiate

Answered(k) ==
  /\ k \in requests.initiate \union requests.orphaned
  /\ requests' = [requests EXCEPT !.initiate = @ \ {k}, !.orphaned = @ \ {k}]

\* The mock form; or the fetch throws.
InitiateMock(k) ==
  /\ Answered(k) /\ Needs(~ real)
  /\ OpenMock(Mounted(k))
  /\ UNCHANGED <<browser, popup, messages, real, attempts>>

\* window.open: the name finds a window that is still open.
Opened == [window |-> IF popup.open THEN popup.window ELSE popup.window + 1, open |-> TRUE]

\* Mutant: one interval at a time, also when its window is closed already.
InitiatePopupOnce(k) ==
  /\ Answered(k) /\ Needs(real)
  /\ popup' = Opened
  /\ login' = IF ~ Mounted(k) \/ popup.window > 0 THEN login
              ELSE [login EXCEPT !.polls = @ \union {<<k, popup'.window>>}]
  /\ UNCHANGED <<storage, auth, browser, messages, real, attempts>>

\* A redirect the fetch does not follow; or an error of the backend.
InitiatePopup(k) ==
  /\ Answered(k) /\ Needs(real)
  /\ popup' = Opened
  /\ login' = IF Mounted(k) THEN [login EXCEPT !.polls = @ \union {<<k, popup'.window>>}]
                            ELSE login
  /\ UNCHANGED <<storage, auth, browser, messages, real, attempts>>

\* The browser blocks the window, which is opened after an await: no interval, no
\* banner.  A window with this name that is open is found, not opened.
PopupBlocked(k) ==
  /\ Answered(k) /\ Needs(real)
  /\ ~ popup.open
  /\ login' = IF Mounted(k) THEN [login EXCEPT !.blocked = @ \union {k}] ELSE login
  /\ UNCHANGED <<storage, auth, browser, popup, messages, real, attempts>>

Closed(window) == window < popup.window \/ ~ popup.open

\* The interval of a closed popup.  `poll' is a variable of the rendering: a later
\* click on the same rendering has overwritten it, and its interval is cleared.
Tick(i) ==
  /\ i \in login.polls /\ Closed(i[2])
  /\ \E j \in login.polls :
       /\ j[1] >= i[1]
       /\ login' = [login EXCEPT !.aborted = TRUE, !.polls = @ \ {j}]
  /\ UNCHANGED <<storage, auth, browser, requests, popup, messages, bounds>>

-----------------------------------------------------------------------------
(* callback.tsx in the popup.  The answer of a real login says nothing of        *)
(* eligibility.                                                                 *)

PopupAnswers(u) ==
  /\ popup.open /\ real
  /\ messages' = Append(messages, [user |-> u, elig |-> FALSE])
  /\ popup' = [popup EXCEPT !.open = FALSE]
  /\ UNCHANGED <<storage, auth, browser, login, requests, bounds>>

PopupFails ==
  /\ popup.open /\ real /\ Fault
  /\ messages' = Append(messages, None)
  /\ popup' = [popup EXCEPT !.open = FALSE]
  /\ UNCHANGED <<storage, auth, browser, login, requests, real, attempts>>

\* The user closes it.  A popup that lost its opener shows /login until then.
ClosePopup ==
  /\ popup.open
  /\ popup' = [popup EXCEPT !.open = FALSE]
  /\ UNCHANGED <<storage, auth, browser, login, requests, messages, bounds>>

-----------------------------------------------------------------------------
(* MockLoginModal *)

MockSubmit(u) ==
  /\ login.mock
  /\ requests' = [requests EXCEPT !.mock = @ \union {u}]
  /\ UNCHANGED <<storage, auth, browser, login, popup, messages, bounds>>

\* The answer may find the modal closed, or its page left.
MockAnswer(u) ==
  /\ u \in requests.mock /\ ~ real
  /\ LogIn([user |-> u, elig |-> TRUE], "mock")
  /\ requests' = [Orphaned(requests) EXCEPT !.mock = @ \ {u}]
  /\ UNCHANGED <<history, popup, messages, bounds>>

\* 400 where the login is not mocked; or no answer.
MockRefused(u) ==
  /\ u \in requests.mock /\ Needs(real)
  /\ requests' = [requests EXCEPT !.mock = @ \ {u}]
  /\ UNCHANGED <<storage, auth, browser, login, popup, messages, real, attempts>>

\* Cancel, Escape, a click beside the dialog
MockCancel ==
  /\ login.mock
  /\ login' = [login EXCEPT !.mock = FALSE]
  /\ UNCHANGED <<storage, auth, browser, requests, popup, messages, bounds>>

-----------------------------------------------------------------------------
User ==
  \/ Logout \/ ToggleMode \/ ClickMock \/ StartLogin \/ MockCancel
  \/ \E p \in PageNames : Follow(p) \/ Reload(p)
  \/ \E token \in Tokens : Redirected(token)
  \/ \E token \in history : Back(token)
  \/ \E u \in Users : MockSubmit(u)

Initiated == \E k \in Attempts : InitiateMock(k) \/ InitiatePopup(k) \/ PopupBlocked(k)

PopupEnds == ClosePopup \/ PopupFails \/ \E u \in Users : PopupAnswers(u)

Ticks == \E i \in login.polls : Tick(i)

Next ==
  \/ User \/ Mount \/ QueryLogin \/ Deliver \/ MessageLost
  \/ SentToLogin \/ SentToDashboard \/ Initiated \/ PopupEnds \/ Ticks
  \/ \E u \in Users : MockAnswer(u) \/ MockRefused(u)

\* The tab runs its effects, handlers and intervals, requests end, and nobody leaves
\* the popup open for ever.
Fairness ==
  /\ WF_vars(Mount) /\ WF_vars(QueryLogin) /\ WF_vars(Deliver)
  /\ WF_vars(SentToLogin) /\ WF_vars(SentToDashboard)
  /\ WF_vars(Initiated) /\ WF_vars(PopupEnds) /\ WF_vars(Ticks)

Spec == Init /\ [][Next]_vars /\ Fairness

-----------------------------------------------------------------------------
(***************************************************************************)
(* Properties                                                              *)
(***************************************************************************)

\* State, storage and the login page are what the code can make them.
TypeOK ==
  /\ real \in BOOLEAN
  /\ storage \in [token : Tokens \union {None}, elig : BOOLEAN, mode : Modes]
  /\ auth \in [token : Tokens \union {None}, elig : BOOLEAN, mode : Modes, ready : BOOLEAN]
  /\ page \in PageNames
  /\ query \in Tokens \union {None} /\ history \subseteq Tokens
  /\ login \in LoginState
  /\ page # "login" => login = NewLogin
  /\ requests \in [initiate : SUBSET Attempts, orphaned : SUBSET Attempts, mock : SUBSET Users]
  /\ popup \in [window : 0 .. MaxAttempts, open : BOOLEAN]
  /\ messages \in Seq(Tokens \union {None})

\* Once the state is loaded it is what a reload would load: a session survives
\* one, a logged-out tab has none left in storage, and the page shows the same,
\* whatever popups, redirects and answers of a modal arrived in between.
SessionSurvivesReload ==
  auth.ready =>
    /\ IF auth.token = None THEN storage.token = None ELSE storage = Session(auth)
    /\ Shown(page, auth) = Shown(page, [Restored(Fresh) EXCEPT !.ready = TRUE])

\* The eligibility a page acts on was issued with the token it sends, although the
\* logins of two users overlap: a popup of one and a modal or redirect of another.
EligibilityOfToken ==
  /\ auth.elig = (auth.token # None /\ auth.token.elig)
  /\ storage.elig = (storage.token # None /\ storage.token.elig)

\* A user with a session in storage is not sent to the login page: what a guarded
\* page shows before the storage is read is not an answer.
SessionIsNotDropped ==
  [][page # "login" /\ page' = "login" /\ storage.token # None
       => \/ storage'.token = None
          \/ auth'.token # None
          \/ auth.ready /\ ~ auth'.ready]_vars   \* a document loaded at /login

\* What a user who is on the login page can see of a flow that has ended
Told == auth.token # None \/ login.aborted \/ login.mock

\* uiux_pbis.md, UX-12: who starts the eID login and closes the popup is told so.
\* A flow ends in a session, in the banner, in the modal, or the user has left.  The
\* exception is a popup the browser has blocked, of which the page says nothing: then
\* it is that click's, and no other flow ends so.
FlowsEnd ==
  \A k \in Attempts :
    k \in requests.initiate ~>
      (Told \/ page # "login" \/ ~ auth.ready \/ k \in login.blocked)
=============================================================================
