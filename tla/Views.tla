------------------------------- MODULE Views -------------------------------
(***************************************************************************)
(* Who reads the mirror: the relay's WebSocket server, the chart that      *)
(* listens to it (pages/solana.tsx), and the results page of an election   *)
(* (pages/elections/[id]/results.tsx), which asks a Solana node itself.    *)
(*                                                                         *)
(* The relay writes the account of a block, the results page reads the     *)
(* account of the election's metadata: two hashes, two addresses.  So no   *)
(* instruction changes an account a results page listens to, it is there   *)
(* or not from the start, and its votes are zero.                          *)
(*                                                                         *)
(* Left out: the pause before a reconnection, and the pings and pongs.     *)
(***************************************************************************)
EXTENDS Naturals, Sequences, FiniteSets

CONSTANTS
  Elections,
  Charts,        \* tabs that show solana.tsx
  Tabs,          \* tabs that show results.tsx
  None,
  Keys, Pdas, Signers, NoSigner, Relayer, Premade, Values, NoValue,
  MetaPda,       \* election -> address derived from its metadata's hash
  BlockPda,      \* election -> address derived from the block of its tally
  MaxVisits,     \* bound: pages opened in one tab
  MaxSockets,    \* bound: sockets of one tab that do anything
  MaxFaults      \* bound: restarts of the relay, broken connections, failing calls

ASSUME ViewsAssumption ==
  /\ MetaPda \in [Elections -> Pdas] /\ BlockPda \in [Elections -> Pdas]
  /\ \A e, f \in Elections : MetaPda[e] # BlockPda[f]
  /\ None \notin Elections \union Pdas \union Values \union {NoValue}
  /\ NoValue \notin Values   \* a tally is told apart from what an account is created with
  /\ Relayer \in Signers
  /\ {MaxVisits, MaxSockets, MaxFaults} \subseteq Nat

VARIABLES
  mirror,      \* accounts of the Solana program
  up,          \* the relay runs
  latest,      \* its latestElectionPDA
  streams,     \* its intervals: <<tab, number of the socket>>
  sockets,     \* per chart, the sockets the page has made; `ws' is the last
  charts,      \* per chart, what the component shows
  results,     \* per tab, the results page
  listeners,   \* the Solana node's onAccountChange subscriptions
  visits, faults

INSTANCE ElectionMirror

relayVars == <<up, latest, streams>>
chartVars == <<sockets, charts>>
resultVars == <<results, listeners>>
bounds == <<visits, faults>>
vars == <<mirror, relayVars, chartVars, resultVars, bounds>>

\* wired: its handlers are set; inbox: what the relay has sent
Socket == [state : {"connecting", "open", "closing", "closed"}, wired : BOOLEAN,
           inbox : Values \union {NoValue, None}]

Chart == [on : BOOLEAN, votes : Values \union {NoValue}, error : BOOLEAN]

\* page: the election in the route; data: the one SWR has answered for
\* asked: accounts getAccountInfo was called for
Result == [page : Elections \union {None}, data : Elections \union {None},
           failed : BOOLEAN, asked : SUBSET Pdas, loading : BOOLEAN,
           error : {"none", "missing", "unreachable"}]

NoChart == [on |-> FALSE, votes |-> NoValue, error |-> FALSE]

NoResult == [page |-> None, data |-> None, failed |-> FALSE, asked |-> {},
             loading |-> TRUE, error |-> "none"]

Init ==
  /\ MirrorInit
  /\ up = TRUE /\ latest = None /\ streams = {}
  /\ sockets = [c \in Charts |-> <<>>]
  /\ charts = [c \in Charts |-> NoChart]
  /\ results = [t \in Tabs |-> NoResult]
  /\ listeners = {}
  /\ visits = [t \in Charts \union Tabs |-> 0]
  /\ faults = 0

Fault == faults < MaxFaults /\ faults' = faults + 1
Visit(t) == visits[t] < MaxVisits /\ visits' = [visits EXCEPT ![t] = @ + 1]

-----------------------------------------------------------------------------
(* The relay *)

\* Mutant: latestElectionPDA is set before the transaction is confirmed.
BridgedEarly(e, v) ==
  /\ up
  /\ SetTally(Relayer, BlockPda[e], v) \/ UNCHANGED mirror
  /\ latest' = BlockPda[e]
  /\ UNCHANGED <<up, streams, chartVars, resultVars, bounds>>

\* bridgeTally, when it returns
Bridged(e, v) ==
  /\ up
  /\ SetTally(Relayer, BlockPda[e], v)
  /\ latest' = BlockPda[e]
  /\ UNCHANGED <<up, streams, chartVars, resultVars, bounds>>

OtherWallets == /\ MirrorUse
                /\ UNCHANGED <<relayVars, chartVars, resultVars, bounds>>

\* wss.on('connection'): an interval for the socket
Accept(c, k) ==
  /\ up /\ k \in DOMAIN sockets[c] /\ sockets[c][k].state = "connecting"
  /\ sockets' = [sockets EXCEPT ![c][k].state = "open"]
  /\ streams' = streams \union {<<c, k>>}
  /\ UNCHANGED <<mirror, up, latest, charts, resultVars, bounds>>

\* The interval: fetch the account and send its votes.
Stream(c, k) ==
  /\ <<c, k>> \in streams /\ sockets[c][k].state = "open" /\ sockets[c][k].inbox = None
  /\ latest # None /\ mirror[latest] # Absent
  /\ sockets' = [sockets EXCEPT ![c][k].inbox = mirror[latest].votes]
  /\ UNCHANGED <<mirror, relayVars, charts, resultVars, bounds>>

\* ws.on('close'): clearInterval
HangUp(c, k) ==
  /\ <<c, k>> \in streams /\ sockets[c][k].state = "closed"
  /\ streams' = streams \ {<<c, k>>}
  /\ UNCHANGED <<mirror, up, latest, chartVars, resultVars, bounds>>

-----------------------------------------------------------------------------
(* connectWithRetry *)

New(wired) == [state |-> "connecting", wired |-> wired, inbox |-> None]

\* check, and connect: a new `ws', with handlers.
Check(made) == IF made[Len(made)].state = "closed" THEN Append(made, New(TRUE)) ELSE made

\* Socket k has closed: onclose calls check after a while, if the handler is set.
Ended(c, k) ==
  LET made == [sockets[c] EXCEPT ![k].state = "closed", ![k].inbox = None] IN
  IF charts[c].on /\ sockets[c][k].wired THEN Check(made) ELSE made

\* onerror
Alarmed(c, k) == [charts[c] EXCEPT !.error = @ \/ (charts[c].on /\ sockets[c][k].wired)]

\* The effect: a socket without handlers, and the first check.
OpenChart(c) ==
  /\ ~ charts[c].on /\ Visit(c)
  /\ charts' = [charts EXCEPT ![c] = [NoChart EXCEPT !.on = TRUE]]
  /\ sockets' = [sockets EXCEPT ![c] = Check(Append(@, New(FALSE)))]
  /\ UNCHANGED <<mirror, relayVars, resultVars, faults>>

\* The cleanup: onclose is taken off `ws', which is closed.
LeaveChart(c) ==
  /\ charts[c].on
  /\ charts' = [charts EXCEPT ![c] = NoChart]
  /\ sockets' = [sockets EXCEPT ![c][Len(sockets[c])].state = IF @ = "closed" THEN @ ELSE "closing"]
  /\ UNCHANGED <<mirror, relayVars, resultVars, bounds>>

\* onmessage
Message(c, k) ==
  /\ k \in DOMAIN sockets[c] /\ sockets[c][k].inbox # None
  /\ sockets' = [sockets EXCEPT ![c][k].inbox = None]
  /\ charts' = IF charts[c].on /\ sockets[c][k].wired
               THEN [charts EXCEPT ![c].votes = sockets[c][k].inbox] ELSE charts
  /\ UNCHANGED <<mirror, relayVars, resultVars, bounds>>

\* The closing handshake
Closed(c, k) ==
  /\ k \in DOMAIN sockets[c] /\ sockets[c][k].state = "closing"
  /\ sockets' = [sockets EXCEPT ![c] = Ended(c, k)]
  /\ UNCHANGED <<mirror, relayVars, charts, resultVars, bounds>>

\* Nobody answers, or the connection breaks.
Broken(c, k) ==
  /\ k \in DOMAIN sockets[c]
  /\ \/ sockets[c][k].state = "connecting" /\ ~ up /\ UNCHANGED faults
     \/ sockets[c][k].state \in {"connecting", "open"} /\ up /\ Fault
  /\ sockets' = [sockets EXCEPT ![c] = Ended(c, k)]
  /\ charts' = [charts EXCEPT ![c] = Alarmed(c, k)]
  /\ UNCHANGED <<mirror, relayVars, resultVars, visits>>

\* The relay's process ends, with its memory, its intervals and its connections.
RelayDown ==
  /\ up /\ Fault
  /\ up' = FALSE /\ latest' = None /\ streams' = {}
  /\ sockets' = [c \in Charts |->
       LET open == {k \in DOMAIN sockets[c] : sockets[c][k].state = "open"} IN
       IF open = {} THEN sockets[c] ELSE Ended(c, CHOOSE k \in open : TRUE)]
  /\ UNCHANGED <<mirror, charts, resultVars, visits>>

RelayUp ==
  /\ ~ up
  /\ up' = TRUE
  /\ UNCHANGED <<mirror, latest, streams, chartVars, resultVars, bounds>>

-----------------------------------------------------------------------------
(* The results page *)

Mine(t) == {l \in listeners : l[1] = t}

\* Opened from the page of an election, or left for any other page.
OpenResults(t, e) ==
  /\ results[t].page = None /\ Visit(t)
  /\ results' = [results EXCEPT ![t] = [NoResult EXCEPT !.page = e]]
  /\ UNCHANGED <<mirror, relayVars, chartVars, listeners, faults>>

\* Mutant: the effect returns no cleanup.
LeaveResultsListening(t) ==
  /\ results[t].page # None
  /\ results' = [results EXCEPT ![t] = NoResult]
  /\ UNCHANGED <<mirror, relayVars, chartVars, listeners, bounds>>

LeaveResults(t) ==
  /\ results[t].page # None
  /\ results' = [results EXCEPT ![t] = NoResult]
  /\ listeners' = listeners \ Mine(t)
  /\ UNCHANGED <<mirror, relayVars, chartVars, bounds>>

\* Through the history to the results of another election: the component stays, with
\* its state and its requests, while SWR has no data for the new key.
OtherResults(t, e) ==
  /\ results[t].page \notin {None, e} /\ Visit(t)
  /\ results' = [results EXCEPT ![t].page = e, ![t].data = None, ![t].failed = FALSE]
  /\ listeners' = listeners \ Mine(t)
  /\ UNCHANGED <<mirror, relayVars, chartVars, faults>>

\* SWR has the record, for the first time or another one: the effect asks for the
\* account and listens to it.
Loaded(t) ==
  LET pda == MetaPda[results[t].page] IN
  /\ results[t].page # None
  /\ IF results[t].data = None THEN UNCHANGED faults ELSE Fault
  /\ results' = [results EXCEPT ![t].data = results[t].page, ![t].failed = FALSE,
                                ![t].asked = @ \union {pda}]
  /\ listeners' = (listeners \ Mine(t)) \union {<<t, pda>>}
  /\ UNCHANGED <<mirror, relayVars, chartVars, visits>>

\* "Failed to load election"; SWR keeps what it has and tries again.
LoadFails(t) ==
  /\ results[t].page # None
  /\ Fault
  /\ results' = [results EXCEPT ![t].failed = TRUE]
  /\ UNCHANGED <<mirror, relayVars, chartVars, listeners, visits>>

\* fetchInitial: getAccountInfo answers for the account it was asked for.
Fetched(t, pda) ==
  /\ pda \in results[t].asked
  /\ results' = [results EXCEPT ![t].asked = @ \ {pda}, ![t].loading = FALSE,
                   ![t].error = IF mirror[pda] = Absent THEN "missing" ELSE "none"]
  /\ UNCHANGED <<mirror, relayVars, chartVars, listeners, bounds>>

\* Mutant: `setLoading(false)' ends the try block.
FetchFailsLoading(t, pda) ==
  /\ pda \in results[t].asked /\ Fault
  /\ results' = [results EXCEPT ![t].asked = @ \ {pda}, ![t].error = "unreachable"]
  /\ UNCHANGED <<mirror, relayVars, chartVars, listeners, visits>>

\* fetchInitial, the catch
FetchFails(t, pda) ==
  /\ pda \in results[t].asked /\ Fault
  /\ results' = [results EXCEPT ![t].asked = @ \ {pda}, ![t].loading = FALSE,
                   ![t].error = "unreachable"]
  /\ UNCHANGED <<mirror, relayVars, chartVars, listeners, visits>>

-----------------------------------------------------------------------------
SocketIds == Charts \X (1 .. MaxSockets)

ChartStep(c, k) == Accept(c, k) \/ Stream(c, k) \/ HangUp(c, k) \/ Message(c, k) \/ Closed(c, k)

ResultStep(t) == (results[t].data = None /\ Loaded(t)) \/ \E pda \in Pdas : Fetched(t, pda)

Next ==
  \/ OtherWallets \/ RelayDown \/ RelayUp
  \/ \E e \in Elections, v \in Values : Bridged(e, v)
  \/ \E c \in Charts : OpenChart(c) \/ LeaveChart(c)
  \/ \E s \in SocketIds : ChartStep(s[1], s[2]) \/ Broken(s[1], s[2])
  \/ \E t \in Tabs :
       \/ LeaveResults(t) \/ Loaded(t) \/ LoadFails(t)
       \/ \E e \in Elections : OpenResults(t, e) \/ OtherResults(t, e)
       \/ \E pda \in Pdas : Fetched(t, pda) \/ FetchFails(t, pda)

\* The relay is restarted, serves its clients and sees them go, and requests end.
Fairness ==
  /\ WF_vars(RelayUp)
  /\ \A s \in SocketIds :
       /\ WF_vars(Accept(s[1], s[2])) /\ WF_vars(Stream(s[1], s[2]))
       /\ WF_vars(HangUp(s[1], s[2])) /\ WF_vars(Message(s[1], s[2]))
       /\ WF_vars(Closed(s[1], s[2]))
  /\ \A t \in Tabs : WF_vars(ResultStep(t))

Spec == Init /\ [][Next]_vars /\ Fairness

-----------------------------------------------------------------------------
(***************************************************************************)
(* Properties                                                              *)
(***************************************************************************)

\* The relay, the sockets and the pages are what the code can make them, and what
\* was streamed and not read yet is a final tally.
TypeOK ==
  /\ MirrorTypeOK
  /\ up \in BOOLEAN /\ latest \in Pdas \union {None} /\ streams \subseteq SocketIds
  /\ sockets \in [Charts -> Seq(Socket)]
  /\ \A c \in Charts, s \in streams : s[1] = c => s[2] \in DOMAIN sockets[c]
  /\ charts \in [Charts -> Chart] /\ results \in [Tabs -> Result]
  /\ \A c \in Charts : \A k \in DOMAIN sockets[c] : sockets[c][k].inbox # NoValue

\* Pages hold what they use and no more: a chart has at most one live socket, a left one
\* none, a results page listens to the account of the election it has data for, and
\* to nothing before, after, or once the route has changed.
PagesHoldOneConnection ==
  /\ \A c \in Charts :
       LET live == {k \in DOMAIN sockets[c] : sockets[c][k].state \in {"connecting", "open"}}
       IN Cardinality(live) <= IF charts[c].on THEN 1 ELSE 0
  /\ listeners = {<<t, MetaPda[results[t].data]>> : t \in {u \in Tabs : results[u].data # None}}

\* A results page does not load for ever, whatever fails and wherever the user goes
\* meanwhile, and the relay stops streaming to a page that was left.
ViewsSettle ==
  /\ \A t \in Tabs :
       results[t].page # None ~> (results[t].page = None \/ ~ results[t].loading)
  /\ \A s \in SocketIds :
       (s \in streams /\ ~ charts[s[1]].on) ~> (s \notin streams)
=============================================================================
