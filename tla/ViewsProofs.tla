----------------------------- MODULE ViewsProofs -----------------------------
(***************************************************************************)
(* Proofs about the views of the mirror, for any charts, tabs, elections   *)
(* and accounts.  The invariant has a part for each of them: the account   *)
(* the relay streams is written, a chart's live socket is its last one and *)
(* the page is there, and the listeners are those of the data shown.       *)
(***************************************************************************)
EXTENDS Views, SequenceTheorems, FiniteSetTheorems, TLAPS

\* What the relay streams was written, and stays.
MirrorPart ==
  /\ MirrorTypeOK
  /\ latest \in Pdas \union {None}
  /\ latest # None => mirror[latest].finalised /\ mirror[latest].votes \in Values

Live(socket) == socket.state \in {"connecting", "open"}

\* The sockets a page has made, and the page
ChartOK(made, chart) ==
  /\ made \in Seq(Socket) /\ chart \in Chart
  /\ chart.on => made # <<>>
  /\ \A k \in DOMAIN made :
       /\ made[k].inbox # NoValue
       /\ Live(made[k]) => chart.on /\ k = Len(made)

ChartPart ==
  /\ up \in BOOLEAN
  /\ streams \subseteq SocketIds
  /\ \A s \in streams : s[2] \in DOMAIN sockets[s[1]]
  /\ sockets \in [Charts -> Seq(Socket)] /\ charts \in [Charts -> Chart]
  /\ \A c \in Charts : ChartOK(sockets[c], charts[c])

\* The listeners of the data a tab shows
ListenersOf(t) == IF results[t].data = None THEN {} ELSE {<<t, MetaPda[results[t].data]>>}

ResultPart ==
  /\ results \in [Tabs -> Result]
  /\ \A t \in Tabs : results[t].data \in {None, results[t].page}
  /\ \A l \in listeners : l = <<l[1], l[2]>> /\ l[1] \in Tabs
  /\ \A t \in Tabs : Mine(t) = ListenersOf(t)

IInv == MirrorPart /\ ChartPart /\ ResultPart

-----------------------------------------------------------------------------
(* The mirror *)

\* A written account is not written again, whoever signs.
LEMMA WrittenStays ==
  ASSUME MirrorTypeOK, NEW a \in Addresses, mirror[a].finalised, mirror[a].votes \in Values,
         MirrorUse
  PROVE  mirror'[a] = mirror[a]
<1>1. mirror[a] # Absent
  BY DEF Absent, Fresh
<1>2. ASSUME NEW s \in Signers, NEW b \in Keys, Initialise(s, b)
      PROVE  mirror'[a] = mirror[a]
  BY <1>1, <1>2 DEF Initialise, MirrorTypeOK
<1>3. ASSUME NEW s \in Signers, NEW b \in Addresses, NEW v \in Values, SetTally(s, b, v)
      PROVE  mirror'[a] = mirror[a]
  BY <1>3 DEF SetTally, CanSetTally, MirrorTypeOK
<1> QED
  BY <1>2, <1>3 DEF MirrorUse, Others

\* An instruction keeps the types of the accounts.
LEMMA MirrorUseType ==
  ASSUME MirrorTypeOK, MirrorUse
  PROVE  MirrorTypeOK'
<1>1. ASSUME NEW s \in Signers, NEW a \in Keys, Initialise(s, a)
      PROVE  MirrorTypeOK'
  BY <1>1 DEF MirrorTypeOK, Initialise, Account, Fresh, Addresses
<1>2. ASSUME NEW s \in Signers, NEW a \in Addresses, NEW v \in Values, SetTally(s, a, v)
      PROVE  MirrorTypeOK'
  BY <1>2 DEF MirrorTypeOK, SetTally, Account
<1> QED
  BY <1>1, <1>2 DEF MirrorUse, Others

\* Every step keeps the part of the mirror.
LEMMA StepMirror == IInv /\ [Next]_vars => MirrorPart'
<1> SUFFICES ASSUME IInv, [Next]_vars PROVE MirrorPart'
  OBVIOUS
<1>1. /\ MirrorPart /\ Pdas \subseteq Addresses /\ None \notin Pdas /\ BlockPda \in [Elections -> Pdas]
  BY ViewsAssumption DEF IInv, Addresses
<1>2. CASE UNCHANGED <<mirror, latest>>
  BY <1>1, <1>2 DEF MirrorPart, MirrorTypeOK
<1>3. CASE UNCHANGED mirror /\ latest' = None
  BY <1>1, <1>3 DEF MirrorPart, MirrorTypeOK
<1>4. CASE OtherWallets
  <2>1. MirrorTypeOK' /\ latest' = latest
    BY <1>1, <1>4, MirrorUseType DEF OtherWallets, MirrorPart, relayVars
  <2>2. latest # None => mirror'[latest] = mirror[latest]
    BY <1>1, <1>4, WrittenStays DEF OtherWallets, MirrorPart
  <2> QED
    BY <1>1, <2>1, <2>2 DEF MirrorPart
<1>5. ASSUME NEW e \in Elections, NEW v \in Values, Bridged(e, v)
      PROVE  MirrorPart'
  <2> DEFINE a == BlockPda[e]
  <2>1. a \in Pdas /\ a \in Addresses
    BY <1>1
  <2> HIDE DEF a
  <2>2. latest' = a /\ mirror' = [mirror EXCEPT ![a].votes = v, ![a].finalised = TRUE]
    BY <1>5 DEF Bridged, SetTally, a
  <2>3. MirrorTypeOK' /\ mirror'[a].finalised /\ mirror'[a].votes = v
    BY <1>1, <2>1, <2>2 DEF MirrorPart, MirrorTypeOK, Account
  <2> QED
    BY <2>1, <2>2, <2>3 DEF MirrorPart
<1>6. CASE RelayDown
  BY <1>3, <1>6 DEF RelayDown
<1>7. ASSUME NEW c \in Charts, OpenChart(c) \/ LeaveChart(c)
      PROVE  MirrorPart'
  BY <1>2, <1>7 DEF OpenChart, LeaveChart, relayVars
<1>8. ASSUME NEW s \in SocketIds, ChartStep(s[1], s[2]) \/ Broken(s[1], s[2])
      PROVE  MirrorPart'
  BY <1>2, <1>8
  DEF ChartStep, Accept, Stream, HangUp, Message, Closed, Broken, relayVars
<1>9. ASSUME NEW t \in Tabs, LeaveResults(t) \/ Loaded(t) \/ LoadFails(t)
      PROVE  MirrorPart'
  BY <1>2, <1>9 DEF LeaveResults, Loaded, LoadFails, relayVars
<1>10. ASSUME NEW t \in Tabs, NEW e \in Elections, OpenResults(t, e) \/ OtherResults(t, e)
       PROVE  MirrorPart'
  BY <1>2, <1>10 DEF OpenResults, OtherResults, relayVars
<1>11. ASSUME NEW t \in Tabs, NEW pda \in Pdas, Fetched(t, pda) \/ FetchFails(t, pda)
       PROVE  MirrorPart'
  BY <1>2, <1>11 DEF Fetched, FetchFails, relayVars
<1>12. CASE RelayUp \/ UNCHANGED vars
  BY <1>2, <1>12 DEF RelayUp, relayVars, vars
<1> QED
  BY <1>4, <1>5, <1>6, <1>7, <1>8, <1>9, <1>10, <1>11, <1>12 DEF Next

-----------------------------------------------------------------------------
(* Sockets *)

\* One socket changes, and does not come alive.
LEMMA PutSocket ==
  ASSUME NEW made, NEW chart, ChartOK(made, chart), NEW k \in DOMAIN made, NEW x \in Socket,
         x.inbox # NoValue, Live(x) => Live(made[k])
  PROVE  /\ ChartOK([made EXCEPT ![k] = x], chart)
         /\ Len([made EXCEPT ![k] = x]) = Len(made)
         /\ DOMAIN [made EXCEPT ![k] = x] = DOMAIN made
         /\ [made EXCEPT ![k] = x] # <<>>
<1> DEFINE new == [made EXCEPT ![k] = x]
<1>1. made \in Seq(Socket) /\ k \in 1 .. Len(made) /\ DOMAIN made = 1 .. Len(made)
  BY LenProperties DEF ChartOK
<1>2. /\ new \in Seq(Socket) /\ Len(new) = Len(made)
      /\ \A j \in 1 .. Len(made) : new[j] = IF j = k THEN x ELSE made[j]
  BY <1>1, ExceptSeq
<1> HIDE DEF new
<1>3. DOMAIN new = 1 .. Len(made) /\ new # <<>>
  BY <1>1, <1>2, LenProperties, EmptySeq
<1>4. ChartOK(new, chart)
  BY <1>1, <1>2, <1>3 DEF ChartOK
<1> QED
  BY <1>1, <1>2, <1>3, <1>4 DEF new

\* A new socket, made when none is alive
LEMMA NewSocket ==
  ASSUME NEW made \in Seq(Socket), NEW chart \in Chart, chart.on, NEW x \in Socket,
         x.inbox # NoValue,
         \A k \in DOMAIN made : made[k].inbox # NoValue /\ ~ Live(made[k])
  PROVE  /\ ChartOK(Append(made, x), chart)
         /\ DOMAIN made \subseteq DOMAIN Append(made, x)
<1> DEFINE new == Append(made, x)
<1>1. made \in Seq(Socket) /\ DOMAIN made = 1 .. Len(made) /\ Len(made) \in Nat
  BY LenProperties
<1>2. /\ new \in Seq(Socket) /\ Len(new) = Len(made) + 1 /\ new[Len(made) + 1] = x
      /\ \A j \in 1 .. Len(made) : new[j] = made[j]
      /\ DOMAIN new = 1 .. Len(made) + 1 /\ new # <<>>
  BY <1>1, AppendProperties, LenProperties, EmptySeq
<1> HIDE DEF new
<1>3. ASSUME NEW k \in DOMAIN new
      PROVE  new[k].inbox # NoValue /\ (Live(new[k]) => k = Len(new))
  <2>1. CASE k = Len(made) + 1
    BY <1>2, <2>1
  <2>2. CASE k \in 1 .. Len(made)
    BY <1>1, <1>2, <2>2
  <2> QED
    BY <1>1, <1>2, <2>1, <2>2
<1>4. ChartOK(new, chart)
  BY <1>2, <1>3 DEF ChartOK
<1>5. DOMAIN made \subseteq DOMAIN new
  BY <1>1, <1>2
<1> QED
  BY <1>4, <1>5 DEF new

\* A socket that was just made
LEMMA NewTypes ==
  \A wired \in BOOLEAN : /\ New(wired) \in Socket /\ New(wired).inbox # NoValue
                         /\ New(wired).state = "connecting"
<1>1. NoValue # None
  BY ViewsAssumption
<1> QED
  BY <1>1 DEF New, Socket

\* A socket that has closed is replaced only if it was the live one, or none is.
LEMMA EndedOK ==
  ASSUME NEW c \in Charts, ChartOK(sockets[c], charts[c]), NEW k \in DOMAIN sockets[c]
  PROVE  ChartOK(Ended(c, k), charts[c]) /\ DOMAIN sockets[c] \subseteq DOMAIN Ended(c, k)
<1> DEFINE x == [sockets[c][k] EXCEPT !.state = "closed", !.inbox = None]
           made == [sockets[c] EXCEPT ![k] = x]
<1>1. sockets[c] \in Seq(Socket) /\ sockets[c][k] \in Socket /\ NoValue # None
  BY ElementOfSeq, LenProperties, ViewsAssumption DEF ChartOK
<1>2. x \in Socket /\ x.state = "closed" /\ x.inbox = None
  BY <1>1 DEF Socket
<1>3. [sockets[c] EXCEPT ![k].state = "closed", ![k].inbox = None] = made
  BY <1>1, ElementOfSeq, LenProperties
<1> HIDE DEF x
<1>4. /\ ChartOK(made, charts[c]) /\ Len(made) = Len(sockets[c])
      /\ DOMAIN made = DOMAIN sockets[c] /\ made # <<>>
  BY <1>1, <1>2, PutSocket DEF Live
<1>5. Ended(c, k) = IF charts[c].on /\ sockets[c][k].wired THEN Check(made) ELSE made
  BY <1>3 DEF Ended
<1> HIDE DEF made
<1>6. CASE Ended(c, k) = made
  BY <1>4, <1>6
<1>7. CASE charts[c].on /\ made[Len(made)].state = "closed" /\ Ended(c, k) = Append(made, New(TRUE))
  <2>1. /\ made \in Seq(Socket) /\ charts[c] \in Chart
        /\ \A j \in DOMAIN made : made[j].inbox # NoValue /\ ~ Live(made[j])
    BY <1>4, <1>7 DEF ChartOK, Live
  <2>2. New(TRUE) \in Socket /\ New(TRUE).inbox # NoValue
    BY NewTypes
  <2> QED
    BY <1>4, <1>7, <2>1, <2>2, NewSocket
<1> QED
  BY <1>5, <1>6, <1>7 DEF Check

-----------------------------------------------------------------------------
(* Charts *)

\* A step of one chart and its sockets
LEMMA OneChart ==
  ASSUME ChartPart, NEW c \in Charts, NEW made, NEW chart, ChartOK(made, chart),
         DOMAIN sockets[c] \subseteq DOMAIN made,
         sockets' = [sockets EXCEPT ![c] = made], charts' = [charts EXCEPT ![c] = chart],
         up' = up, streams' \subseteq streams
  PROVE  ChartPart'
<1>1. made \in Seq(Socket) /\ chart \in Chart
  BY DEF ChartOK
<1>2. /\ sockets' \in [Charts -> Seq(Socket)] /\ charts' \in [Charts -> Chart]
      /\ sockets'[c] = made /\ charts'[c] = chart
      /\ \A d \in Charts \ {c} : sockets'[d] = sockets[d] /\ charts'[d] = charts[d]
  BY <1>1 DEF ChartPart
<1>3. ASSUME NEW s \in streams' PROVE s[1] \in Charts /\ s[2] \in DOMAIN sockets'[s[1]]
  BY <1>2, <1>3 DEF ChartPart, SocketIds
<1>4. \A d \in Charts : ChartOK(sockets'[d], charts'[d])
  BY <1>2 DEF ChartPart
<1> QED
  BY <1>2, <1>3, <1>4 DEF ChartPart

\* What is asked of the page is that it is there.
LEMMA SameOn ==
  ASSUME NEW made, NEW chart, ChartOK(made, chart), NEW new \in Chart, new.on = chart.on
  PROVE  ChartOK(made, new)
BY DEF ChartOK

\* A socket's state and inbox change; the chart stays.
LEMMA OneSocket ==
  ASSUME ChartPart, NEW c \in Charts, NEW k \in DOMAIN sockets[c], NEW x \in Socket,
         x.inbox # NoValue, Live(x) => Live(sockets[c][k]),
         sockets' = [sockets EXCEPT ![c][k] = x],
         NEW new \in Chart, new.on = charts[c].on, charts' = [charts EXCEPT ![c] = new],
         up' = up, streams' = streams
  PROVE  ChartPart'
<1> DEFINE made == [sockets[c] EXCEPT ![k] = x]
<1>1. ChartOK(sockets[c], charts[c])
  BY DEF ChartPart
<1>2. ChartOK(made, charts[c]) /\ DOMAIN made = DOMAIN sockets[c]
  BY <1>1, PutSocket
<1>3. sockets' = [sockets EXCEPT ![c] = made]
  OBVIOUS
<1> HIDE DEF made
<1>4. ChartOK(made, new)
  BY <1>2, SameOn
<1> QED
  BY <1>2, <1>3, <1>4, OneChart

\* What is known of a socket that a tab has
LEMMA SocketFacts ==
  ASSUME ChartPart, NEW c \in Charts, NEW k \in DOMAIN sockets[c]
  PROVE  /\ sockets[c][k] \in Socket /\ charts[c] \in Chart
         /\ sockets[c] \in Seq(Socket) /\ ChartOK(sockets[c], charts[c])
         /\ charts = [charts EXCEPT ![c] = charts[c]]
         /\ sockets[c][k].inbox # NoValue
BY ElementOfSeq, LenProperties DEF ChartPart, ChartOK

\* The relay accepts a connection and starts an interval for it.
LEMMA AcceptKeeps ==
  ASSUME ChartPart, NEW c \in Charts, NEW k, <<c, k>> \in SocketIds, Accept(c, k)
  PROVE  ChartPart'
<1> DEFINE x == [sockets[c][k] EXCEPT !.state = "open"]
           made == [sockets[c] EXCEPT ![k] = x]
<1>1. /\ k \in DOMAIN sockets[c] /\ sockets[c][k].state = "connecting"
      /\ sockets' = [sockets EXCEPT ![c] = made] /\ streams' = streams \union {<<c, k>>}
      /\ UNCHANGED <<up, charts>>
  BY DEF Accept
<1>2. x \in Socket /\ x.inbox # NoValue /\ Live(sockets[c][k])
  BY <1>1, SocketFacts DEF Socket, Live
<1> HIDE DEF x
<1>3. ChartOK(made, charts[c]) /\ DOMAIN made = DOMAIN sockets[c]
  BY <1>1, <1>2, SocketFacts, PutSocket
<1> HIDE DEF made
<1>4. /\ sockets' \in [Charts -> Seq(Socket)] /\ sockets'[c] = made
      /\ \A d \in Charts \ {c} : sockets'[d] = sockets[d]
  BY <1>1, <1>3 DEF ChartPart, ChartOK
<1>5. ASSUME NEW s \in streams' PROVE s[1] \in Charts /\ s[2] \in DOMAIN sockets'[s[1]]
  <2>1. CASE s \in streams
    BY <1>3, <1>4, <2>1 DEF ChartPart, SocketIds
  <2>2. CASE s = <<c, k>>
    BY <1>1, <1>3, <1>4, <2>2
  <2> QED
    BY <1>1, <1>5, <2>1, <2>2
<1> QED
  BY <1>1, <1>3, <1>4, <1>5 DEF ChartPart

\* An interval sends the votes of an account that was written.
LEMMA StreamKeeps ==
  ASSUME ChartPart, MirrorPart, NEW c \in Charts, NEW k, Stream(c, k)
  PROVE  ChartPart'
<1>1. k \in DOMAIN sockets[c]
  BY DEF Stream, ChartPart
<1> DEFINE v == mirror[latest].votes
           x == [sockets[c][k] EXCEPT !.inbox = v]
<1>2. v \in Values /\ v # NoValue
  BY ViewsAssumption DEF MirrorPart, Stream
<1> HIDE DEF v
<1>3. x \in Socket /\ x.inbox # NoValue /\ x.state = sockets[c][k].state
  BY <1>1, <1>2, SocketFacts DEF Socket
<1>4. sockets' = [sockets EXCEPT ![c][k] = x] /\ UNCHANGED <<up, streams, charts>>
  BY DEF Stream, relayVars, v
<1> HIDE DEF x
<1> QED
  BY <1>1, <1>3, <1>4, SocketFacts, OneSocket DEF Live

\* The page, if it is still there, shows what it was sent.
LEMMA MessageKeeps ==
  ASSUME ChartPart, NEW c \in Charts, NEW k, Message(c, k)
  PROVE  ChartPart'
<1>1. k \in DOMAIN sockets[c] /\ sockets[c][k].inbox # None /\ UNCHANGED <<up, streams>>
  BY DEF Message, relayVars
<1> DEFINE x == [sockets[c][k] EXCEPT !.inbox = None]
<1>2. x \in Socket /\ x.inbox # NoValue /\ x.state = sockets[c][k].state
  BY <1>1, ViewsAssumption, SocketFacts DEF Socket
<1>3. sockets' = [sockets EXCEPT ![c][k] = x]
  BY DEF Message
<1> HIDE DEF x
<1>4. sockets[c][k].inbox \in Values \union {NoValue}
  BY <1>1, SocketFacts DEF Socket
<1> DEFINE new == [charts[c] EXCEPT !.votes = sockets[c][k].inbox]
<1>5. new \in Chart /\ new.on = charts[c].on
  BY <1>1, <1>4, SocketFacts DEF Chart
<1>6. charts' = [charts EXCEPT ![c] = new] \/ charts' = charts
  BY DEF Message
<1> HIDE DEF new
<1> QED
  BY <1>1, <1>2, <1>3, <1>5, <1>6, SocketFacts, OneSocket DEF Live

\* A socket has closed, and check may make another.
LEMMA ClosedKeeps ==
  ASSUME ChartPart, NEW c \in Charts, NEW k, Closed(c, k) \/ Broken(c, k)
  PROVE  ChartPart'
<1>1. /\ k \in DOMAIN sockets[c] /\ UNCHANGED <<up, streams>>
      /\ sockets' = [sockets EXCEPT ![c] = Ended(c, k)]
      /\ charts' = charts \/ charts' = [charts EXCEPT ![c] = Alarmed(c, k)]
  BY DEF Closed, Broken, relayVars
<1>2. ChartOK(Ended(c, k), charts[c]) /\ DOMAIN sockets[c] \subseteq DOMAIN Ended(c, k)
  BY <1>1, SocketFacts, EndedOK
<1>3. Alarmed(c, k) \in Chart /\ Alarmed(c, k).on = charts[c].on
  BY <1>1, SocketFacts DEF Alarmed, Chart, Socket
<1>4. ChartOK(Ended(c, k), Alarmed(c, k))
  BY <1>2, <1>3, SameOn
<1> QED
  BY <1>1, <1>2, <1>4, SocketFacts, OneChart

\* A page is opened: nothing was alive in the tab.
LEMMA OpenKeeps ==
  ASSUME ChartPart, NEW c \in Charts, OpenChart(c)
  PROVE  ChartPart'
<1> DEFINE x == New(FALSE)
           made == Append(sockets[c], x)
           chart == [NoChart EXCEPT !.on = TRUE]
<1>1. /\ ~ charts[c].on /\ charts' = [charts EXCEPT ![c] = chart]
      /\ sockets' = [sockets EXCEPT ![c] = Check(made)] /\ UNCHANGED <<up, streams>>
  BY DEF OpenChart, relayVars
<1>2. x \in Socket /\ x.inbox # NoValue /\ x.state = "connecting"
  BY NewTypes
<1>3. chart \in Chart /\ chart.on
  BY DEF Chart, NoChart
<1>4. /\ sockets[c] \in Seq(Socket)
      /\ \A k \in DOMAIN sockets[c] : sockets[c][k].inbox # NoValue /\ ~ Live(sockets[c][k])
  BY <1>1 DEF ChartPart, ChartOK
<1> HIDE DEF x, chart
<1>5. ChartOK(made, chart) /\ DOMAIN sockets[c] \subseteq DOMAIN made
  BY <1>2, <1>3, <1>4, NewSocket
<1>6. made[Len(made)] = x
  BY <1>2, <1>4, AppendProperties, LenProperties
<1> HIDE DEF made
<1>7. Check(made) = made
  BY <1>2, <1>6 DEF Check
<1> QED
  BY <1>1, <1>5, <1>7, OneChart

\* A page is left: its last socket, the only one that can be alive, is closed.
LEMMA LeaveKeeps ==
  ASSUME ChartPart, NEW c \in Charts, LeaveChart(c)
  PROVE  ChartPart'
<1> DEFINE n == Len(sockets[c])
           x == [sockets[c][n] EXCEPT !.state = IF @ = "closed" THEN @ ELSE "closing"]
           made == [sockets[c] EXCEPT ![n] = x]
<1>1. /\ charts[c].on /\ charts' = [charts EXCEPT ![c] = NoChart]
      /\ sockets' = [sockets EXCEPT ![c] = made] /\ UNCHANGED <<up, streams>>
  BY DEF LeaveChart, relayVars
<1>2. n \in DOMAIN sockets[c]
  BY <1>1, LenProperties, EmptySeq DEF ChartPart, ChartOK
<1>3. x \in Socket /\ x.inbox = sockets[c][n].inbox /\ ~ Live(x)
  BY <1>2, SocketFacts DEF Socket, Live
<1> HIDE DEF x
<1>4. /\ ChartOK(made, charts[c]) /\ DOMAIN made = DOMAIN sockets[c]
      /\ Len(made) = n /\ made[n] = x
  BY <1>2, <1>3, SocketFacts, PutSocket
<1> HIDE DEF made
<1>5. NoChart \in Chart /\ ~ NoChart.on
  BY DEF Chart, NoChart
<1>6. ChartOK(made, NoChart)
  BY <1>3, <1>4, <1>5 DEF ChartOK
<1> QED
  BY <1>1, <1>4, <1>6, OneChart

\* The relay goes down: every tab loses its open socket.
LEMMA RelayDownKeeps ==
  ASSUME ChartPart, RelayDown
  PROVE  ChartPart'
<1>1. /\ up' = FALSE /\ streams' = {} /\ charts' = charts
      /\ sockets' = [c \in Charts |->
           LET open == {k \in DOMAIN sockets[c] : sockets[c][k].state = "open"} IN
           IF open = {} THEN sockets[c] ELSE Ended(c, CHOOSE k \in open : TRUE)]
  BY DEF RelayDown
<1>2. ASSUME NEW c \in Charts PROVE ChartOK(sockets'[c], charts[c])
  <2> DEFINE open == {k \in DOMAIN sockets[c] : sockets[c][k].state = "open"}
  <2>1. ChartOK(sockets[c], charts[c])
    BY DEF ChartPart
  <2>2. CASE open = {}
    BY <1>1, <2>1, <2>2
  <2>3. CASE open # {}
    <3> DEFINE k == CHOOSE i \in open : TRUE
    <3>1. k \in DOMAIN sockets[c] /\ sockets'[c] = Ended(c, k)
      BY <1>1, <2>3
    <3> HIDE DEF k
    <3> QED
      BY <2>1, <3>1, EndedOK
  <2> QED
    BY <2>2, <2>3
<1>3. /\ sockets' \in [Charts -> Seq(Socket)] /\ charts' \in [Charts -> Chart]
  <2>1. \A c \in Charts : sockets'[c] \in Seq(Socket)
    BY <1>2 DEF ChartOK
  <2> QED
    BY <1>1, <2>1 DEF ChartPart
<1> QED
  BY <1>1, <1>2, <1>3 DEF ChartPart

\* Every step keeps the part of the charts.
LEMMA StepCharts == IInv /\ [Next]_vars => ChartPart'
<1> SUFFICES ASSUME IInv, [Next]_vars PROVE ChartPart'
  OBVIOUS
<1>1. ChartPart /\ MirrorPart
  BY DEF IInv
<1>2. CASE UNCHANGED <<up, streams, chartVars>>
  BY <1>1, <1>2 DEF ChartPart, chartVars
<1>3. CASE OtherWallets \/ UNCHANGED vars
  BY <1>2, <1>3 DEF OtherWallets, relayVars, vars
<1>4. ASSUME NEW e \in Elections, NEW v \in Values, Bridged(e, v)
      PROVE  ChartPart'
  BY <1>2, <1>4 DEF Bridged
<1>5. CASE RelayDown
  BY <1>1, <1>5, RelayDownKeeps
<1>6. CASE RelayUp
  BY <1>1, <1>6 DEF RelayUp, ChartPart, chartVars
<1>7. ASSUME NEW c \in Charts, OpenChart(c) \/ LeaveChart(c)
      PROVE  ChartPart'
  BY <1>1, <1>7, OpenKeeps, LeaveKeeps
<1>8. ASSUME NEW s \in SocketIds, ChartStep(s[1], s[2]) \/ Broken(s[1], s[2])
      PROVE  ChartPart'
  <2>1. s[1] \in Charts /\ <<s[1], s[2]>> \in SocketIds
    BY DEF SocketIds
  <2>2. CASE HangUp(s[1], s[2])
    BY <1>1, <2>2 DEF HangUp, ChartPart, chartVars
  <2> QED
    BY <1>1, <1>8, <2>1, <2>2, AcceptKeeps, StreamKeeps, MessageKeeps, ClosedKeeps DEF ChartStep
<1>9. ASSUME NEW t \in Tabs, LeaveResults(t) \/ Loaded(t) \/ LoadFails(t)
      PROVE  ChartPart'
  BY <1>2, <1>9 DEF LeaveResults, Loaded, LoadFails, relayVars
<1>10. ASSUME NEW t \in Tabs, NEW e \in Elections, OpenResults(t, e) \/ OtherResults(t, e)
       PROVE  ChartPart'
  BY <1>2, <1>10 DEF OpenResults, OtherResults, relayVars
<1>11. ASSUME NEW t \in Tabs, NEW pda \in Pdas, Fetched(t, pda) \/ FetchFails(t, pda)
       PROVE  ChartPart'
  BY <1>2, <1>11 DEF Fetched, FetchFails, relayVars
<1> QED
  BY <1>3, <1>4, <1>5, <1>6, <1>7, <1>8, <1>9, <1>10, <1>11 DEF Next

-----------------------------------------------------------------------------
(* Results pages *)

\* What a results page with this data listens to
Heard(t, data) == IF data = None THEN {} ELSE {<<t, MetaPda[data]>>}

\* A step of one tab: it drops what it listened to, and listens for the data it has.
LEMMA OneTab ==
  ASSUME ResultPart, NEW t \in Tabs, NEW new \in Result,
         new.data \in {None, new.page}, results' = [results EXCEPT ![t] = new],
         listeners' = (listeners \ Mine(t)) \union Heard(t, new.data)
  PROVE  ResultPart'
<1>1. /\ results' \in [Tabs -> Result] /\ results'[t] = new
      /\ \A u \in Tabs \ {t} : results'[u] = results[u]
  BY DEF ResultPart
<1>2. \A l \in Heard(t, new.data) : l = <<l[1], l[2]>> /\ l[1] = t
  BY DEF Heard
<1>3. \A l \in listeners' : l = <<l[1], l[2]>> /\ l[1] \in Tabs
  BY <1>2 DEF ResultPart
<1>4. Mine(t)' = ListenersOf(t)'
  <2>1. \A l : l \in Mine(t)' <=> l \in Heard(t, new.data)
    BY <1>2 DEF Mine
  <2> QED
    BY <1>1, <2>1 DEF Heard, ListenersOf
<1>5. ASSUME NEW u \in Tabs \ {t} PROVE Mine(u)' = ListenersOf(u)'
  <2>1. \A l : l \in Mine(u)' <=> l \in Mine(u)
    BY <1>2 DEF Mine
  <2>2. Mine(u) = ListenersOf(u)
    BY DEF ResultPart
  <2> QED
    BY <1>1, <2>1, <2>2 DEF ListenersOf
<1> QED
  BY <1>1, <1>3, <1>4, <1>5 DEF ResultPart

\* A tab whose data stays goes on listening.
LEMMA SameData ==
  ASSUME ResultPart, NEW t \in Tabs, NEW new \in Result, new.data = results[t].data,
         new.data \in {None, new.page},
         results' = [results EXCEPT ![t] = new], listeners' = listeners
  PROVE  ResultPart'
<1>1. Mine(t) = Heard(t, new.data)
  BY DEF ResultPart, ListenersOf, Heard
<1>2. listeners' = (listeners \ Mine(t)) \union Mine(t)
  BY DEF Mine
<1>3. listeners' = (listeners \ Mine(t)) \union Heard(t, new.data)
  BY <1>1, <1>2
<1> QED
  BY <1>3, OneTab

\* A page of an election is opened, another one, or none.
LEMMA PageKeeps ==
  ASSUME ResultPart, NEW t \in Tabs, NEW e,
         (e \in Elections /\ (OpenResults(t, e) \/ OtherResults(t, e))) \/ LeaveResults(t)
  PROVE  ResultPart'
<1>1. /\ results[t] \in Result /\ results[t].data \in {None, results[t].page}
      /\ NoResult \in Result /\ NoResult.data = None
  BY DEF ResultPart, Result, NoResult
<1>2. CASE e \in Elections /\ OpenResults(t, e)
  <2> DEFINE new == [NoResult EXCEPT !.page = e]
  <2>1. results' = [results EXCEPT ![t] = new] /\ listeners' = listeners
    BY <1>2 DEF OpenResults
  <2>2. new \in Result /\ new.data = None
    BY <1>1, <1>2 DEF Result, NoResult
  <2> HIDE DEF new
  <2>3. results[t].data = None
    BY <1>1, <1>2 DEF OpenResults
  <2> QED
    BY <2>1, <2>2, <2>3, SameData
<1>3. CASE e \in Elections /\ OtherResults(t, e)
  <2> DEFINE new == [results[t] EXCEPT !.page = e, !.data = None, !.failed = FALSE]
  <2>1. results' = [results EXCEPT ![t] = new] /\ listeners' = listeners \ Mine(t)
    BY <1>3 DEF OtherResults
  <2>2. new \in Result /\ new.data = None
    BY <1>1, <1>3 DEF Result
  <2> HIDE DEF new
  <2>3. listeners' = (listeners \ Mine(t)) \union Heard(t, new.data)
    BY <2>1, <2>2 DEF Heard
  <2> QED
    BY <2>1, <2>2, <2>3, OneTab
<1>4. CASE LeaveResults(t)
  <2>1. results' = [results EXCEPT ![t] = NoResult] /\ listeners' = listeners \ Mine(t)
    BY <1>4 DEF LeaveResults
  <2>2. listeners' = (listeners \ Mine(t)) \union Heard(t, NoResult.data)
    BY <1>1, <2>1 DEF Heard
  <2> QED
    BY <1>1, <2>1, <2>2, OneTab
<1> QED
  BY <1>2, <1>3, <1>4

\* A request of a tab is answered, or fails.
LEMMA RequestKeeps ==
  ASSUME ResultPart, NEW t \in Tabs, NEW pda,
         Loaded(t) \/ LoadFails(t) \/ Fetched(t, pda) \/ FetchFails(t, pda)
  PROVE  ResultPart'
<1> DEFINE result == results[t]
<1>1. /\ result \in Result /\ result.data \in {None, result.page}
  BY DEF ResultPart
<1>2. CASE Loaded(t)
  <2> DEFINE account == MetaPda[result.page]
             new == [result EXCEPT !.data = result.page, !.failed = FALSE,
                                   !.asked = @ \union {account}]
  <2>1. /\ result.page \in Elections /\ results' = [results EXCEPT ![t] = new]
        /\ listeners' = (listeners \ Mine(t)) \union {<<t, account>>}
    BY <1>1, <1>2 DEF Loaded, Result
  <2>2. account \in Pdas
    BY <2>1, ViewsAssumption
  <2>3. {<<t, account>>} = Heard(t, result.page)
    BY <2>1, ViewsAssumption DEF Heard
  <2> HIDE DEF account
  <2>4. new \in Result /\ new.data = result.page /\ new.page = result.page
    BY <1>1, <2>1, <2>2 DEF Result
  <2> HIDE DEF new
  <2> QED
    BY <2>1, <2>3, <2>4, OneTab
<1>3. CASE LoadFails(t)
  <2> DEFINE new == [result EXCEPT !.failed = TRUE]
  <2>1. results' = [results EXCEPT ![t] = new] /\ listeners' = listeners
    BY <1>3 DEF LoadFails
  <2>2. new \in Result /\ new.data = result.data /\ new.page = result.page
    BY <1>1 DEF Result
  <2> HIDE DEF new
  <2> QED
    BY <1>1, <2>1, <2>2, SameData
<1>4. ASSUME NEW error \in {"none", "missing", "unreachable"}, listeners' = listeners,
             results' = [results EXCEPT ![t].asked = @ \ {pda}, ![t].loading = FALSE,
                                        ![t].error = error]
      PROVE  ResultPart'
  <2> DEFINE new == [result EXCEPT !.asked = @ \ {pda}, !.loading = FALSE, !.error = error]
  <2>1. results' = [results EXCEPT ![t] = new] /\ listeners' = listeners
    BY <1>4 DEF ResultPart
  <2>2. new \in Result /\ new.data = result.data /\ new.page = result.page
    BY <1>1 DEF Result
  <2> HIDE DEF new
  <2> QED
    BY <1>1, <2>1, <2>2, SameData
<1>5. CASE Fetched(t, pda)
  BY <1>4, <1>5 DEF Fetched
<1>6. CASE FetchFails(t, pda)
  BY <1>4, <1>6 DEF FetchFails
<1> QED
  BY <1>2, <1>3, <1>5, <1>6

\* Every step keeps the part of the results pages.
LEMMA StepResults == IInv /\ [Next]_vars => ResultPart'
<1> SUFFICES ASSUME IInv, [Next]_vars PROVE ResultPart'
  OBVIOUS
<1>1. ResultPart
  BY DEF IInv
<1>2. CASE UNCHANGED resultVars
  BY <1>1, <1>2 DEF ResultPart, resultVars, Mine, ListenersOf
<1>3. CASE OtherWallets \/ RelayDown \/ RelayUp \/ UNCHANGED vars
  BY <1>2, <1>3 DEF OtherWallets, RelayDown, RelayUp, vars
<1>4. ASSUME NEW e \in Elections, NEW v \in Values, Bridged(e, v)
      PROVE  ResultPart'
  BY <1>2, <1>4 DEF Bridged
<1>5. ASSUME NEW c \in Charts, OpenChart(c) \/ LeaveChart(c)
      PROVE  ResultPart'
  BY <1>2, <1>5 DEF OpenChart, LeaveChart
<1>6. ASSUME NEW s \in SocketIds, ChartStep(s[1], s[2]) \/ Broken(s[1], s[2])
      PROVE  ResultPart'
  BY <1>2, <1>6 DEF ChartStep, Accept, Stream, HangUp, Message, Closed, Broken
<1>7. ASSUME NEW t \in Tabs, LeaveResults(t)
      PROVE  ResultPart'
  BY <1>1, <1>7, PageKeeps
<1>8. ASSUME NEW t \in Tabs, Loaded(t) \/ LoadFails(t)
      PROVE  ResultPart'
  BY <1>1, <1>8, RequestKeeps
<1>9. ASSUME NEW t \in Tabs, NEW e \in Elections, OpenResults(t, e) \/ OtherResults(t, e)
      PROVE  ResultPart'
  BY <1>1, <1>9, PageKeeps
<1>10. ASSUME NEW t \in Tabs, NEW pda \in Pdas, Fetched(t, pda) \/ FetchFails(t, pda)
       PROVE  ResultPart'
  BY <1>1, <1>10, RequestKeeps
<1> QED
  BY <1>3, <1>4, <1>5, <1>6, <1>7, <1>8, <1>9, <1>10 DEF Next

-----------------------------------------------------------------------------
(* The invariant and what follows from it *)

\* Nobody has opened a page yet.
LEMMA InitIInv == Init => IInv
<1> SUFFICES ASSUME Init PROVE IInv
  OBVIOUS
<1>1. MirrorPart
  BY ViewsAssumption
  DEF Init, MirrorInit, MirrorPart, MirrorTypeOK, Account, Absent, Fresh
<1>2. ChartPart
  <2>1. <<>> \in Seq(Socket) /\ DOMAIN <<>> = {} /\ NoChart \in Chart /\ ~ NoChart.on
    BY EmptySeq DEF NoChart, Chart
  <2>2. ChartOK(<<>>, NoChart)
    BY <2>1 DEF ChartOK
  <2> QED
    BY <2>1, <2>2 DEF Init, ChartPart
<1>3. ResultPart
  BY DEF Init, ResultPart, Result, NoResult, Mine, ListenersOf
<1> QED
  BY <1>1, <1>2, <1>3 DEF IInv

\* Every step keeps the invariant.
LEMMA StepIInv == IInv /\ [Next]_vars => IInv'
BY StepMirror, StepCharts, StepResults DEF IInv

\* The relay streams a written account, a chart's live socket is its last, and each
\* results page listens for the data it shows: in every reachable state.
THEOREM Invariance == Spec => []IInv
  BY InitIInv, StepIInv, PTL DEF Spec

\* The relay, sockets and pages are what the code can make them; no page is sent the
\* votes of an account nobody wrote (the interval of the relay's WebSocket server).
THEOREM TypeCorrect == Spec => []TypeOK
<1>1. IInv => TypeOK
  BY DEF IInv, MirrorPart, ChartPart, ResultPart, ChartOK, TypeOK
<1> QED
  BY <1>1, Invariance, PTL

\* A chart has at most one live socket, a left one none, and the listeners are those
\* of the data the results pages show: neither connectWithRetry nor a results page
\* leaks a connection, whatever fails and wherever the user goes meanwhile.
THEOREM OneConnection == Spec => []PagesHoldOneConnection
<1>1. ASSUME IInv, NEW c \in Charts
      PROVE  LET live == {k \in DOMAIN sockets[c] : sockets[c][k].state \in {"connecting", "open"}}
             IN Cardinality(live) <= IF charts[c].on THEN 1 ELSE 0
  <2> DEFINE n == Len(sockets[c])
             live == {k \in DOMAIN sockets[c] : sockets[c][k].state \in {"connecting", "open"}}
  <2>1. \A k \in live : charts[c].on /\ k = n
    BY <1>1 DEF IInv, ChartPart, ChartOK, Live
  <2> HIDE DEF live, n
  <2>2. CASE charts[c].on
    <3>1. live \in SUBSET {n}
      BY <2>1
    <3>2. IsFiniteSet({n}) /\ Cardinality({n}) = 1
      BY FS_Singleton
    <3>3. Cardinality(live) <= 1
      BY <3>1, <3>2, FS_Subset
    <3> QED
      BY <2>2, <3>3 DEF live
  <2>3. CASE ~ charts[c].on
    <3>1. live = {}
      BY <2>1, <2>3
    <3>2. Cardinality(live) = 0
      BY <3>1, FS_EmptySet
    <3> QED
      BY <2>3, <3>2 DEF live
  <2> QED
    BY <2>2, <2>3
<1>2. ASSUME IInv
      PROVE  listeners = {<<t, MetaPda[results[t].data]>> : t \in {u \in Tabs : results[u].data # None}}
  <2>1. ASSUME NEW l \in listeners
        PROVE  results[l[1]].data # None /\ l[1] \in Tabs /\ l = <<l[1], MetaPda[results[l[1]].data]>>
    <3>1. l[1] \in Tabs /\ l \in ListenersOf(l[1])
      BY <1>2 DEF IInv, ResultPart, Mine
    <3> QED
      BY <3>1 DEF ListenersOf
  <2>2. ASSUME NEW t \in Tabs, results[t].data # None
        PROVE  <<t, MetaPda[results[t].data]>> \in listeners
    BY <1>2, <2>2 DEF IInv, ResultPart, Mine, ListenersOf
  <2> QED
    BY <2>1, <2>2
<1>3. IInv => PagesHoldOneConnection
  BY <1>1, <1>2 DEF PagesHoldOneConnection
<1> QED
  BY <1>3, Invariance, PTL
=============================================================================
