------------------------------ MODULE CliProofs ------------------------------
(***************************************************************************)
(* What holds of live CLI sessions for all keys, tabs and bounds.  The     *)
(* invariant relates three tables: the sessions started, the key that      *)
(* names one of them, and the sockets opened with attach tokens.           *)
(***************************************************************************)
EXTENDS CliSessions, TLAPS

CliRecords ==
  [key : Keys, process : {"running", "dying", "gone"}, listed : BOOLEAN, socket : Nat]

Copies == {"ready", "connecting", "open", "closing", "none"}

Connections == Tabs \X (1 .. 2)

Tokens ==
  [session : Nat, client : Connections, state : {"issued", "used", "void"},
   server : {"none", "open", "closing", "closed"}, winner : Tabs \cup {"none"},
   copy : [Tabs -> Copies]]

TabRecords ==
  [online : BOOLEAN, nth : 1 .. 2, socket : [Ids -> Nat], shown : [Ids -> BOOLEAN]]

TabOK ==
  /\ tab \in [Tabs -> TabRecords]
  /\ \A b \in Tabs : ~tab[b].online => tab[b].nth = 1
  /\ held \in SUBSET Connections

WaitingOK == waiting \in SUBSET [key : Keys, nth : Nat, client : Connections]

(* A process that lives is listed, and so is a session that is attached.   *)
RecordOK(r) ==
  (r.process # "gone" => r.listed) /\ (r.socket # 0 => r.listed)

(* The newest session of key k, or none.                                   *)
Newest(i, k, c) ==
  i # 0 => /\ i \in DOMAIN c /\ c[i].key = k /\ c[i].listed
           /\ \A j \in DOMAIN c : c[j].key = k => j <= i

KeysOK(n, c) == n \in [Keys -> Nat] /\ \A k \in Keys : Newest(n[k], k, c)

SessionsOK(c) ==
  c \in Seq(CliRecords) /\ Len(c) <= MaxStarts /\ \A i \in DOMAIN c : RecordOK(c[i])

SocketsOK(c, t) ==
  \A i \in DOMAIN c : c[i].socket # 0 =>
    /\ c[i].socket \in DOMAIN t
    /\ t[c[i].socket].session = i /\ t[c[i].socket].server = "open"

TokensOK(c, t) == t \in Seq(Tokens) /\ \A u \in DOMAIN t : t[u].session \in DOMAIN c

IInv ==
  /\ TabOK /\ WaitingOK
  /\ SessionsOK(cli) /\ KeysOK(current, cli)
  /\ SocketsOK(cli, tok) /\ TokensOK(cli, tok)
-----------------------------------------------------------------------------
LEMMA MarkStoppedOK ==
  ASSUME NEW r \in CliRecords, RecordOK(r)
  PROVE  /\ MarkStopped(r) \in CliRecords /\ RecordOK(MarkStopped(r))
         /\ MarkStopped(r).key = r.key /\ MarkStopped(r).listed = r.listed
         /\ MarkStopped(r).socket = r.socket
BY DEF MarkStopped, CliRecords, RecordOK

LEMMA DetachedOK ==
  ASSUME NEW r \in CliRecords, RecordOK(r)
  PROVE  /\ Detached(r) \in CliRecords /\ RecordOK(Detached(r))
         /\ Detached(r).key = r.key /\ Detached(r).listed = r.listed
         /\ Detached(r).socket = 0
BY DEF Detached, CliRecords, RecordOK

(* A session that stays listed keeps its key's claim.                      *)
LEMMA RecordChanges ==
  ASSUME NEW c, NEW n, NEW t, SessionsOK(c), KeysOK(n, c), SocketsOK(c, t), TokensOK(c, t),
         NEW i \in DOMAIN c, NEW r \in CliRecords, RecordOK(r), r.key = c[i].key,
         r.socket = 0 \/ r.socket = c[i].socket, r.listed = c[i].listed
  PROVE  LET d == [c EXCEPT ![i] = r] IN
         /\ SessionsOK(d) /\ KeysOK(n, d) /\ SocketsOK(d, t) /\ TokensOK(d, t)
<1> DEFINE d == [c EXCEPT ![i] = r]
<1>1. d \in Seq(CliRecords) /\ Len(d) = Len(c) /\ DOMAIN d = DOMAIN c /\ d[i] = r
      /\ \A j \in DOMAIN c : j # i => d[j] = c[j]
  BY DEF SessionsOK
<1> HIDE DEF d
<1>2. SessionsOK(d)
  BY <1>1 DEF SessionsOK
<1>3. KeysOK(n, d)
  BY <1>1 DEF KeysOK, Newest
<1>4. SocketsOK(d, t)
  BY <1>1 DEF SocketsOK
<1>5. TokensOK(d, t)
  BY <1>1 DEF TokensOK
<1> QED
  BY <1>2, <1>3, <1>4, <1>5 DEF d

(* A token changes, and the sessions attached to it are its own still.     *)
LEMMA TokenChanges ==
  ASSUME NEW c, NEW t, NEW u, SocketsOK(c, t), TokensOK(c, t), u \in Seq(Tokens),
         DOMAIN u = DOMAIN t,
         \A k \in DOMAIN t : u[k].session = t[k].session,
         \A k \in DOMAIN t : t[k].server = "open" /\ u[k].server # "open" =>
                               \A i \in DOMAIN c : c[i].socket # k
  PROVE  SocketsOK(c, u) /\ TokensOK(c, u)
BY DEF SocketsOK, TokensOK

LEMMA TokenOK ==
  ASSUME TabOK, NEW i \in Nat, NEW a \in Connections
  PROVE  Token(i, a) \in Tokens /\ Token(i, a).session = i
BY DEF Token, Tokens, Copies

(* The copies of the tokens in tab b change to those of f.                 *)
LEMMA CopyOK ==
  ASSUME NEW a \in Tokens, NEW b \in Tabs, NEW f \in Copies
  PROVE  LET d == [a EXCEPT !.copy[b] = f] IN
         d \in Tokens /\ d.session = a.session /\ d.server = a.server
BY DEF Tokens
-----------------------------------------------------------------------------
LEMMA InitOK == CliInit => IInv
<1> SUFFICES ASSUME CliInit PROVE IInv
  OBVIOUS
<1>1. NewTab \in TabRecords /\ NewTab.online = TRUE
  BY DEF NewTab, TabRecords
<1>2. TabOK
  BY <1>1 DEF CliInit, TabOK, Connections
<1> QED
  BY <1>2, CliAssumption
     DEF CliInit, IInv, WaitingOK, SessionsOK, KeysOK, Newest, SocketsOK, TokensOK

LEMMA SpawnOK ==
  ASSUME IInv, NEW k \in Keys, NEW a \in Connections, NEW c, SessionsOK(c), KeysOK(current, c),
         SocketsOK(c, tok), TokensOK(c, tok), Spawn(k, a, c)
  PROVE  /\ SessionsOK(cli') /\ KeysOK(current', cli')
         /\ SocketsOK(cli', tok') /\ TokensOK(cli', tok')
<1> DEFINE i == Len(c) + 1
           r == [key |-> k, process |-> "running", listed |-> TRUE, socket |-> 0]
<1>1. /\ i <= MaxStarts /\ cli' = Append(c, r) /\ current' = [current EXCEPT ![k] = i]
      /\ tok' = tok \/ tok' = Append(tok, Token(i, a))
  BY CliAssumption DEF Spawn, SessionsOK
<1>2. r \in CliRecords /\ RecordOK(r)
  BY DEF CliRecords, RecordOK
<1>3. /\ cli' \in Seq(CliRecords) /\ DOMAIN cli' = DOMAIN c \cup {i} /\ Len(cli') = i
      /\ cli'[i] = r /\ \A j \in DOMAIN c : cli'[j] = c[j] /\ j < i
  BY <1>1, <1>2 DEF SessionsOK
<1>4. i \in Nat \ {0}
  BY DEF SessionsOK
<1> HIDE DEF i
<1>5. SessionsOK(cli')
  BY <1>1, <1>2, <1>3 DEF SessionsOK
<1>6. KeysOK(current', cli')
  <2>1. current' \in [Keys -> Nat]
    BY <1>1, <1>4 DEF KeysOK
  <2>2. Newest(i, k, cli')
    BY <1>3, <1>4 DEF Newest
  <2>3. \A l \in Keys \ {k} : Newest(current[l], l, cli')
    BY <1>3 DEF KeysOK, Newest
  <2> QED
    BY <1>1, <2>1, <2>2, <2>3 DEF KeysOK
<1> DEFINE n == Token(i, a)
<1>7. n \in Tokens /\ n.session = i
  BY <1>4, TokenOK DEF IInv
<1>8. tok' = tok \/ tok' = Append(tok, n)
  BY <1>1
<1> HIDE DEF n
<1>9. /\ tok' \in Seq(Tokens) /\ \A u \in DOMAIN tok : u \in DOMAIN tok' /\ tok'[u] = tok[u]
      /\ \A u \in DOMAIN tok' : u \in DOMAIN tok \/ tok'[u] = n
  <2>1. tok \in Seq(Tokens)
    BY DEF TokensOK
  <2> QED
    BY <1>7, <1>8, <2>1
<1>10. TokensOK(cli', tok')
  BY <1>3, <1>7, <1>9 DEF TokensOK
<1>11. SocketsOK(cli', tok')
  BY <1>2, <1>3, <1>9 DEF SocketsOK
<1> QED
  BY <1>5, <1>6, <1>10, <1>11

(* Starts and stops.                                                       *)
LEMMA StartStopOK ==
  ASSUME IInv,
         \/ \E k \in Keys, b \in Tabs : StartSession(k, b)
         \/ \E w \in waiting : StartResumes(w)
         \/ \E i \in Ids : StopSession(i)
  PROVE  IInv'
<1> USE DEF IInv
<1>1. ASSUME NEW i \in DOMAIN cli
      PROVE  LET d == [cli EXCEPT ![i] = MarkStopped(@)] IN
             SessionsOK(d) /\ KeysOK(current, d) /\ SocketsOK(d, tok) /\ TokensOK(d, tok)
  <2>1. cli[i] \in CliRecords /\ RecordOK(cli[i])
    BY DEF SessionsOK
  <2> QED
    BY <2>1, MarkStoppedOK, RecordChanges
<1>2. ASSUME NEW k \in Keys, NEW b \in Tabs, StartSession(k, b)
      PROVE  IInv'
  <2>1. Client(b) \in Connections
    BY <1>2 DEF StartSession, TabOK
  <2>2. CASE current[k] = 0
    <3>1. Spawn(k, Client(b), cli) /\ UNCHANGED <<waiting, tab, held>>
      BY <1>2, <2>2 DEF StartSession
    <3>2. TabOK' /\ WaitingOK'
      BY <3>1 DEF TabOK, WaitingOK
    <3> QED
      BY <2>1, <3>1, <3>2, SpawnOK
  <2>3. CASE current[k] # 0
    <3>1. current[k] \in DOMAIN cli /\ current[k] \in Nat
      BY <2>3 DEF KeysOK, Newest
    <3>2. /\ cli' = [cli EXCEPT ![current[k]] = MarkStopped(@)]
          /\ \E n \in Nat : waiting' = waiting \cup {[key |-> k, nth |-> n, client |-> Client(b)]}
          /\ UNCHANGED <<current, tok, tab, held>>
      BY <1>2, <2>3, CliAssumption DEF StartSession, Ids
    <3>3. TabOK' /\ WaitingOK'
      BY <2>1, <3>2 DEF TabOK, WaitingOK
    <3> QED
      BY <1>1, <3>1, <3>2, <3>3
  <2> QED
    BY <2>2, <2>3
<1>3. ASSUME NEW w \in waiting, StartResumes(w)
      PROVE  IInv'
  <2>1. w.key \in Keys /\ w.client \in Connections
    BY DEF WaitingOK
  <2>2. Spawn(w.key, w.client, cli) \/ UNCHANGED <<cli, current, tok>>
    BY <1>3 DEF StartResumes
  <2>3. TabOK' /\ WaitingOK'
    BY <1>3 DEF StartResumes, TabOK, WaitingOK
  <2>4. CASE UNCHANGED <<cli, current, tok>>
    BY <2>3, <2>4
  <2> QED
    BY <2>1, <2>2, <2>3, <2>4, SpawnOK
<1>4. ASSUME NEW i \in Ids, StopSession(i)
      PROVE  IInv'
  <2>1. i \in DOMAIN cli /\ cli' = [cli EXCEPT ![i] = MarkStopped(@)]
        /\ UNCHANGED <<current, waiting, tok, tab, held>>
    BY <1>4 DEF StopSession
  <2>2. TabOK' /\ WaitingOK'
    BY <2>1 DEF TabOK, WaitingOK
  <2> QED
    BY <1>1, <2>1, <2>2
<1> QED
  BY <1>2, <1>3, <1>4

LEMMA ExitOK ==
  ASSUME IInv, NEW i \in Ids, HandleCliExit(i)
  PROVE  IInv'
<1> USE DEF IInv
<1>1. i \in DOMAIN cli /\ cli[i].process # "gone"
  BY DEF HandleCliExit
<1>2. cli[i] \in CliRecords /\ RecordOK(cli[i])
  BY <1>1 DEF SessionsOK
<1> DEFINE a == Detached(cli[i])
           e == [Detached(cli[i]) EXCEPT !.process = "gone", !.listed = FALSE]
<1>3. a \in CliRecords /\ a.key = cli[i].key /\ a.socket = 0
  BY <1>2, DetachedOK
<1>4. /\ e \in CliRecords /\ e.key = cli[i].key /\ e.socket = 0 /\ ~e.listed
      /\ e.process = "gone"
  BY <1>3 DEF CliRecords
<1>5. RecordOK(e)
  BY <1>4 DEF RecordOK
<1>6. cli[i].listed
  BY <1>1, <1>2 DEF RecordOK
<1>7. cli' = [cli EXCEPT ![i] = e] /\ current' = [current EXCEPT ![cli[i].key] = 0]
  BY <1>6 DEF HandleCliExit, WithoutKey
<1> HIDE DEF e
<1>8. /\ cli' \in Seq(CliRecords) /\ Len(cli') = Len(cli) /\ DOMAIN cli' = DOMAIN cli
      /\ cli'[i] = e /\ \A j \in DOMAIN cli : j # i => cli'[j] = cli[j]
  BY <1>1, <1>4, <1>7 DEF SessionsOK
<1>9. SessionsOK(cli')
  BY <1>5, <1>8 DEF SessionsOK
<1>10. KeysOK(current', cli')
  <2>1. cli[i].key \in Keys
    BY <1>2 DEF CliRecords
  <2>2. ASSUME NEW k \in Keys, k # cli[i].key
        PROVE  Newest(current[k], k, cli')
    BY <1>4, <1>8, <2>2 DEF KeysOK, Newest
  <2>3. Newest(0, cli[i].key, cli')
    BY DEF Newest
  <2>4. current' \in [Keys -> Nat]
    BY <1>7 DEF KeysOK
  <2> QED
    BY <1>7, <2>1, <2>2, <2>3, <2>4 DEF KeysOK
<1>11. SocketsOK(cli', tok) /\ TokensOK(cli', tok)
  BY <1>4, <1>8 DEF SocketsOK, TokensOK
<1>12. UNCHANGED <<waiting, tok, tab, held>>
  BY DEF HandleCliExit
<1> QED
  BY <1>9, <1>10, <1>11, <1>12 DEF TabOK, WaitingOK
-----------------------------------------------------------------------------
(* Tokens of which only the copies in the tabs differ.                     *)
SameTokens(u, t) ==
  /\ u \in Seq(Tokens) /\ DOMAIN u = DOMAIN t
  /\ \A k \in DOMAIN t : u[k].session = t[k].session /\ u[k].server = t[k].server

LEMMA SameTokensOK ==
  ASSUME NEW c, NEW t, NEW u, SocketsOK(c, t), TokensOK(c, t), SameTokens(u, t)
  PROVE  SocketsOK(c, u) /\ TokensOK(c, u)
BY DEF SameTokens, SocketsOK, TokensOK

LEMMA OneCopy ==
  ASSUME NEW t \in Seq(Tokens), NEW k \in DOMAIN t, NEW b \in Tabs, NEW f \in Copies
  PROVE  SameTokens([t EXCEPT ![k].copy[b] = f], t)
<1> DEFINE d == [t[k] EXCEPT !.copy[b] = f]
           u == [t EXCEPT ![k] = d]
<1>1. t[k] \in Tokens
  OBVIOUS
<1>2. d \in Tokens /\ d.session = t[k].session /\ d.server = t[k].server
  BY <1>1, CopyOK
<1> HIDE DEF d
<1>3. SameTokens(u, t)
  BY <1>2 DEF SameTokens
<1> QED
  BY <1>3 DEF d

(* A map over the tokens that changes at most the copies of one tab.       *)
CopiesOf(u, t, b, f) ==
  /\ u = [k \in DOMAIN t |-> u[k]]
  /\ \A k \in DOMAIN t : u[k] = t[k] \/ u[k] = [t[k] EXCEPT !.copy[b] = f]

LEMMA EachCopy ==
  ASSUME NEW t \in Seq(Tokens), NEW b \in Tabs, NEW f \in Copies, NEW u, CopiesOf(u, t, b, f)
  PROVE  SameTokens(u, t)
<1> USE DEF CopiesOf
<1>1. ASSUME NEW k \in DOMAIN t
      PROVE  u[k] \in Tokens /\ u[k].session = t[k].session /\ u[k].server = t[k].server
  <2>1. t[k] \in Tokens
    OBVIOUS
  <2>2. LET d == [t[k] EXCEPT !.copy[b] = f] IN
        d \in Tokens /\ d.session = t[k].session /\ d.server = t[k].server
    BY <2>1, CopyOK
  <2> QED
    BY <2>1, <2>2
<1>2. DOMAIN u = DOMAIN t
  OBVIOUS
<1>3. DOMAIN t = 1 .. Len(t) /\ Len(t) \in Nat
  OBVIOUS
<1>4. u \in Seq(Tokens)
  BY <1>1, <1>3
<1> QED
  BY <1>1, <1>2, <1>4 DEF SameTokens

LEMMA ClosingOK ==
  ASSUME IInv, NEW b \in Tabs, NEW i
  PROVE  SameTokens(Closing(b, i), tok)
<1>1. tok \in Seq(Tokens) /\ "closing" \in Copies
  BY DEF IInv, TokensOK, Copies
<1>2. CopiesOf(Closing(b, i), tok, b, "closing")
  BY DEF Closing, CopiesOf
<1> QED
  BY <1>1, <1>2, EachCopy

LEMMA TabChanges ==
  ASSUME TabOK, NEW b \in Tabs, NEW i \in Ids, NEW t \in Nat, NEW x \in BOOLEAN,
         UNCHANGED held,
         \/ tab' = [tab EXCEPT ![b].socket[i] = t, ![b].shown[i] = x]
         \/ tab' = [tab EXCEPT ![b].shown[i] = x]
  PROVE  TabOK'
<1> DEFINE a == [tab[b] EXCEPT !.shown = [@ EXCEPT ![i] = x]]
           d == [tab[b] EXCEPT !.socket = [@ EXCEPT ![i] = t], !.shown = [@ EXCEPT ![i] = x]]
<1>1. tab[b] \in TabRecords
  BY DEF TabOK
<1>2. /\ [tab[b].socket EXCEPT ![i] = t] \in [Ids -> Nat]
      /\ [tab[b].shown EXCEPT ![i] = x] \in [Ids -> BOOLEAN]
  BY <1>1 DEF TabRecords
<1>3. a \in TabRecords /\ a.online = tab[b].online /\ a.nth = tab[b].nth
  BY <1>1, <1>2 DEF TabRecords
<1>4. d \in TabRecords /\ d.online = tab[b].online /\ d.nth = tab[b].nth
  BY <1>1, <1>2 DEF TabRecords
<1>5. tab' = [tab EXCEPT ![b] = a] \/ tab' = [tab EXCEPT ![b] = d]
  BY <1>1 DEF TabRecords
<1> HIDE DEF a, d
<1> QED
  BY <1>3, <1>4, <1>5 DEF TabOK
-----------------------------------------------------------------------------
(* What the tabs do.                                                       *)
LEMMA TabStepOK ==
  ASSUME IInv, NEW b \in Tabs,
         \/ \E t \in DOMAIN tok : OpenCliSocket(b, t) \/ Connected(b, t) \/ ForgetCliSocket(b, t)
         \/ \E i \in Ids : TabSeesExit(b, i)
         \/ ControlDrops(b) \/ ControlReconnects(b)
  PROVE  IInv'
<1> USE DEF IInv
<1>1. tok \in Seq(Tokens) /\ {"ready", "connecting", "open", "closing", "none"} \subseteq Copies
  BY DEF TokensOK, Copies
<1>2. ASSUME NEW t \in DOMAIN tok
      PROVE  tok[t].session \in Ids /\ t \in Nat
  <2>1. tok[t].session \in DOMAIN cli /\ DOMAIN cli = 1 .. Len(cli)
    BY DEF TokensOK, SessionsOK
  <2>2. Len(cli) \in Nat /\ Len(cli) <= MaxStarts
    BY DEF SessionsOK
  <2>3. tok[t].session \in Ids
    BY <2>1, <2>2, CliAssumption DEF Ids
  <2>4. t \in Nat
    BY <1>1
  <2> QED
    BY <2>3, <2>4
<1>3. ASSUME SameTokens(tok', tok), TabOK', UNCHANGED <<cli, current, waiting>>
      PROVE  IInv'
  BY <1>3, SameTokensOK DEF WaitingOK
<1>4. ASSUME NEW t \in DOMAIN tok, OpenCliSocket(b, t)
      PROVE  IInv'
  <2> DEFINE i == tok[t].session
             c == Closing(b, i)
             x == IF tab[b].socket[i] = 0 THEN tab[b].shown[i] ELSE FALSE
  <2>1. SameTokens(c, tok)
    BY ClosingOK
  <2>2. c \in Seq(Tokens) /\ t \in DOMAIN c
    BY <2>1 DEF SameTokens
  <2>3. SameTokens([c EXCEPT ![t].copy[b] = "connecting"], c)
    BY <1>1, <2>2, OneCopy
  <2>4. tok' = [c EXCEPT ![t].copy[b] = "connecting"] /\ UNCHANGED <<cli, current, waiting, held>>
    BY <1>4 DEF OpenCliSocket
  <2>5. SameTokens(tok', tok)
    BY <2>1, <2>3, <2>4 DEF SameTokens
  <2>6. tab[b] \in TabRecords /\ i \in Ids /\ t \in Nat
    BY <1>2 DEF TabOK
  <2>7. x \in BOOLEAN
    BY <2>6 DEF TabRecords
  <2>8. tab' = [tab EXCEPT ![b].socket[i] = t, ![b].shown[i] = x]
    BY <1>4, <2>6 DEF OpenCliSocket, TabRecords, TabOK
  <2> HIDE DEF i, x
  <2>9. TabOK'
    BY <2>4, <2>6, <2>7, <2>8, TabChanges
  <2> QED
    BY <1>3, <2>4, <2>5, <2>9
<1>5. ASSUME NEW t \in DOMAIN tok, Connected(b, t)
      PROVE  IInv'
  <2>1. SameTokens(tok', tok)
    BY <1>1, <1>5, OneCopy DEF Connected
  <2>2. TabOK'
    BY <1>2, <1>5, TabChanges DEF Connected
  <2> QED
    BY <1>3, <1>5, <2>1, <2>2 DEF Connected
<1>6. ASSUME NEW t \in DOMAIN tok, ForgetCliSocket(b, t)
      PROVE  IInv'
  <2>1. SameTokens(tok', tok)
    BY <1>1, <1>6, OneCopy DEF ForgetCliSocket
  <2>2. TabOK'
    BY <1>2, <1>6, TabChanges DEF ForgetCliSocket
  <2> QED
    BY <1>3, <1>6, <2>1, <2>2 DEF ForgetCliSocket
<1>7. ASSUME NEW i \in Ids, TabSeesExit(b, i)
      PROVE  IInv'
  <2>1. SameTokens(tok', tok)
    BY <1>7, ClosingOK DEF TabSeesExit
  <2>2. TabOK'
    BY <1>7, TabChanges DEF TabSeesExit
  <2> QED
    BY <1>3, <1>7, <2>1, <2>2 DEF TabSeesExit
<1>8. tab[b] \in TabRecords
  BY DEF TabOK
<1>9. CASE ControlDrops(b)
  <2>1. CopiesOf(tok', tok, b, "none")
    BY <1>9 DEF ControlDrops, CopiesOf
  <2>2. SameTokens(tok', tok)
    BY <1>1, <2>1, EachCopy
  <2> DEFINE d == [tab[b] EXCEPT !.online = FALSE]
  <2>3. d \in TabRecords /\ d.nth = 1
    BY <1>8, <1>9 DEF ControlDrops, TabRecords
  <2>4. tab' = [tab EXCEPT ![b] = d] /\ UNCHANGED <<cli, current, waiting, held>>
    BY <1>9 DEF ControlDrops
  <2> HIDE DEF d
  <2>5. TabOK'
    BY <2>3, <2>4 DEF TabOK
  <2> QED
    BY <1>3, <2>2, <2>4, <2>5
<1>10. CASE ControlReconnects(b)
  <2> DEFINE d == [tab[b] EXCEPT !.online = TRUE, !.nth = 2]
  <2>1. tab[b].nth = 1 /\ tab[b].nth + 1 = 2
    BY <1>10 DEF ControlReconnects, TabOK
  <2>2. d \in TabRecords /\ d.online
    <3>1. 2 \in 1 .. 2 /\ TRUE \in BOOLEAN
      OBVIOUS
    <3> QED
      BY <1>8, <3>1 DEF TabRecords
  <2>3. /\ tab' = [tab EXCEPT ![b] = d] /\ held' = held \cup {<<b, 2>>}
        /\ UNCHANGED <<cli, current, waiting, tok>>
    <3>1. [tab[b] EXCEPT !.online = TRUE, !.nth = tab[b].nth + 1] = d
      BY <2>1
    <3>2. tab' = [tab EXCEPT ![b] = [tab[b] EXCEPT !.online = TRUE, !.nth = tab[b].nth + 1]]
      BY <1>10 DEF ControlReconnects
    <3> QED
      BY <1>10, <2>1, <3>1, <3>2 DEF ControlReconnects
  <2> HIDE DEF d
  <2>4. TabOK'
    BY <2>2, <2>3 DEF TabOK, Connections
  <2>5. SameTokens(tok', tok)
    BY <1>1, <2>3 DEF SameTokens
  <2> QED
    BY <1>3, <2>3, <2>4, <2>5
<1> QED
  BY <1>4, <1>5, <1>6, <1>7, <1>9, <1>10
-----------------------------------------------------------------------------
(* What the server does with sockets.                                      *)
LEMMA DetachOK ==
  ASSUME IInv, NEW i \in DOMAIN cli
  PROVE  LET d == [cli EXCEPT ![i] = Detached(@)] IN
         /\ SessionsOK(d) /\ KeysOK(current, d) /\ SocketsOK(d, tok) /\ TokensOK(d, tok)
         /\ DOMAIN d = DOMAIN cli /\ d[i].socket = 0
         /\ \A j \in DOMAIN cli : j # i => d[j] = cli[j]
<1>1. cli[i] \in CliRecords /\ RecordOK(cli[i]) /\ cli \in Seq(CliRecords)
  BY DEF IInv, SessionsOK
<1> DEFINE r == Detached(cli[i])
<1>2. /\ r \in CliRecords /\ RecordOK(r) /\ r.key = cli[i].key /\ r.listed = cli[i].listed
      /\ r.socket = 0
  BY <1>1, DetachedOK
<1> HIDE DEF r
<1>3. LET d == [cli EXCEPT ![i] = r] IN
      /\ SessionsOK(d) /\ KeysOK(current, d) /\ SocketsOK(d, tok) /\ TokensOK(d, tok)
  BY <1>2, RecordChanges DEF IInv
<1>4. LET d == [cli EXCEPT ![i] = r] IN
      /\ DOMAIN d = DOMAIN cli /\ d[i].socket = 0
      /\ \A j \in DOMAIN cli : j # i => d[j] = cli[j]
  BY <1>2
<1>5. [cli EXCEPT ![i] = Detached(@)] = [cli EXCEPT ![i] = r]
  BY DEF r
<1> QED
  BY <1>3, <1>4, <1>5

(* The server's side of socket t changes to s.                             *)
LEMMA ServerChanges ==
  ASSUME NEW u \in Seq(Tokens), NEW t \in DOMAIN u, NEW s \in {"open", "closing", "closed"}
  PROVE  LET d == [u EXCEPT ![t].server = s] IN
         /\ d \in Seq(Tokens) /\ DOMAIN d = DOMAIN u /\ d[t].server = s
         /\ \A k \in DOMAIN u : d[k].session = u[k].session
         /\ \A k \in DOMAIN u : k # t => d[k] = u[k]
<1> DEFINE r == [u[t] EXCEPT !.server = s]
<1>1. u[t] \in Tokens
  OBVIOUS
<1>2. r \in Tokens /\ r.session = u[t].session /\ r.server = s
  BY <1>1 DEF Tokens
<1>3. [u EXCEPT ![t].server = s] = [u EXCEPT ![t] = r]
  OBVIOUS
<1> HIDE DEF r
<1> QED
  BY <1>2, <1>3

LEMMA DetachStepOK ==
  ASSUME IInv, \E i \in Ids : WriteFails(i) \/ CliStale(i)
  PROVE  IInv'
<1> USE DEF IInv
<1>1. ASSUME NEW i \in DOMAIN cli, cli[i].socket # 0, cli' = [cli EXCEPT ![i] = Detached(@)],
             tok' = tok \/ tok' = [tok EXCEPT ![cli[i].socket].server = "closing"],
             UNCHANGED <<current, waiting, tab, held>>
      PROVE  IInv'
  <2>1. SessionsOK(cli') /\ KeysOK(current', cli') /\ SocketsOK(cli', tok) /\ TokensOK(cli', tok)
        /\ DOMAIN cli' = DOMAIN cli /\ cli'[i].socket = 0
        /\ \A j \in DOMAIN cli : j # i => cli'[j] = cli[j]
    BY <1>1, DetachOK
  <2>2. TabOK' /\ WaitingOK'
    BY <1>1 DEF TabOK, WaitingOK
  <2>3. CASE tok' = [tok EXCEPT ![cli[i].socket].server = "closing"]
    <3> DEFINE t == cli[i].socket
    <3>1. t \in DOMAIN tok /\ tok[t].session = i /\ tok \in Seq(Tokens)
      BY <1>1 DEF SocketsOK, TokensOK
    <3> HIDE DEF t
    <3>2. tok' = [tok EXCEPT ![t].server = "closing"]
      BY <2>3 DEF t
    <3>3. /\ tok' \in Seq(Tokens) /\ DOMAIN tok' = DOMAIN tok
          /\ \A k \in DOMAIN tok : tok'[k].session = tok[k].session
          /\ \A k \in DOMAIN tok : k # t => tok'[k] = tok[k]
      BY <3>1, <3>2, ServerChanges
    <3>4. \A j \in DOMAIN cli' : cli'[j].socket # t
      BY <2>1, <3>1 DEF SocketsOK
    <3>5. \A k \in DOMAIN tok : tok[k].server = "open" /\ tok'[k].server # "open" =>
                                 \A j \in DOMAIN cli' : cli'[j].socket # k
      BY <3>3, <3>4
    <3>6. SocketsOK(cli', tok) /\ TokensOK(cli', tok)
      BY <2>1
    <3> HIDE DEF IInv
    <3>7. SocketsOK(cli', tok') /\ TokensOK(cli', tok')
      BY <3>3, <3>5, <3>6, TokenChanges
    <3> QED
      BY <1>1, <2>1, <2>2, <3>7 DEF IInv
  <2> QED
    BY <1>1, <2>1, <2>2, <2>3
<1>2. ASSUME NEW i \in Ids, WriteFails(i)
      PROVE  IInv'
  BY <1>1, <1>2 DEF WriteFails
<1>3. ASSUME NEW i \in Ids, CliStale(i)
      PROVE  IInv'
  BY <1>1, <1>3 DEF CliStale
<1> QED
  BY <1>2, <1>3

LEMMA AttachOK ==
  ASSUME IInv, NEW b \in Tabs, NEW i \in Ids, AttachCli(b, i)
  PROVE  IInv'
<1> USE DEF IInv
<1> DEFINE n == Token(i, Client(b))
<1>1. Client(b) \in Connections /\ i \in DOMAIN cli /\ i \in Nat
  BY DEF AttachCli, TabOK, Ids
<1>2. n \in Tokens /\ n.session = i
  BY <1>1, TokenOK
<1>3. tok' = Append(tok, n) /\ UNCHANGED <<cli, current, waiting, tab, held>>
  BY DEF AttachCli
<1> HIDE DEF n
<1>4. tok \in Seq(Tokens)
  BY DEF TokensOK
<1>5. /\ tok' \in Seq(Tokens) /\ \A u \in DOMAIN tok : u \in DOMAIN tok' /\ tok'[u] = tok[u]
      /\ \A u \in DOMAIN tok' : u \in DOMAIN tok \/ tok'[u] = n
  BY <1>2, <1>3, <1>4
<1>6. TokensOK(cli, tok')
  BY <1>1, <1>2, <1>5 DEF TokensOK
<1>7. SocketsOK(cli, tok')
  BY <1>5 DEF SocketsOK
<1> QED
  BY <1>3, <1>6, <1>7 DEF TabOK, WaitingOK

LEMMA UpgradeOK ==
  ASSUME IInv, NEW b \in Tabs, NEW t \in DOMAIN tok, CliUpgrade(t, b)
  PROVE  IInv'
<1> USE DEF IInv
<1> DEFINE i == tok[t].session
           d == [tok[t] EXCEPT !.state = "used", !.server = "open", !.winner = b]
<1>1. tok \in Seq(Tokens) /\ tok[t] \in Tokens /\ i \in DOMAIN cli /\ t \in Nat \ {0}
  BY DEF TokensOK
<1>2. d \in Tokens /\ d.session = i /\ d.server = "open"
  <2> DEFINE e == [tok[t] EXCEPT !.state = "used", !.server = "open"]
  <2>1. e \in Tokens /\ e.session = i /\ e.server = "open"
    BY <1>1 DEF Tokens
  <2>2. d = [e EXCEPT !.winner = b]
    BY <1>1 DEF Tokens
  <2> HIDE DEF d, e
  <2> QED
    BY <2>1, <2>2 DEF Tokens
<1>3. /\ tok' = [tok EXCEPT ![t] = d]
      /\ cli' = IF cli[i].listed THEN [cli EXCEPT ![i].socket = t] ELSE cli
      /\ UNCHANGED <<current, waiting, tab, held>>
  BY <1>1 DEF CliUpgrade
<1> HIDE DEF d
<1>4. /\ tok' \in Seq(Tokens) /\ DOMAIN tok' = DOMAIN tok /\ tok'[t] = d
      /\ \A k \in DOMAIN tok : k # t => tok'[k] = tok[k]
  BY <1>1, <1>2, <1>3
<1>5. \A k \in DOMAIN tok : tok'[k].session = tok[k].session
  BY <1>2, <1>4
<1>6. \A k \in DOMAIN tok : tok[k].server = "open" => tok'[k].server = "open"
  BY <1>2, <1>4
<1>7. SocketsOK(cli, tok') /\ TokensOK(cli, tok')
  BY <1>4, <1>5, <1>6, TokenChanges
<1>8. TabOK' /\ WaitingOK'
  BY <1>3 DEF TabOK, WaitingOK
<1>9. CASE ~cli[i].listed
  BY <1>3, <1>7, <1>8, <1>9
<1>10. CASE cli[i].listed
  <2> DEFINE r == [cli[i] EXCEPT !.socket = t]
  <2>1. cli[i] \in CliRecords /\ RecordOK(cli[i]) /\ cli \in Seq(CliRecords)
    BY <1>1 DEF SessionsOK
  <2>2. /\ r \in CliRecords /\ r.key = cli[i].key /\ r.listed = cli[i].listed /\ r.socket = t
        /\ r.process = cli[i].process
    BY <1>1, <2>1 DEF CliRecords
  <2>3. RecordOK(r)
    BY <1>10, <2>1, <2>2 DEF RecordOK
  <2>4. cli' = [cli EXCEPT ![i] = r]
    BY <1>3, <1>10
  <2> HIDE DEF r, i
  <2>5. /\ cli' \in Seq(CliRecords) /\ Len(cli') = Len(cli) /\ DOMAIN cli' = DOMAIN cli
        /\ cli'[i] = r /\ \A j \in DOMAIN cli : j # i => cli'[j] = cli[j]
    BY <1>1, <2>1, <2>2, <2>4
  <2>6. SessionsOK(cli')
    BY <2>3, <2>5 DEF SessionsOK
  <2>7. KeysOK(current, cli')
    BY <2>2, <2>5 DEF KeysOK, Newest
  <2>8. SocketsOK(cli', tok')
    BY <1>2, <1>4, <1>7, <2>2, <2>5 DEF SocketsOK
  <2>9. TokensOK(cli', tok')
    BY <1>7, <2>5 DEF TokensOK
  <2> QED
    BY <1>3, <1>8, <2>6, <2>7, <2>8, <2>9
<1> QED
  BY <1>9, <1>10

(* The close handler finds the socket attached to the token's own session. *)
LEMMA SocketClosesOK ==
  ASSUME IInv, NEW t \in DOMAIN tok, CliSocketCloses(t)
  PROVE  IInv'
<1> USE DEF IInv
<1> DEFINE i == tok[t].session
<1>1. tok \in Seq(Tokens) /\ i \in DOMAIN cli
  BY DEF TokensOK
<1>2. tok' = [tok EXCEPT ![t].server = "closed"] /\ UNCHANGED <<current, waiting, tab, held>>
  BY DEF CliSocketCloses
<1>3. cli' = IF cli[i].listed THEN [cli EXCEPT ![i] = Detached(@)] ELSE cli
  BY DEF CliSocketCloses, DetachCli
<1>4. /\ tok' \in Seq(Tokens) /\ DOMAIN tok' = DOMAIN tok
      /\ \A k \in DOMAIN tok : tok'[k].session = tok[k].session
      /\ \A k \in DOMAIN tok : k # t => tok'[k] = tok[k]
  BY <1>1, <1>2, ServerChanges
<1> HIDE DEF i
<1>5. /\ SessionsOK(cli') /\ KeysOK(current, cli') /\ SocketsOK(cli', tok) /\ TokensOK(cli', tok)
      /\ DOMAIN cli' = DOMAIN cli /\ cli'[i].socket = 0
      /\ \A j \in DOMAIN cli : j # i => cli'[j] = cli[j]
  <2>1. CASE cli[i].listed
    BY <1>1, <1>3, <2>1, DetachOK
  <2>2. CASE ~cli[i].listed
    BY <1>1, <1>3, <2>2 DEF SessionsOK, RecordOK
  <2> QED
    BY <2>1, <2>2
<1>6. \A j \in DOMAIN cli' : cli'[j].socket # t
  <2>1. 0 \notin DOMAIN tok
    BY <1>1
  <2>2. ASSUME NEW j \in DOMAIN cli, j # i
        PROVE  cli[j].socket # t
    BY <2>1, <2>2 DEF SocketsOK, i
  <2> QED
    BY <1>5, <2>1, <2>2
<1>7. SocketsOK(cli', tok') /\ TokensOK(cli', tok')
  BY <1>4, <1>5, <1>6, TokenChanges
<1>8. TabOK' /\ WaitingOK'
  BY <1>2 DEF TabOK, WaitingOK
<1> QED
  BY <1>2, <1>5, <1>7, <1>8

(* A token that expires keeps its session and its socket.                  *)
LEMMA ExpiresOK ==
  ASSUME IInv, NEW t \in DOMAIN tok, TokenExpires(t)
  PROVE  IInv'
<1> USE DEF IInv
<1> DEFINE d == [tok[t] EXCEPT !.state = "void"]
<1>1. tok \in Seq(Tokens) /\ tok[t] \in Tokens
  BY DEF TokensOK
<1>2. d \in Tokens /\ d.session = tok[t].session /\ d.server = tok[t].server
  BY <1>1 DEF Tokens
<1>3. tok' = [tok EXCEPT ![t] = d] /\ UNCHANGED <<cli, current, waiting, tab, held>>
  BY <1>1 DEF TokenExpires
<1> HIDE DEF d
<1>4. /\ tok' \in Seq(Tokens) /\ DOMAIN tok' = DOMAIN tok /\ tok'[t] = d
      /\ \A k \in DOMAIN tok : k # t => tok'[k] = tok[k]
  BY <1>1, <1>2, <1>3
<1>5. SocketsOK(cli, tok') /\ TokensOK(cli, tok')
  BY <1>2, <1>4, TokenChanges
<1>6. TabOK' /\ WaitingOK'
  BY <1>3 DEF TabOK, WaitingOK
<1> QED
  BY <1>3, <1>5, <1>6

(* The map over all sessions detaches those of one control connection.     *)
LEMMA DetachClientOK ==
  ASSUME IInv, NEW a \in held, DetachCliClient(a)
  PROVE  IInv'
<1> USE DEF IInv
<1>1. tok \in Seq(Tokens) /\ cli \in Seq(CliRecords) /\ UNCHANGED <<current, waiting, tab>>
  BY DEF TokensOK, SessionsOK, DetachCliClient
<1>2. /\ DOMAIN tok' = DOMAIN tok /\ tok' = [k \in DOMAIN tok |-> tok'[k]]
      /\ \A k \in DOMAIN tok : tok'[k] = tok[k] \/ tok'[k] = [tok[k] EXCEPT !.state = "void"]
  BY DEF DetachCliClient
<1>3. ASSUME NEW k \in DOMAIN tok
      PROVE  /\ tok'[k] \in Tokens /\ tok'[k].session = tok[k].session
             /\ tok'[k].server = tok[k].server
  <2>1. tok[k] \in Tokens
    BY <1>1
  <2> DEFINE v == [tok[k] EXCEPT !.state = "void"]
  <2>2. v \in Tokens /\ v.session = tok[k].session /\ v.server = tok[k].server
    BY <2>1 DEF Tokens
  <2>3. tok'[k] = tok[k] \/ tok'[k] = v
    BY <1>2
  <2> HIDE DEF v
  <2> QED
    BY <2>1, <2>2, <2>3
<1>4. tok' \in Seq(Tokens)
  <2>1. DOMAIN tok = 1 .. Len(tok) /\ Len(tok) \in Nat
    BY <1>1
  <2> QED
    BY <1>2, <1>3, <2>1
<1>5. /\ DOMAIN cli' = DOMAIN cli /\ cli' = [j \in DOMAIN cli |-> cli'[j]]
      /\ \A j \in DOMAIN cli : cli'[j] = cli[j] \/ cli'[j] = Detached(cli[j])
  BY DEF DetachCliClient
<1>6. ASSUME NEW j \in DOMAIN cli
      PROVE  /\ cli'[j] \in CliRecords /\ RecordOK(cli'[j])
             /\ cli'[j].key = cli[j].key /\ cli'[j].listed = cli[j].listed
             /\ cli'[j].socket = 0 \/ cli'[j].socket = cli[j].socket
  <2>1. cli[j] \in CliRecords /\ RecordOK(cli[j])
    BY <1>1 DEF SessionsOK
  <2> QED
    BY <1>5, <2>1, DetachedOK
<1>7. cli' \in Seq(CliRecords) /\ Len(cli') = Len(cli)
  <2>1. DOMAIN cli = 1 .. Len(cli) /\ Len(cli) \in Nat
    BY <1>1
  <2> QED
    BY <1>5, <1>6, <2>1
<1>8. SessionsOK(cli')
  BY <1>5, <1>6, <1>7 DEF SessionsOK
<1>9. KeysOK(current', cli')
  BY <1>1, <1>5, <1>6 DEF KeysOK, Newest
<1>10. SocketsOK(cli', tok') /\ TokensOK(cli', tok')
  BY <1>2, <1>3, <1>4, <1>5, <1>6 DEF SocketsOK, TokensOK
<1>11. TabOK' /\ WaitingOK'
  BY DEF DetachCliClient, TabOK, WaitingOK
<1> QED
  BY <1>8, <1>9, <1>10, <1>11
-----------------------------------------------------------------------------
LEMMA StepOK ==
  ASSUME IInv, [CliNext]_cliVars
  PROVE  IInv'
<1>1. CASE UNCHANGED cliVars
  BY <1>1 DEF cliVars, IInv, TabOK, WaitingOK
<1>2. ASSUME NEW t \in DOMAIN tok, SocketStep(t)
      PROVE  IInv'
  BY <1>2, ExpiresOK, UpgradeOK, SocketClosesOK, TabStepOK DEF SocketStep
<1>3. ASSUME NEW b \in Tabs, ControlDrops(b) \/ ControlReconnects(b)
      PROVE  IInv'
  BY <1>3, TabStepOK
<1>4. ASSUME NEW b \in Tabs, NEW i \in Ids, AttachCli(b, i) \/ TabSeesExit(b, i)
      PROVE  IInv'
  BY <1>4, AttachOK, TabStepOK
<1>5. ASSUME NEW i \in Ids, HandleCliExit(i) \/ WriteFails(i) \/ CliStale(i)
      PROVE  IInv'
  BY <1>5, ExitOK, DetachStepOK
<1>6. ASSUME NEW c \in held, DetachCliClient(c)
      PROVE  IInv'
  BY <1>6, DetachClientOK
<1>7. ASSUME \/ \E k \in Keys, b \in Tabs : StartSession(k, b)
             \/ \E w \in waiting : StartResumes(w)
             \/ \E i \in Ids : StopSession(i)
      PROVE  IInv'
  BY <1>7, StartStopOK
<1> QED
  BY <1>1, <1>2, <1>3, <1>4, <1>5, <1>6, <1>7 DEF CliNext

(* The invariant that relates the sessions started, the keys and the       *)
(* tokens holds in every state, for all keys, tabs and bounds.             *)
THEOREM InvariantHolds == CliSpec => []IInv
<1>1. CliInit => IInv
  BY InitOK
<1>2. IInv /\ [CliNext]_cliVars => IInv'
  BY StepOK
<1> QED
  BY <1>1, <1>2, PTL DEF CliSpec

(* No unreaped process is missing from the manager's table: stop, archive  *)
(* and exit find it whatever starts and stops overlap                      *)
(* (cli-session-manager.ts, sessions and sessionKeyToId).                  *)
THEOREM ProcessesAreListed == CliSpec => []ProcessIsListed
<1>1. IInv => ProcessIsListed
  BY DEF IInv, SessionsOK, RecordOK, ProcessIsListed
<1> QED
  BY <1>1, InvariantHolds, PTL

(* A key names the newest session started for it, or none, even when the   *)
(* exits of older sessions arrive late (startSession, handleExit).         *)
THEOREM KeysNameNewest == CliSpec => []KeyNamesNewest
<1>1. ASSUME KeysOK(current, cli)
      PROVE  KeyNamesNewest
  BY <1>1 DEF KeysOK, Newest, KeyNamesNewest
<1> QED
  BY <1>1, InvariantHolds, PTL DEF IInv

(* Output of a session goes to an open socket made with a token of this    *)
(* very session, and only while the session is listed (attachSocket,       *)
(* detachSocket and the close handlers).                                   *)
THEOREM AttachedSocketsAreOpen == CliSpec => []CliAttachedIsOpen
<1>1. ASSUME SessionsOK(cli), SocketsOK(cli, tok)
      PROVE  CliAttachedIsOpen
  BY <1>1 DEF SessionsOK, RecordOK, SocketsOK, CliAttachedIsOpen
<1> QED
  BY <1>1, InvariantHolds, PTL DEF IInv

(* Records, keys, tokens and connections keep their types and stay within  *)
(* the tables they refer to.                                               *)
THEOREM TypeCorrect == CliSpec => []CliTypeOK
<1>1. ASSUME IInv
      PROVE  CliTypeOK
  <2>1. /\ cli \in Seq(CliRecords) /\ tok \in Seq(Tokens) /\ DOMAIN tok = 1 .. Len(tok)
        /\ DOMAIN cli = 1 .. Len(cli) /\ Len(cli) \in Nat /\ Len(tok) \in Nat
    BY <1>1 DEF IInv, SessionsOK, TokensOK
  <2>2. ASSUME NEW i \in DOMAIN cli
        PROVE  cli[i] \in [key : Keys, process : {"running", "dying", "gone"},
                           listed : BOOLEAN, socket : 0 .. Len(tok)]
    <3>1. cli[i] \in CliRecords
      BY <2>1
    <3>2. cli[i].socket \in 0 .. Len(tok)
      BY <1>1, <2>1, <3>1 DEF IInv, SocketsOK, CliRecords
    <3> QED
      BY <3>1, <3>2 DEF CliRecords
  <2>3. ASSUME NEW k \in Keys
        PROVE  current[k] \in 0 .. Len(cli)
    <3>1. current[k] \in Nat /\ (current[k] # 0 => current[k] \in DOMAIN cli)
      BY <1>1 DEF IInv, KeysOK, Newest
    <3> QED
      BY <2>1, <3>1
  <2>4. current \in [Keys -> 0 .. Len(cli)]
    BY <1>1, <2>3 DEF IInv, KeysOK
  <2> QED
    BY <1>1, <2>2, <2>4
       DEF CliTypeOK, IInv, SessionsOK, TokensOK, TabOK, Connections
<1> QED
  BY <1>1, InvariantHolds, PTL
=============================================================================
