---------------------------- MODULE CliSessions ----------------------------
(***************************************************************************)
(* Live CLI sessions: cli-session-manager.ts, the websocket handlers of    *)
(* server.ts, and the browser's side of an attachment in                   *)
(* harness-websocket.ts.  A thread has one session per agent; starting a   *)
(* second one stops the first, which takes time.  Attach tokens are        *)
(* broadcast to every tab, each of which opens a socket with the token;    *)
(* the first to arrive is attached.  Commands, socket events and exits of  *)
(* processes interleave freely.                                            *)
(***************************************************************************)
EXTENDS Naturals, Sequences, FiniteSets

CONSTANTS
  Keys,            \* project, thread and agent of a session
  MaxStarts,       \* bound: sessions started, and starts that wait
  Tabs,            \* browser tabs
  MaxTokens,       \* bound: attach tokens issued; no tab takes up later ones
  MaxDrops         \* bound: tabs that lose their control connection, once each

ASSUME CliAssumption ==
  MaxStarts \in Nat /\ MaxTokens \in Nat /\ MaxDrops \in Nat

Ids == 1 .. MaxStarts

VARIABLES
  cli,        \* sequence of the sessions started
  current,    \* sessionKeyToId; 0: no entry
  waiting,    \* starts that await the end of the session before, told apart
              \* by a number
  tok,        \* sequence of the attach tokens and the sockets opened with them
  tab,        \* [Tabs -> the tab's state]
  held        \* control connections the server holds

cliVars == <<cli, current, waiting, tok, tab, held>>

Client(b) == <<b, tab[b].nth>>

Detached(r) == [r EXCEPT !.socket = 0]

NewTab ==
  [online |-> TRUE, nth |-> 1, socket |-> [i \in Ids |-> 0], shown |-> [i \in Ids |-> FALSE]]

CliInit ==
  /\ cli = << >> /\ current = [k \in Keys |-> 0] /\ waiting = {}
  /\ tok = << >>
  /\ tab = [b \in Tabs |-> NewTab]
  /\ held = {<<b, 1>> : b \in Tabs}
-----------------------------------------------------------------------------
(* Starting and stopping.                                                  *)

TokenAhead(i, c) ==     \* mutant: a token for the session to come
  [session |-> i + 1, client |-> c, state |-> "issued", server |-> "none", winner |-> "none",
   copy |-> [b \in Tabs |-> IF tab[b].online THEN "ready" ELSE "none"]]

Token(i, c) ==
  [session |-> i, client |-> c, state |-> "issued", server |-> "none", winner |-> "none",
   copy |-> [b \in Tabs |-> IF tab[b].online THEN "ready" ELSE "none"]]

Spawn(k, c, stopping) ==
  LET i == Len(stopping) + 1 IN
  /\ Len(stopping) < MaxStarts
  /\ cli' = Append(stopping, [key |-> k, process |-> "running", listed |-> TRUE, socket |-> 0])
  /\ current' = [current EXCEPT ![k] = i]
  /\ tok' = IF Len(tok) < MaxTokens THEN Append(tok, Token(i, c)) ELSE tok

ForgetStopped(r) ==     \* mutant: a stopped session is struck off at once
  [r EXCEPT !.listed = FALSE, !.process = IF @ = "running" THEN "dying" ELSE @]

MarkStopped(r) == [r EXCEPT !.process = IF @ = "running" THEN "dying" ELSE @]

StopSession(i) ==
  /\ i \in DOMAIN cli /\ cli[i].listed
  /\ cli' = [cli EXCEPT ![i] = MarkStopped(@)]
  /\ UNCHANGED <<current, waiting, tok, tab, held>>

StartSession(k, b) ==
  /\ tab[b].online /\ Client(b) \in held
  /\ IF current[k] = 0 THEN Spawn(k, Client(b), cli) /\ UNCHANGED waiting
     ELSE /\ cli' = [cli EXCEPT ![current[k]] = MarkStopped(@)]
          /\ \E n \in Ids \ {w.nth : w \in waiting} :
               waiting' = waiting \cup {[key |-> k, nth |-> n, client |-> Client(b)]}
          /\ UNCHANGED <<current, tok>>
  /\ UNCHANGED <<tab, held>>

(* stop() returns when the process has exited or has been sent a second    *)
(* signal; its exit may not have been handled yet.  A start that throws    *)
(* (the agent has no interactive mode, the spawn fails) leaves no record.  *)
StartResumes(w) ==
  /\ Spawn(w.key, w.client, cli) \/ UNCHANGED <<cli, current, tok>>
  /\ waiting' = waiting \ {w}
  /\ UNCHANGED <<tab, held>>

KeepKey(i) == current       \* mutant: the exit leaves the key behind

(* The key is deleted whichever session it names by now.                   *)
WithoutKey(i) == [current EXCEPT ![cli[i].key] = 0]

HandleCliExit(i) ==
  /\ i \in DOMAIN cli /\ cli[i].process # "gone"
  /\ IF cli[i].listed
     THEN /\ cli' = [cli EXCEPT ![i] = [Detached(@) EXCEPT !.process = "gone", !.listed = FALSE]]
          /\ current' = WithoutKey(i)
     ELSE cli' = [cli EXCEPT ![i].process = "gone"] /\ UNCHANGED current
  /\ UNCHANGED <<waiting, tok, tab, held>>

(* A refused write detaches the session and leaves the process.            *)
WriteFails(i) ==
  /\ i \in DOMAIN cli /\ cli[i].socket # 0
  /\ cli' = [cli EXCEPT ![i] = Detached(@)]
  /\ UNCHANGED <<current, waiting, tok, tab, held>>
-----------------------------------------------------------------------------
(* Attaching, on the server.                                               *)

AttachCli(b, i) ==
  /\ tab[b].online /\ Client(b) \in held
  /\ i \in DOMAIN cli /\ cli[i].listed
  /\ Len(tok) < MaxTokens
  /\ tok' = Append(tok, Token(i, Client(b)))
  /\ UNCHANGED <<cli, current, waiting, tab, held>>

(* A token lives for thirty seconds.                                       *)
TokenExpires(t) ==
  /\ tok[t].state = "issued"
  /\ tok' = [tok EXCEPT ![t].state = "void"]
  /\ UNCHANGED <<cli, current, waiting, tab, held>>

(* The upgrade consumes the token; the open handler attaches the socket,   *)
(* or throws when the session has gone.                                    *)
CliUpgrade(t, b) ==
  LET i == tok[t].session IN
  /\ tok[t].state = "issued" /\ tok[t].copy[b] \in {"connecting", "closing"}
  /\ tok' = [tok EXCEPT ![t].state = "used", ![t].server = "open", ![t].winner = b]
  /\ cli' = IF cli[i].listed
            THEN [cli EXCEPT ![i].socket = t] ELSE cli
  /\ UNCHANGED <<current, waiting, tab, held>>

KeepAttached(i) == cli      \* mutant: the close handler leaves the record alone

DetachCli(i) ==
  IF cli[i].listed THEN [cli EXCEPT ![i] = Detached(@)] ELSE cli

CliSocketCloses(t) ==
  LET i == tok[t].session IN
  /\ \/ tok[t].server = "closing"
     \/ tok[t].server = "open" /\ tok[t].copy[tok[t].winner] \in {"closing", "none"}
  /\ tok' = [tok EXCEPT ![t].server = "closed"]
  /\ cli' = DetachCli(i)
  /\ UNCHANGED <<current, waiting, tab, held>>

(* The heartbeat gives up on the attached socket.                          *)
CliStale(i) ==
  /\ i \in DOMAIN cli /\ cli[i].socket # 0
  /\ tok' = [tok EXCEPT ![cli[i].socket].server = "closing"]
  /\ cli' = [cli EXCEPT ![i] = Detached(@)]
  /\ UNCHANGED <<current, waiting, tab, held>>

(* The server sees that a control connection has ended: its tokens go, its *)
(* sessions are detached, and the data sockets stay open.                  *)
DetachCliClient(c) ==
  /\ c \in held /\ ~(tab[c[1]].online /\ tab[c[1]].nth = c[2])
  /\ held' = held \ {c}
  /\ tok' = [t \in DOMAIN tok |->
               IF tok[t].client = c /\ tok[t].state = "issued"
               THEN [tok[t] EXCEPT !.state = "void"] ELSE tok[t]]
  /\ cli' = [i \in DOMAIN cli |->
               IF \E t \in {cli[i].socket} \ {0} : tok[t].client = c
               THEN Detached(cli[i]) ELSE cli[i]]
  /\ UNCHANGED <<current, waiting, tab>>
-----------------------------------------------------------------------------
(* The tab.                                                                *)

(* closeCliSessionSocket, on the copies of all tokens.                     *)
Closing(b, i) ==
  [t \in DOMAIN tok |->
     IF t = tab[b].socket[i] /\ tok[t].copy[b] \in {"connecting", "open"}
     THEN [tok[t] EXCEPT !.copy[b] = "closing"] ELSE tok[t]]

(* attach-ready: the socket before is closed and a new one is opened.      *)
OpenCliSocket(b, t) ==
  LET i == tok[t].session IN
  /\ tok[t].copy[b] = "ready"
  /\ \A u \in 1 .. t - 1 : tok[u].copy[b] # "ready"
  /\ tok' = [Closing(b, i) EXCEPT ![t].copy[b] = "connecting"]
  /\ tab' = [tab EXCEPT ![b].socket[i] = t,
                        ![b].shown[i] = IF tab[b].socket[i] = 0 THEN @ ELSE FALSE]
  /\ UNCHANGED <<cli, current, waiting, held>>

Connected(b, t) ==
  /\ tok[t].copy[b] = "connecting" /\ tok[t].winner = b
  /\ tok' = [tok EXCEPT ![t].copy[b] = "open"]
  /\ tab' = [tab EXCEPT ![b].shown[tok[t].session] = TRUE]
  /\ UNCHANGED <<cli, current, waiting, held>>

(* The close event, of a socket refused, closed by the tab or closed by    *)
(* the server.  It names the session: whatever socket the tab has for it   *)
(* is forgotten.                                                           *)
ForgetCliSocket(b, t) ==
  LET over == tok[t].server = "closed" \/ tok[t].server = "closing" IN
  /\ \/ tok[t].copy[b] = "closing" /\ (tok[t].winner = b => over)
     \/ tok[t].copy[b] = "open" /\ over
     \/ tok[t].copy[b] = "connecting" /\ tok[t].state # "issued" /\ tok[t].winner # b
  /\ tok' = [tok EXCEPT ![t].copy[b] = "none"]
  /\ tab' = [tab EXCEPT ![b].socket[tok[t].session] = 0, ![b].shown[tok[t].session] = FALSE]
  /\ UNCHANGED <<cli, current, waiting, held>>

(* cli-session.exited.                                                     *)
TabSeesExit(b, i) ==
  /\ i \in DOMAIN cli /\ cli[i].process = "gone"
  /\ tab[b].online /\ tab[b].socket[i] # 0
  /\ tok' = Closing(b, i)
  /\ tab' = [tab EXCEPT ![b].socket[i] = 0, ![b].shown[i] = FALSE]
  /\ UNCHANGED <<cli, current, waiting, held>>

ControlDrops(b) ==
  /\ tab[b].online /\ tab[b].nth = 1
  /\ Cardinality({o \in Tabs \ {b} : ~tab[o].online \/ tab[o].nth > 1}) < MaxDrops
  /\ tab' = [tab EXCEPT ![b].online = FALSE]
  /\ tok' = [t \in DOMAIN tok |->
               IF tok[t].copy[b] = "ready" THEN [tok[t] EXCEPT !.copy[b] = "none"] ELSE tok[t]]
  /\ UNCHANGED <<cli, current, waiting, held>>

ControlReconnects(b) ==
  /\ ~tab[b].online
  /\ tab' = [tab EXCEPT ![b].online = TRUE, ![b].nth = @ + 1]
  /\ held' = held \cup {<<b, tab[b].nth + 1>>}
  /\ UNCHANGED <<cli, current, waiting, tok>>
-----------------------------------------------------------------------------
SocketStep(t) ==
  \/ TokenExpires(t) \/ CliSocketCloses(t)
  \/ \E b \in Tabs : CliUpgrade(t, b) \/ OpenCliSocket(b, t) \/ Connected(b, t)
                     \/ ForgetCliSocket(b, t)

CliNext ==
  \/ \E k \in Keys, b \in Tabs : StartSession(k, b)
  \/ \E w \in waiting : StartResumes(w)
  \/ \E i \in Ids : StopSession(i) \/ HandleCliExit(i) \/ WriteFails(i) \/ CliStale(i)
  \/ \E b \in Tabs, i \in Ids : AttachCli(b, i) \/ TabSeesExit(b, i)
  \/ \E t \in DOMAIN tok : SocketStep(t)
  \/ \E c \in held : DetachCliClient(c)
  \/ \E b \in Tabs : ControlDrops(b) \/ ControlReconnects(b)

CliSpec == CliInit /\ [][CliNext]_cliVars
-----------------------------------------------------------------------------
(* Properties.                                                             *)

CliTypeOK ==
  /\ Len(cli) <= MaxStarts
  /\ \A i \in DOMAIN cli :
       cli[i] \in [key : Keys, process : {"running", "dying", "gone"},
                   listed : BOOLEAN, socket : 0 .. Len(tok)]
  /\ current \in [Keys -> 0 .. Len(cli)]
  /\ \A t \in DOMAIN tok : tok[t].session \in DOMAIN cli
  /\ held \subseteq Tabs \X (1 .. 2)

(* A process that has not been reaped can be stopped: its session is in    *)
(* the manager's table, so that stop, archive and exit find it, whatever   *)
(* starts and stops overlap.                                               *)
ProcessIsListed ==
  \A i \in DOMAIN cli : cli[i].process # "gone" => cli[i].listed

(* The session a thread's key names is the newest one started for it and   *)
(* is in the table: a start stops a session that exists (startSession over *)
(* concurrent starts and late exits).                                      *)
KeyNamesNewest ==
  \A k \in Keys : current[k] # 0 =>
    /\ cli[current[k]].listed
    /\ \A i \in DOMAIN cli : cli[i].key = k => i <= current[k]

(* Output goes to a socket that the server has not seen closed, opened     *)
(* with a token of this session, which has not ended.                      *)
CliAttachedIsOpen ==
  \A i \in DOMAIN cli :
    LET t == cli[i].socket IN
    t # 0 => tok[t].session = i /\ tok[t].server = "open" /\ cli[i].listed
=============================================================================
