-------------------------- MODULE TerminalSessions --------------------------
(***************************************************************************)
(* Integrated terminals: terminal-session-manager.ts and the websocket     *)
(* handlers of server.ts that feed it.  A session outlives its browser     *)
(* connections.  A command on the control connection issues an attach      *)
(* token together with a snapshot of the output so far; the token opens    *)
(* one data socket, which receives the output from then on.  Attachment k  *)
(* is the k-th token and the socket it may open.                           *)
(***************************************************************************)
EXTENDS Naturals, Sequences, FiniteSets, SequencesExt

CONSTANTS
  Sessions,        \* session ids
  Clients,         \* control connections
  MaxCreated,      \* bound: sessions made by a create command
  MaxAttach,       \* bound: attach tokens issued
  MaxOut,          \* bound: chunks of output of all sessions
  MaxAwaited,      \* bound: commands awaiting the end of a process
  MaxCrashes,      \* bound: crashes of the server
  StaleBeats       \* heartbeats without an answer before a socket is stale

ASSUME SessionAssumption ==
  /\ MaxCreated \in Nat /\ MaxAttach \in Nat /\ MaxOut \in Nat /\ MaxAwaited \in Nat
  /\ MaxCrashes \in Nat /\ StaleBeats \in Nat
  /\ "none" \notin Clients

VARIABLES
  rec,       \* [Sessions -> the session's record]
  conn,      \* sequence of the attachments
  online,    \* control connections that have not ended
  crashes

vars == <<rec, conn, online, crashes>>

Attachments == DOMAIN conn

Statuses == {"none", "running", "exited", "failed", "stopped"}

Commands == {"stop", "close", "restart"}    \* that await the process's end

Unused ==
  [status |-> "none", process |-> FALSE, closed |-> FALSE, awaited |-> {},
   out |-> 0, socket |-> 0, client |-> "none", timer |-> FALSE, quiet |-> 0,
   pump |-> << >>]

Init ==
  /\ rec = [s \in Sessions |-> Unused]
  /\ conn = << >>
  /\ online = Clients /\ crashes = 0

Known(s) == rec[s].status # "none"

(* The pump's text goes to the attached socket, or nowhere (sendFrame).    *)
Flushed(c, r) ==
  IF r.socket = 0 THEN c ELSE [c EXCEPT ![r.socket].sent = @ \o r.pump]

FlushedOf(c) ==      \* the pumps of the sessions client c is attached to
  [k \in Attachments |->
     LET s == conn[k].session IN
     IF rec[s].client = c /\ rec[s].socket = k
     THEN [conn[k] EXCEPT !.sent = @ \o rec[s].pump] ELSE conn[k]]

KeepPump(r) ==      \* mutant: the buffered output survives the socket
  [r EXCEPT !.timer = FALSE, !.socket = 0, !.client = "none", !.quiet = 0]

(* clearTransport.                                                         *)
Cleared(r) ==
  [r EXCEPT !.timer = FALSE, !.socket = 0, !.client = "none", !.quiet = 0,
            !.pump = << >>]
-----------------------------------------------------------------------------
(* Tokens.                                                                 *)

(* The token is broadcast to every control connection; a command that was  *)
(* awaiting something may issue it for a client that has left.  A token    *)
(* that expires is one that opens nothing.                                 *)
Attachment(s, c, out) ==
  [session |-> s, client |-> c, late |-> c \notin online,
   token |-> IF online = {} THEN "void" ELSE "issued", server |-> "none",
   peer |-> "none", snapshot |-> out, sent |-> << >>]

AttachSession(s, c) ==
  /\ c \in online /\ Known(s)
  /\ Len(conn) < MaxAttach
  /\ conn' = Append(conn, Attachment(s, c, rec[s].out))
  /\ UNCHANGED <<rec, online, crashes>>

ConsumeTwice(k) == conn[k].token \in {"issued", "used"}   \* mutant: use is not noted

Consumable(k) == conn[k].token = "issued"

ForgetHeartbeat(r) == r      \* mutant: no interval is started

StartHeartbeat(r) == [r EXCEPT !.timer = TRUE]

(* The upgrade of /ws/terminal consumes the token and the open handler     *)
(* attaches the socket; the buffered output goes to the one before it.     *)
Upgrade(k) ==
  LET s == conn[k].session IN
  /\ Consumable(k)
  /\ rec' = [rec EXCEPT ![s] = StartHeartbeat([Cleared(@) EXCEPT
                                 !.socket = k, !.client = conn[k].client])]
  /\ conn' = [Flushed(conn, rec[s]) EXCEPT ![k].token = "used", ![k].server = "open",
                                           ![k].peer = "up"]
  /\ UNCHANGED <<online, crashes>>
-----------------------------------------------------------------------------
(* The data sockets.                                                       *)

PeerLeaves(k) ==     \* the browser closes its end, or its host disappears
  /\ conn[k].peer = "up"
  /\ conn' = [conn EXCEPT ![k].peer = "away"]
  /\ UNCHANGED <<rec, online, crashes>>

KeepSocket(s) == rec      \* mutant: the close handler leaves the record alone

DetachSocket(s) == [rec EXCEPT ![s] = Cleared(@)]

(* The close handler names the session only: whatever socket is attached   *)
(* by then is dropped with the one that closed.                            *)
SocketCloses(k) ==
  LET s == conn[k].session IN
  /\ conn[k].server = "closing" \/ (conn[k].server = "open" /\ conn[k].peer # "up")
  /\ rec' = DetachSocket(s)
  /\ conn' = [Flushed(conn, rec[s]) EXCEPT ![k].server = "closed", ![k].peer = "none"]
  /\ UNCHANGED <<online, crashes>>

NeverStale(r) == FALSE       \* mutant: a silent socket is kept

Stale(r) == r.quiet >= StaleBeats

Heartbeat(s) ==
  LET r == rec[s]
      k == r.socket IN
  /\ r.timer /\ k # 0
  /\ IF Stale(r)
     THEN /\ rec' = [rec EXCEPT ![s] = Cleared(@)]
          /\ conn' = [Flushed(conn, r) EXCEPT ![k].server = "closing"]
     ELSE rec' = [rec EXCEPT ![s].quiet = @ + 1] /\ UNCHANGED conn
  /\ UNCHANGED <<online, crashes>>

(* An answer to a heartbeat, at any later time; recordPong looks at the    *)
(* client, not at the socket.                                              *)
Pong(k) ==
  LET s == conn[k].session IN
  /\ conn[k].peer = "up" /\ conn[k].server = "open"
  /\ rec[s].client = conn[k].client
  /\ rec' = [rec EXCEPT ![s].quiet = 0]
  /\ UNCHANGED <<conn, online, crashes>>
-----------------------------------------------------------------------------
(* Control connections.                                                    *)

KeepTokens(c) == FlushedOf(c)     \* mutant: the tokens of a client outlive it

TokensDropped(c) ==
  LET flushed == FlushedOf(c) IN
  [k \in Attachments |->
     IF conn[k].client = c /\ conn[k].token = "issued"
     THEN [flushed[k] EXCEPT !.token = "void"] ELSE flushed[k]]

DetachClient(c) ==
  /\ c \in online
  /\ online' = online \ {c}
  /\ conn' = TokensDropped(c)
  /\ rec' = [s \in Sessions |-> IF rec[s].client = c THEN Cleared(rec[s]) ELSE rec[s]]
  /\ UNCHANGED crashes
-----------------------------------------------------------------------------
(* The shell process.                                                      *)

Started == [Unused EXCEPT !.status = "running", !.process = TRUE]

NotStarted == [Unused EXCEPT !.status = "failed"]

(* The record says "starting" until the process is spawned, which awaits    *)
(* nothing.  Only a crash can come between, and then the record is restored *)
(* as stopped, as after a crash that comes just behind this step.           *)
CreateSession(s, c) ==
  /\ c \in online /\ ~Known(s)
  /\ Cardinality({t \in Sessions : Known(t)}) < MaxCreated
  /\ \/ /\ Len(conn) < MaxAttach
        /\ rec' = [rec EXCEPT ![s] = Started]
        /\ conn' = Append(conn, Attachment(s, c, 0))
     \/ rec' = [rec EXCEPT ![s] = NotStarted] /\ UNCHANGED conn
  /\ UNCHANGED <<online, crashes>>

(* handleChunk: into the scrollback (out counts it) and the pump, which a  *)
(* large chunk makes flush at once.                                        *)
Chunk(s) ==
  LET r == [rec[s] EXCEPT !.out = @ + 1, !.pump = Append(@, rec[s].out + 1)] IN
  /\ rec[s].process /\ FoldSet(LAMBDA t, n : n + rec[t].out, 0, Sessions) < MaxOut
  /\ \/ rec' = [rec EXCEPT ![s] = [r EXCEPT !.pump = << >>]] /\ conn' = Flushed(conn, r)
     \/ rec' = [rec EXCEPT ![s] = r] /\ UNCHANGED conn
  /\ UNCHANGED <<online, crashes>>

FlushTimer(s) ==
  /\ rec[s].pump # << >>
  /\ rec' = [rec EXCEPT ![s].pump = << >>] /\ conn' = Flushed(conn, rec[s])
  /\ UNCHANGED <<online, crashes>>

HandleExit(s) ==      \* "exited" stands for either exit code
  /\ rec[s].process
  /\ rec' = [rec EXCEPT ![s] = [Cleared(@) EXCEPT !.process = FALSE, !.status = "exited"]]
  /\ conn' = Flushed(conn, rec[s])
  /\ UNCHANGED <<online, crashes>>

(* stopSession, closeSession and restartSession kill the process and await *)
(* its end, which handleExit has recorded by then.                         *)
Request(s, command) ==
  /\ Known(s) /\ command \notin rec[s].awaited
  /\ Cardinality({p \in Sessions \X Commands : p[2] \in rec[p[1]].awaited}) < MaxAwaited
  /\ rec' = [rec EXCEPT ![s].awaited = @ \cup {command}]
  /\ UNCHANGED <<conn, online, crashes>>

Stopped(s) ==
  /\ "stop" \in rec[s].awaited /\ ~rec[s].process
  /\ rec' = [rec EXCEPT ![s].awaited = @ \ {"stop"}, ![s].status = "stopped"]
  /\ UNCHANGED <<conn, online, crashes>>

DoesNotWait(s) == TRUE     \* mutant: close and restart do not await the process

ProcessEnded(s) == ~rec[s].process

AfterClose(r, command) ==
  [Cleared(r) EXCEPT !.awaited = @ \ {command}, !.closed = TRUE,
                     !.status = IF @ = "running" THEN "stopped" ELSE @]

(* A restart ends like a close when there is no shell or the directory is   *)
(* no longer inside the project: createSession throws and leaves no record. *)
Closed(s) ==
  /\ ProcessEnded(s)
  /\ \E command \in rec[s].awaited \ {"stop"} :
       rec' = [rec EXCEPT ![s] = AfterClose(@, command)]
  /\ conn' = Flushed(conn, rec[s])
  /\ UNCHANGED <<online, crashes>>

(* restartSession closes one session and creates another, for the client   *)
(* that asked, which may have left.                                        *)
Restarted(s, t, c) ==
  /\ "restart" \in rec[s].awaited /\ ProcessEnded(s)
  /\ ~Known(t)
  /\ \/ /\ Len(conn) < MaxAttach
        /\ rec' = [rec EXCEPT ![s] = AfterClose(@, "restart"), ![t] = Started]
        /\ conn' = Append(Flushed(conn, rec[s]), Attachment(t, c, 0))
     \/ /\ rec' = [rec EXCEPT ![s] = AfterClose(@, "restart"), ![t] = NotStarted]
        /\ conn' = Flushed(conn, rec[s])
  /\ UNCHANGED <<online, crashes>>

AsStored(status) == status   \* mutant: running sessions are restored as they were

Restored(status) == IF status = "running" THEN "stopped" ELSE status

(* The records are on disk; processes, tokens and sockets are not.  The    *)
(* browsers that are left connect again, under new names.                  *)
Crash ==
  /\ crashes < MaxCrashes /\ crashes' = crashes + 1
  /\ rec' = [s \in Sessions |->
               [Cleared(rec[s]) EXCEPT !.process = FALSE, !.awaited = {},
                                       !.status = Restored(@)]]
  /\ conn' = [k \in Attachments |->
                [conn[k] EXCEPT !.server = "closed", !.token = "void", !.peer = "none",
                                !.sent = << >>]]
  /\ UNCHANGED online

SessionStep(s) ==
  \/ Chunk(s) \/ FlushTimer(s) \/ HandleExit(s) \/ Heartbeat(s) \/ Stopped(s) \/ Closed(s)
  \/ \E command \in Commands : Request(s, command)

ClientStep(c) ==
  \/ DetachClient(c)
  \/ \E s \in Sessions : CreateSession(s, c) \/ AttachSession(s, c)
  \/ \E s, t \in Sessions : Restarted(s, t, c)

SocketStep(k) ==
  Upgrade(k) \/ PeerLeaves(k) \/ SocketCloses(k) \/ Pong(k)

Next ==
  \/ \E s \in Sessions : SessionStep(s)
  \/ \E c \in Clients : ClientStep(c)
  \/ \E k \in Attachments : SocketStep(k)
  \/ Crash

Spec == Init /\ [][Next]_vars
-----------------------------------------------------------------------------
(* Properties.                                                             *)

(* Types; a socket is dropped before more heartbeats than StaleBeats are   *)
(* left unanswered (startHeartbeat).                                       *)
TypeOK ==
  /\ rec \in [Sessions ->
       [status : Statuses, process : BOOLEAN, closed : BOOLEAN,
        awaited : SUBSET Commands, out : Nat, socket : {0} \cup Attachments,
        client : Clients \cup {"none"}, timer : BOOLEAN, quiet : 0 .. StaleBeats,
        pump : Seq(Nat)]]
  /\ conn \in Seq(
       [session : Sessions, client : Clients, token : {"issued", "used", "void"},
        server : {"none", "open", "closing", "closed"},
        peer : {"none", "up", "away"}, late : BOOLEAN,
        snapshot : Nat, sent : Seq(Nat)])
  /\ online \subseteq Clients

(* Output reaches a browser once: a socket gets chunks in the order they   *)
(* were made and none that the snapshot of its token already held, and no  *)
(* two sockets get the same chunk (attachSocket empties the pump first).   *)
DeliveredOnce ==
  \A k \in Attachments :
    LET sent == conn[k].sent IN
    /\ \A i \in DOMAIN sent : sent[i] > conn[k].snapshot
    /\ \A i, j \in DOMAIN sent : i < j => sent[i] < sent[j]
    /\ \A l \in Attachments : l # k /\ conn[l].session = conn[k].session =>
         ToSet(sent) \cap ToSet(conn[l].sent) = {}

(* Output and heartbeats go to a socket that is open and was opened for    *)
(* this session and client, and the heartbeat watches it, over attach,     *)
(* close, staleness and a client's end in any order.                       *)
AttachedIsOpen ==
  \A s \in Sessions :
    LET k == rec[s].socket IN
    k # 0 => /\ conn[k].session = s /\ conn[k].server = "open"
             /\ conn[k].client = rec[s].client /\ rec[s].timer

(* A token opens one socket, and none once the control connection it was   *)
(* issued to has ended (consumeAttachToken and detachClient).              *)
TokensDie ==
  [][\A k \in Attachments :
       conn[k].server # "open" /\ conn'[k].server = "open" =>
         conn[k].server = "none" /\ (conn[k].client \in online \/ conn[k].late)]_vars

(* What the record says of the process is true, over stop, close, restart, *)
(* exit and a restart of the server: running exactly while a process runs, *)
(* and a closed session has none.                                          *)
StatusIsTrue ==
  \A s \in Sessions :
    /\ rec[s].process <=> rec[s].status = "running"
    /\ rec[s].closed => ~rec[s].process
=============================================================================
