---------------------------- MODULE TerminalProofs ----------------------------
(***************************************************************************)
(* What holds of the integrated terminals for all sessions, clients and    *)
(* bounds.  IInv holds the types, the status of a record and its process,  *)
(* the attached socket, and the tokens still issued; it is inductive by    *)
(* itself.  Delivery, the order of a session's output over its scrollback, *)
(* its buffer and its sockets, is inductive together with it.              *)
(***************************************************************************)
EXTENDS TerminalSessions, SequenceTheorems, TLAPS

Records ==
  [status : Statuses, process : BOOLEAN, closed : BOOLEAN,
   awaited : SUBSET Commands, out : Nat, socket : Nat,
   client : Clients \cup {"none"}, timer : BOOLEAN, quiet : 0 .. StaleBeats, pump : Seq(Nat)]

Connections ==
  [session : Sessions, client : Clients, token : {"issued", "used", "void"},
   server : {"none", "open", "closing", "closed"}, peer : {"none", "up", "away"},
   late : BOOLEAN, snapshot : Nat, sent : Seq(Nat)]

(* Attachment k is an open socket for session s.                           *)
Serves(k, s, c) == k \in DOMAIN c /\ c[k].session = s /\ c[k].server = "open"

StatusOK(q) == (q.process <=> q.status = "running") /\ (q.closed => ~q.process)

SocketOK(q, s, c) ==
  q.socket # 0 => Serves(q.socket, s, c) /\ c[q.socket].client = q.client /\ q.timer

IssuedOK(a, on) == a.token = "issued" => a.server = "none" /\ (a.client \in on \/ a.late)

InvOf(r, c, on) ==
  /\ r \in [Sessions -> Records]
  /\ c \in Seq(Connections)
  /\ on \subseteq Clients
  /\ \A s \in Sessions : StatusOK(r[s]) /\ SocketOK(r[s], s, c)
  /\ \A k \in DOMAIN c : IssuedOK(c[k], on)

IInv == InvOf(rec, conn, online)
-----------------------------------------------------------------------------
LEMMA ClearedOK ==
  ASSUME NEW r \in Records
  PROVE  /\ Cleared(r) \in Records /\ Cleared(r).socket = 0
         /\ Cleared(r).status = r.status /\ Cleared(r).process = r.process
         /\ Cleared(r).closed = r.closed /\ Cleared(r).awaited = r.awaited
<1> DEFINE a == [r EXCEPT !.timer = FALSE, !.socket = 0]
           b == [a EXCEPT !.client = "none", !.quiet = 0]
<1>1. a \in Records
  BY DEF Records
<1>2. b \in Records
  <2>1. 0 \in 0 .. StaleBeats /\ "none" \in Clients \cup {"none"}
    BY SessionAssumption
  <2>2. [a EXCEPT !.client = "none"] \in Records
    BY <1>1, <2>1 DEF Records
  <2>3. [[a EXCEPT !.client = "none"] EXCEPT !.quiet = 0] \in Records
    BY <2>1, <2>2 DEF Records
  <2> QED
    BY <1>1, <2>3 DEF Records
<1>3. << >> \in Seq(Nat)
  OBVIOUS
<1>4. [b EXCEPT !.pump = << >>] \in Records
  BY <1>2, <1>3 DEF Records
<1>5. Cleared(r) = [b EXCEPT !.pump = << >>]
  BY DEF Cleared, Records
<1> QED
  BY <1>4, <1>5 DEF Records

LEMMA FlushedOK ==
  ASSUME NEW c \in Seq(Connections), NEW r \in Records, r.socket # 0 => r.socket \in DOMAIN c
  PROVE  /\ Flushed(c, r) \in Seq(Connections)
         /\ DOMAIN Flushed(c, r) = DOMAIN c
         /\ \A k \in DOMAIN c :
              /\ Flushed(c, r)[k].session = c[k].session
              /\ Flushed(c, r)[k].client = c[k].client
              /\ Flushed(c, r)[k].token = c[k].token
              /\ Flushed(c, r)[k].server = c[k].server
              /\ Flushed(c, r)[k].late = c[k].late
<1>1. CASE r.socket = 0
  BY <1>1 DEF Flushed
<1>2. CASE r.socket # 0
  <2> DEFINE k == r.socket
             d == [c[k] EXCEPT !.sent = @ \o r.pump]
  <2>1. c[k] \in Connections
    BY <1>2
  <2>2. c[k].sent \o r.pump \in Seq(Nat)
    BY <2>1 DEF Connections, Records
  <2>3. d \in Connections
    BY <2>1, <2>2 DEF Connections
  <2>4. Flushed(c, r) = [c EXCEPT ![k] = d]
    BY <1>2 DEF Flushed
  <2>5. [c EXCEPT ![k] = d] \in Seq(Connections)
    BY <1>2, <2>3
  <2>6. /\ d.session = c[k].session /\ d.client = c[k].client /\ d.token = c[k].token
        /\ d.server = c[k].server /\ d.late = c[k].late
    BY <2>1 DEF Connections
  <2> QED
    BY <1>2, <2>4, <2>5, <2>6
<1> QED
  BY <1>1, <1>2

(* One record changes: it keeps its socket or has none, and what was       *)
(* buffered may go to the socket it had.                                   *)
LEMMA RecordChanges ==
  ASSUME NEW r, NEW c, NEW on, InvOf(r, c, on), NEW s \in Sessions,
         NEW q \in Records, StatusOK(q),
         \/ q.socket = 0
         \/ q.socket = r[s].socket /\ q.client = r[s].client /\ q.timer = r[s].timer,
         NEW p \in Records, p.socket = r[s].socket
  PROVE  /\ InvOf([r EXCEPT ![s] = q], c, on)
         /\ InvOf([r EXCEPT ![s] = q], Flushed(c, p), on)
<1> DEFINE r2 == [r EXCEPT ![s] = q]
           c2 == Flushed(c, p)
<1> USE DEF InvOf
<1>1. r2 \in [Sessions -> Records] /\ \A t \in Sessions : StatusOK(r2[t])
  OBVIOUS
<1>2. \A t \in Sessions : SocketOK(r2[t], t, c)
  BY DEF SocketOK
<1>3. p.socket # 0 => p.socket \in DOMAIN c
  BY DEF SocketOK, Serves
<1>4. /\ c2 \in Seq(Connections) /\ DOMAIN c2 = DOMAIN c
      /\ \A k \in DOMAIN c :
           /\ c2[k].session = c[k].session /\ c2[k].client = c[k].client
           /\ c2[k].token = c[k].token /\ c2[k].server = c[k].server
           /\ c2[k].late = c[k].late
  BY <1>3, FlushedOK
<1>5. \A t \in Sessions : SocketOK(r2[t], t, c2)
  BY <1>2, <1>4 DEF SocketOK, Serves
<1>6. \A k \in DOMAIN c2 : IssuedOK(c2[k], on)
  BY <1>4 DEF IssuedOK
<1> QED
  BY <1>1, <1>2, <1>4, <1>5, <1>6

LEMMA TokenIssued ==
  ASSUME NEW r, NEW c, InvOf(r, c, online), NEW s \in Sessions, NEW a \in Clients,
         NEW out \in Nat
  PROVE  InvOf(r, Append(c, Attachment(s, a, out)), online)
<1> DEFINE n == Attachment(s, a, out)
           c2 == Append(c, n)
<1> USE DEF InvOf
<1>1. n \in Connections
  BY DEF Attachment, Connections
<1>2. IssuedOK(n, online)
  BY DEF Attachment, IssuedOK
<1>3. /\ c2 \in Seq(Connections) /\ DOMAIN c2 = DOMAIN c \cup {Len(c) + 1}
      /\ \A k \in DOMAIN c : c2[k] = c[k]
      /\ c2[Len(c) + 1] = n
  BY <1>1
<1>4. \A t \in Sessions : SocketOK(r[t], t, c2)
  BY <1>3 DEF SocketOK, Serves
<1>5. \A k \in DOMAIN c2 : IssuedOK(c2[k], online)
  BY <1>2, <1>3
<1> QED
  BY <1>3, <1>4, <1>5

(* A socket that ends: the record of its session has let go of it.         *)
LEMMA SocketEnds ==
  ASSUME NEW r, NEW c, NEW on, InvOf(r, c, on), NEW k \in DOMAIN c, NEW d \in Connections,
         d.session = c[k].session, d.client = c[k].client, d.late = c[k].late,
         d.token = c[k].token, c[k].server # "none", r[c[k].session].socket = 0
  PROVE  InvOf(r, [c EXCEPT ![k] = d], on)
<1> DEFINE c2 == [c EXCEPT ![k] = d]
<1> USE DEF InvOf
<1>1. c2 \in Seq(Connections) /\ DOMAIN c2 = DOMAIN c
  OBVIOUS
<1>2. \A t \in Sessions : r[t].socket # k \/ r[t].socket = 0
  BY DEF SocketOK, Serves
<1>3. \A t \in Sessions : SocketOK(r[t], t, c2)
  BY <1>1, <1>2 DEF SocketOK, Serves
<1>4. \A l \in DOMAIN c2 : IssuedOK(c2[l], on)
  BY <1>1 DEF IssuedOK
<1> QED
  BY <1>1, <1>3, <1>4
-----------------------------------------------------------------------------
LEMMA StartedOK ==
  /\ Started \in Records /\ StatusOK(Started) /\ Started.socket = 0
  /\ NotStarted \in Records /\ StatusOK(NotStarted) /\ NotStarted.socket = 0
  /\ Unused \in Records
<1>1. Unused \in Records /\ Unused.socket = 0 /\ ~Unused.process /\ ~Unused.closed
  BY SessionAssumption DEF Unused, Records, Statuses
<1>2. Started \in Records /\ Started.socket = 0 /\ Started.status = "running"
      /\ Started.process = TRUE /\ ~Started.closed
  BY <1>1 DEF Started, Records, Statuses
<1>3. NotStarted \in Records /\ NotStarted.socket = 0 /\ NotStarted.status = "failed"
      /\ ~NotStarted.process /\ ~NotStarted.closed
  BY <1>1 DEF NotStarted, Records, Statuses
<1> QED
  BY <1>1, <1>2, <1>3 DEF StatusOK

LEMMA AfterCloseOK ==
  ASSUME NEW q \in Records, NEW command \in Commands, StatusOK(q), ~q.process
  PROVE  /\ AfterClose(q, command) \in Records /\ StatusOK(AfterClose(q, command))
         /\ AfterClose(q, command).socket = 0
<1> DEFINE a == Cleared(q)
           b == [a EXCEPT !.awaited = @ \ {command}]
           d == [b EXCEPT !.closed = TRUE, !.status = IF @ = "running" THEN "stopped" ELSE @]
<1>1. a \in Records /\ a.socket = 0 /\ a.status = q.status /\ a.process = q.process
  BY ClearedOK
<1>2. b \in Records /\ b.socket = 0 /\ b.status = q.status /\ b.process = q.process
  BY <1>1 DEF Records
<1>3. q.status # "running"
  BY DEF StatusOK
<1>4. d \in Records /\ d.socket = 0 /\ d.status = q.status /\ d.process = q.process
  BY <1>2, <1>3 DEF Records
<1>5. AfterClose(q, command) = d
  BY <1>1 DEF AfterClose, Records
<1> QED
  BY <1>3, <1>4, <1>5 DEF StatusOK

LEMMA InitOK == Init => IInv
BY StartedOK DEF Init, IInv, InvOf, Unused, StatusOK, SocketOK

(* What a session does by itself.                                          *)
LEMMA SessionStepOK ==
  ASSUME IInv, NEW s \in Sessions, SessionStep(s)
  PROVE  IInv'
<1> USE DEF IInv
<1> DEFINE q == rec[s]
<1>1. /\ q \in Records /\ StatusOK(q) /\ SocketOK(q, s, conn)
      /\ rec \in [Sessions -> Records] /\ conn \in Seq(Connections)
  BY DEF InvOf
<1>2. CASE Chunk(s)
  <2> DEFINE o == [q EXCEPT !.out = @ + 1]
             b == [o EXCEPT !.pump = Append(@, q.out + 1)]
             r == [q EXCEPT !.out = @ + 1, !.pump = Append(@, q.out + 1)]
             e == [r EXCEPT !.pump = << >>]
  <2>1. q.out + 1 \in Nat
    BY <1>1 DEF Records
  <2>2. o \in Records
    BY <1>1, <2>1 DEF Records
  <2>3. Append(q.pump, q.out + 1) \in Seq(Nat) /\ << >> \in Seq(Nat)
    BY <1>1, <2>1 DEF Records
  <2>4. r \in Records /\ e \in Records
    BY <1>1, <2>2, <2>3 DEF Records
  <2>5. /\ r.socket = q.socket /\ r.client = q.client /\ r.timer = q.timer
        /\ r.status = q.status /\ r.process = q.process /\ r.closed = q.closed
        /\ e.socket = q.socket /\ e.client = q.client /\ e.timer = q.timer
        /\ e.status = q.status /\ e.process = q.process /\ e.closed = q.closed
    BY <1>1 DEF Records
  <2>6. StatusOK(r) /\ StatusOK(e)
    BY <1>1, <2>5 DEF StatusOK
  <2>7. \/ rec' = [rec EXCEPT ![s] = e] /\ conn' = Flushed(conn, r)
        \/ rec' = [rec EXCEPT ![s] = r] /\ conn' = conn
    BY <1>2 DEF Chunk
  <2>8. online' = online
    BY <1>2 DEF Chunk
  <2> HIDE DEF r, e
  <2>9. CASE rec' = [rec EXCEPT ![s] = e] /\ conn' = Flushed(conn, r)
    BY <1>1, <2>4, <2>5, <2>6, <2>8, <2>9, RecordChanges
  <2>10. CASE rec' = [rec EXCEPT ![s] = r] /\ conn' = conn
    BY <1>1, <2>4, <2>5, <2>6, <2>8, <2>10, RecordChanges
  <2> QED
    BY <2>7, <2>9, <2>10
<1>3. CASE FlushTimer(s)
  <2> DEFINE e == [q EXCEPT !.pump = << >>]
  <2>1. << >> \in Seq(Nat)
    OBVIOUS
  <2>2. e \in Records
    BY <1>1, <2>1 DEF Records
  <2>3. /\ e.socket = q.socket /\ e.client = q.client /\ e.timer = q.timer
        /\ e.status = q.status /\ e.process = q.process /\ e.closed = q.closed
    BY <1>1 DEF Records
  <2>4. StatusOK(e)
    BY <1>1, <2>3 DEF StatusOK
  <2>5. rec' = [rec EXCEPT ![s] = e] /\ conn' = Flushed(conn, q) /\ online' = online
    BY <1>3 DEF FlushTimer
  <2> QED
    BY <1>1, <2>2, <2>3, <2>4, <2>5, RecordChanges
<1>4. CASE HandleExit(s)
  <2> DEFINE e == [Cleared(q) EXCEPT !.process = FALSE, !.status = "exited"]
  <2>1. Cleared(q) \in Records /\ Cleared(q).socket = 0
    BY <1>1, ClearedOK
  <2>2. e \in Records /\ e.socket = 0 /\ e.process = FALSE /\ e.status = "exited"
    BY <2>1 DEF Records, Statuses
  <2>3. StatusOK(e)
    BY <2>2 DEF StatusOK
  <2>4. rec' = [rec EXCEPT ![s] = e] /\ conn' = Flushed(conn, q) /\ online' = online
    BY <1>4 DEF HandleExit
  <2> QED
    BY <1>1, <2>2, <2>3, <2>4, RecordChanges
<1>5. CASE Heartbeat(s)
  <2> DEFINE k == q.socket
  <2>0. k \in DOMAIN conn /\ conn[k].session = s /\ conn[k].server = "open"
    BY <1>1, <1>5 DEF Heartbeat, SocketOK, Serves
  <2>1. CASE Stale(q)
    <3> DEFINE r2 == [rec EXCEPT ![s] = Cleared(q)]
               c2 == Flushed(conn, q)
               d == [c2[k] EXCEPT !.server = "closing"]
    <3>1. Cleared(q) \in Records /\ Cleared(q).socket = 0 /\ StatusOK(Cleared(q))
      BY <1>1, ClearedOK DEF StatusOK
    <3>2. InvOf(r2, c2, online)
      BY <1>1, <3>1, RecordChanges
    <3>3. k \in DOMAIN c2 /\ c2[k].session = s /\ c2[k].server = "open"
      BY <1>1, <2>0, FlushedOK
    <3>4. c2[k] \in Connections
      BY <3>2, <3>3 DEF InvOf
    <3>5. /\ d \in Connections /\ d.session = s /\ d.client = c2[k].client
          /\ d.late = c2[k].late /\ d.token = c2[k].token
      BY <3>3, <3>4 DEF Connections
    <3>6. r2[s].socket = 0
      BY <1>1, <3>1
    <3>7. rec' = r2 /\ conn' = [c2 EXCEPT ![k] = d] /\ online' = online
      BY <1>5, <2>1 DEF Heartbeat
    <3> QED
      BY <3>2, <3>3, <3>5, <3>6, <3>7, SocketEnds
  <2>2. CASE ~Stale(q)
    <3> DEFINE e == [q EXCEPT !.quiet = @ + 1]
    <3>1. q.quiet + 1 \in 0 .. StaleBeats
      BY <1>1, <2>2, SessionAssumption DEF Records, Stale
    <3>2. e \in Records /\ e.socket = q.socket /\ e.client = q.client /\ e.timer = q.timer
          /\ e.status = q.status /\ e.process = q.process /\ e.closed = q.closed
      BY <1>1, <3>1 DEF Records
    <3>3. StatusOK(e)
      BY <1>1, <3>2 DEF StatusOK
    <3>4. rec' = [rec EXCEPT ![s] = e] /\ conn' = conn /\ online' = online
      BY <1>5, <2>2 DEF Heartbeat
    <3> QED
      BY <1>1, <3>2, <3>3, <3>4, RecordChanges
  <2> QED
    BY <2>1, <2>2
<1>6. CASE Stopped(s)
  <2> DEFINE a == [q EXCEPT !.awaited = @ \ {"stop"}]
             e == [a EXCEPT !.status = "stopped"]
  <2>1. a \in Records
    BY <1>1 DEF Records
  <2>2. e \in Records /\ e.socket = q.socket /\ e.client = q.client /\ e.timer = q.timer
        /\ e.status = "stopped" /\ e.process = q.process /\ e.closed = q.closed
    BY <1>1, <2>1 DEF Records, Statuses
  <2>3. StatusOK(e)
    BY <1>1, <1>6, <2>2 DEF StatusOK, Stopped
  <2>4. rec' = [rec EXCEPT ![s] = e] /\ conn' = conn /\ online' = online
    BY <1>1, <1>6 DEF Stopped
  <2> QED
    BY <1>1, <2>2, <2>3, <2>4, RecordChanges
<1>7. CASE Closed(s)
  <2> PICK command \in q.awaited \ {"stop"} :
           rec' = [rec EXCEPT ![s] = AfterClose(q, command)]
    BY <1>7 DEF Closed
  <2> DEFINE e == AfterClose(q, command)
  <2>0. command \in Commands
    BY <1>1 DEF Records
  <2>1. e \in Records /\ StatusOK(e) /\ e.socket = 0
    BY <1>1, <1>7, <2>0, AfterCloseOK DEF Closed, ProcessEnded
  <2>2. rec' = [rec EXCEPT ![s] = e] /\ conn' = Flushed(conn, q) /\ online' = online
    BY <1>7 DEF Closed
  <2> HIDE DEF e
  <2>3. InvOf([rec EXCEPT ![s] = e], Flushed(conn, q), online)
    BY <1>1, <2>1, RecordChanges
  <2> QED
    BY <2>2, <2>3
<1>8. ASSUME NEW command \in Commands, Request(s, command)
      PROVE  IInv'
  <2> DEFINE e == [q EXCEPT !.awaited = @ \cup {command}]
  <2>1. q.awaited \cup {command} \in SUBSET Commands
    BY <1>1 DEF Records
  <2>2. e \in Records /\ e.socket = q.socket /\ e.client = q.client /\ e.timer = q.timer
        /\ e.status = q.status /\ e.process = q.process /\ e.closed = q.closed
    BY <1>1, <2>1 DEF Records
  <2>3. StatusOK(e)
    BY <1>1, <2>2 DEF StatusOK
  <2>4. rec' = [rec EXCEPT ![s] = e] /\ conn' = conn /\ online' = online
    BY <1>8 DEF Request
  <2> QED
    BY <1>1, <2>2, <2>3, <2>4, RecordChanges
<1> QED
  BY <1>2, <1>3, <1>4, <1>5, <1>6, <1>7, <1>8 DEF SessionStep

(* What a data socket does.                                                *)
LEMMA SocketStepOK ==
  ASSUME IInv, NEW k \in Attachments, SocketStep(k)
  PROVE  IInv'
<1> USE DEF IInv
<1> DEFINE s == conn[k].session
           q == rec[s]
<1>1. /\ k \in DOMAIN conn /\ conn[k] \in Connections /\ s \in Sessions
      /\ q \in Records /\ StatusOK(q) /\ SocketOK(q, s, conn)
      /\ rec \in [Sessions -> Records] /\ conn \in Seq(Connections)
  <2>1. k \in DOMAIN conn /\ rec \in [Sessions -> Records] /\ conn \in Seq(Connections)
    BY DEF InvOf, Attachments
  <2>2. conn[k] \in Connections
    BY <2>1
  <2>3. s \in Sessions
    BY <2>2 DEF Connections
  <2> QED
    BY <2>1, <2>2, <2>3 DEF InvOf
<1>2. CASE Upgrade(k)
  <2> DEFINE a == [Cleared(q) EXCEPT !.socket = k, !.client = conn[k].client]
             b == StartHeartbeat(a)
             c2 == Flushed(conn, q)
             d == [c2[k] EXCEPT !.token = "used", !.server = "open", !.peer = "up"]
             c3 == [c2 EXCEPT ![k] = d]
  <2>1. Cleared(q) \in Records /\ Cleared(q).process = q.process
        /\ Cleared(q).status = q.status /\ Cleared(q).closed = q.closed
    BY <1>1, ClearedOK
  <2>2. k \in Nat /\ conn[k].client \in Clients
    BY <1>1 DEF Connections
  <2>3. /\ a \in Records /\ a.socket = k /\ a.client = conn[k].client
        /\ a.process = q.process /\ a.status = q.status /\ a.closed = q.closed
    BY <2>1, <2>2 DEF Records
  <2>4. /\ b \in Records /\ b.socket = k /\ b.client = conn[k].client /\ b.timer = TRUE
        /\ b.process = q.process /\ b.status = q.status /\ b.closed = q.closed
    BY <2>3 DEF Records, StartHeartbeat
  <2>5. q.socket # 0 => q.socket \in DOMAIN conn
    BY <1>1 DEF SocketOK, Serves
  <2>6. /\ c2 \in Seq(Connections) /\ DOMAIN c2 = DOMAIN conn
        /\ \A l \in DOMAIN conn :
             /\ c2[l].session = conn[l].session /\ c2[l].client = conn[l].client
             /\ c2[l].token = conn[l].token /\ c2[l].server = conn[l].server
             /\ c2[l].late = conn[l].late
    BY <1>1, <2>5, FlushedOK
  <2>7. c2[k] \in Connections
    BY <1>1, <2>6
  <2>8. /\ d \in Connections /\ d.session = s /\ d.client = conn[k].client
        /\ d.server = "open" /\ d.token = "used"
    BY <1>1, <2>6, <2>7 DEF Connections
  <2>9. rec' = [rec EXCEPT ![s] = b] /\ conn' = c3 /\ online' = online
    BY <1>2 DEF Upgrade
  <2> HIDE DEF a, b, d, c2
  <2>10. c3 \in Seq(Connections) /\ DOMAIN c3 = DOMAIN conn /\ c3[k] = d
         /\ \A l \in DOMAIN conn : l # k => c3[l] = c2[l]
    BY <1>1, <2>6, <2>8
  <2>11. \A l \in DOMAIN c3 : IssuedOK(c3[l], online)
    BY <2>6, <2>8, <2>10 DEF IssuedOK, InvOf
  <2>12. StatusOK(b) /\ SocketOK(b, s, c3)
    BY <1>1, <2>4, <2>8, <2>10 DEF StatusOK, SocketOK, Serves
  <2>13. \A t \in Sessions \ {s} : StatusOK(rec[t]) /\ SocketOK(rec[t], t, c3)
    <3> TAKE t \in Sessions \ {s}
    <3>1. StatusOK(rec[t]) /\ SocketOK(rec[t], t, conn)
      BY DEF InvOf
    <3>2. rec[t].socket # k \/ rec[t].socket = 0
      BY <3>1 DEF SocketOK, Serves
    <3> QED
      BY <2>6, <2>10, <3>1, <3>2 DEF SocketOK, Serves
  <2> QED
    BY <1>1, <2>4, <2>9, <2>10, <2>11, <2>12, <2>13 DEF InvOf
<1>3. CASE PeerLeaves(k)
  <2> DEFINE d == [conn[k] EXCEPT !.peer = "away"]
  <2>1. /\ d \in Connections /\ d.session = s /\ d.client = conn[k].client
        /\ d.server = conn[k].server /\ d.token = conn[k].token /\ d.late = conn[k].late
    BY <1>1 DEF Connections
  <2>2. rec' = rec /\ conn' = [conn EXCEPT ![k] = d] /\ online' = online
    BY <1>3 DEF PeerLeaves
  <2> HIDE DEF d
  <2>3. conn' \in Seq(Connections) /\ DOMAIN conn' = DOMAIN conn /\ conn'[k] = d
        /\ \A l \in DOMAIN conn : l # k => conn'[l] = conn[l]
    BY <1>1, <2>1, <2>2
  <2>4. \A l \in DOMAIN conn' : IssuedOK(conn'[l], online)
    BY <1>1, <2>1, <2>3 DEF InvOf, IssuedOK
  <2>5. \A t \in Sessions : SocketOK(rec[t], t, conn')
    BY <1>1, <2>1, <2>3 DEF InvOf, SocketOK, Serves
  <2> QED
    BY <2>2, <2>3, <2>4, <2>5 DEF InvOf
<1>4. CASE SocketCloses(k)
  <2> DEFINE r2 == [rec EXCEPT ![s] = Cleared(q)]
             c2 == Flushed(conn, q)
             d == [c2[k] EXCEPT !.server = "closed", !.peer = "none"]
  <2>1. Cleared(q) \in Records /\ Cleared(q).socket = 0 /\ StatusOK(Cleared(q))
    BY <1>1, ClearedOK DEF StatusOK
  <2>2. InvOf(r2, c2, online)
    BY <1>1, <2>1, RecordChanges
  <2>3. q.socket # 0 => q.socket \in DOMAIN conn
    BY <1>1 DEF SocketOK, Serves
  <2>4. k \in DOMAIN c2 /\ c2[k].session = s /\ c2[k].server = conn[k].server
    BY <1>1, <2>3, FlushedOK
  <2>5. c2[k] \in Connections
    BY <2>2, <2>4 DEF InvOf
  <2>6. /\ d \in Connections /\ d.session = s /\ d.client = c2[k].client
        /\ d.late = c2[k].late /\ d.token = c2[k].token
    BY <2>4, <2>5 DEF Connections
  <2>7. r2[s].socket = 0
    BY <1>1, <2>1
  <2>8. rec' = r2 /\ conn' = [c2 EXCEPT ![k] = d] /\ online' = online
    BY <1>4 DEF SocketCloses, DetachSocket
  <2>9. c2[k].server # "none"
    BY <1>4, <2>4 DEF SocketCloses
  <2> HIDE DEF d, c2, r2
  <2> QED
    BY <2>2, <2>4, <2>6, <2>7, <2>8, <2>9, SocketEnds
<1>5. CASE Pong(k)
  <2> DEFINE e == [q EXCEPT !.quiet = 0]
  <2>0. 0 \in 0 .. StaleBeats
    BY SessionAssumption
  <2>1. e \in Records /\ e.socket = q.socket /\ e.client = q.client /\ e.timer = q.timer
        /\ e.status = q.status /\ e.process = q.process /\ e.closed = q.closed
    BY <1>1, <2>0 DEF Records
  <2>2. StatusOK(e)
    BY <1>1, <2>1 DEF StatusOK
  <2>3. rec' = [rec EXCEPT ![s] = e] /\ conn' = conn /\ online' = online
    BY <1>5 DEF Pong
  <2> QED
    BY <1>1, <2>1, <2>2, <2>3, RecordChanges
<1> QED
  BY <1>2, <1>3, <1>4, <1>5 DEF SocketStep

(* A control connection ends.                                              *)
LEMMA DetachClientOK ==
  ASSUME IInv, NEW c \in Clients, DetachClient(c)
  PROVE  IInv'
<1> USE DEF IInv
<1>1. rec \in [Sessions -> Records] /\ conn \in Seq(Connections)
  BY DEF InvOf
<1>2. ASSUME NEW k \in DOMAIN conn
      PROVE  /\ FlushedOf(c)[k] \in Connections
             /\ FlushedOf(c)[k].session = conn[k].session
             /\ FlushedOf(c)[k].client = conn[k].client
             /\ FlushedOf(c)[k].token = conn[k].token
             /\ FlushedOf(c)[k].server = conn[k].server
             /\ FlushedOf(c)[k].late = conn[k].late
  <2> DEFINE s == conn[k].session
             d == [conn[k] EXCEPT !.sent = @ \o rec[s].pump]
  <2>1. conn[k] \in Connections
    BY <1>1
  <2>2. s \in Sessions /\ conn[k].sent \in Seq(Nat)
    BY <2>1 DEF Connections
  <2>3. rec[s].pump \in Seq(Nat)
    BY <1>1, <2>2 DEF Records
  <2>4. conn[k].sent \o rec[s].pump \in Seq(Nat)
    BY <2>2, <2>3
  <2>5. /\ d \in Connections /\ d.session = s /\ d.client = conn[k].client
        /\ d.token = conn[k].token /\ d.server = conn[k].server /\ d.late = conn[k].late
    BY <2>1, <2>4 DEF Connections
  <2>6. FlushedOf(c)[k] = d \/ FlushedOf(c)[k] = conn[k]
    BY DEF FlushedOf, Attachments
  <2> QED
    BY <2>1, <2>5, <2>6
<1>3. DOMAIN conn' = DOMAIN conn
  BY DEF DetachClient, TokensDropped, Attachments
<1>4. ASSUME NEW k \in DOMAIN conn
      PROVE  /\ conn'[k] \in Connections
             /\ conn'[k].session = conn[k].session /\ conn'[k].client = conn[k].client
             /\ conn'[k].server = conn[k].server /\ conn'[k].late = conn[k].late
             /\ conn'[k].token = "issued" => conn[k].token = "issued" /\ conn[k].client # c
  <2> DEFINE v == FlushedOf(c)[k]
             d == [v EXCEPT !.token = "void"]
  <2>1. /\ v \in Connections /\ v.session = conn[k].session /\ v.client = conn[k].client
        /\ v.token = conn[k].token /\ v.server = conn[k].server /\ v.late = conn[k].late
    BY <1>2
  <2>2. /\ d \in Connections /\ d.session = v.session /\ d.client = v.client
        /\ d.token = "void" /\ d.server = v.server /\ d.late = v.late
    BY <2>1 DEF Connections
  <2>3. conn'[k] = IF conn[k].client = c /\ conn[k].token = "issued" THEN d ELSE v
    BY DEF DetachClient, TokensDropped, Attachments
  <2> HIDE DEF d, v
  <2> QED
    BY <2>1, <2>2, <2>3
<1>5. conn' \in Seq(Connections)
  <2>1. conn' = [k \in DOMAIN conn |-> conn'[k]]
    BY <1>3 DEF DetachClient, TokensDropped, Attachments
  <2>2. DOMAIN conn = 1 .. Len(conn) /\ Len(conn) \in Nat
    BY <1>1
  <2> QED
    BY <1>4, <2>1, <2>2
<1>6. rec' \in [Sessions -> Records] /\ \A s \in Sessions : StatusOK(rec'[s])
  BY <1>1, ClearedOK DEF DetachClient, InvOf, StatusOK
<1>7. ASSUME NEW s \in Sessions
      PROVE  SocketOK(rec'[s], s, conn')
  <2>1. SocketOK(rec[s], s, conn) /\ rec[s] \in Records
    BY DEF InvOf
  <2>2. rec'[s] = IF rec[s].client = c THEN Cleared(rec[s]) ELSE rec[s]
    BY DEF DetachClient
  <2>3. rec'[s].socket # 0 => rec'[s] = rec[s]
    BY <2>1, <2>2, ClearedOK
  <2> QED
    BY <1>3, <1>4, <2>1, <2>3 DEF SocketOK, Serves
<1>8. \A k \in DOMAIN conn' : IssuedOK(conn'[k], online')
  BY <1>3, <1>4 DEF InvOf, IssuedOK, DetachClient
<1>9. online' \subseteq Clients
  BY DEF DetachClient, InvOf
<1> QED
  BY <1>5, <1>6, <1>7, <1>8, <1>9 DEF InvOf

LEMMA ClientStepOK ==
  ASSUME IInv, NEW c \in Clients, ClientStep(c)
  PROVE  IInv'
<1> USE DEF IInv
<1>1. rec \in [Sessions -> Records] /\ conn \in Seq(Connections)
  BY DEF InvOf
<1>2. ASSUME NEW s \in Sessions, AttachSession(s, c)
      PROVE  IInv'
  <2>1. rec[s].out \in Nat
    BY <1>1 DEF Records
  <2>2. conn' = Append(conn, Attachment(s, c, rec[s].out)) /\ rec' = rec /\ online' = online
    BY <1>2 DEF AttachSession
  <2> QED
    BY <2>1, <2>2, TokenIssued
<1>3. ASSUME NEW s \in Sessions, CreateSession(s, c)
      PROVE  IInv'
  <2>1. CASE rec' = [rec EXCEPT ![s] = Started] /\ conn' = Append(conn, Attachment(s, c, 0))
    <3>1. InvOf([rec EXCEPT ![s] = Started], conn, online)
      BY <1>1, StartedOK, RecordChanges
    <3> QED
      BY <1>3, <2>1, <3>1, TokenIssued DEF CreateSession
  <2>2. CASE rec' = [rec EXCEPT ![s] = NotStarted] /\ UNCHANGED conn
    BY <1>1, <1>3, <2>2, StartedOK, RecordChanges DEF CreateSession
  <2> QED
    BY <1>3, <2>1, <2>2 DEF CreateSession
<1>4. ASSUME NEW s \in Sessions, NEW t \in Sessions, Restarted(s, t, c)
      PROVE  IInv'
  <2> DEFINE e == AfterClose(rec[s], "restart")
             r1 == [rec EXCEPT ![s] = e]
             c1 == Flushed(conn, rec[s])
  <2>1. e \in Records /\ StatusOK(e) /\ e.socket = 0
    BY <1>1, <1>4, AfterCloseOK DEF Restarted, ProcessEnded, Commands, InvOf
  <2>2. InvOf(r1, c1, online)
    BY <1>1, <2>1, RecordChanges
  <2>3. r1 \in [Sessions -> Records]
    BY <2>2 DEF InvOf
  <2> HIDE DEF e
  <2>4. CASE rec' = [rec EXCEPT ![s] = e, ![t] = Started] /\ conn' = Append(c1, Attachment(t, c, 0))
    <3>1. rec' = [r1 EXCEPT ![t] = Started]
      BY <2>4
    <3> HIDE DEF r1, c1
    <3>2. InvOf([r1 EXCEPT ![t] = Started], c1, online)
      BY <2>2, <2>3, StartedOK, RecordChanges
    <3> QED
      BY <1>4, <2>4, <3>1, <3>2, TokenIssued DEF Restarted
  <2>5. CASE rec' = [rec EXCEPT ![s] = e, ![t] = NotStarted] /\ conn' = c1
    <3>1. rec' = [r1 EXCEPT ![t] = NotStarted]
      BY <2>5
    <3> HIDE DEF r1, c1
    <3>2. InvOf([r1 EXCEPT ![t] = NotStarted], c1, online)
      BY <2>2, <2>3, StartedOK, RecordChanges
    <3> QED
      BY <1>4, <2>5, <3>1, <3>2 DEF Restarted
  <2> QED
    BY <1>4, <2>4, <2>5 DEF Restarted, e
<1> QED
  BY <1>2, <1>3, <1>4, DetachClientOK DEF ClientStep

(* After a crash no process, socket or token is left.                      *)
LEMMA CrashOK ==
  ASSUME IInv, Crash
  PROVE  IInv'
<1> USE DEF IInv
<1>1. rec \in [Sessions -> Records] /\ conn \in Seq(Connections)
  BY DEF InvOf
<1>2. ASSUME NEW s \in Sessions
      PROVE  /\ rec'[s] \in Records /\ rec'[s].socket = 0 /\ StatusOK(rec'[s])
  <2> DEFINE a == Cleared(rec[s])
             b == [a EXCEPT !.process = FALSE, !.awaited = {}]
             d == [b EXCEPT !.status = Restored(@)]
  <2>1. a \in Records /\ a.socket = 0
    BY <1>1, ClearedOK
  <2>2. b \in Records /\ b.socket = 0 /\ b.process = FALSE
    BY <2>1 DEF Records
  <2>3. Restored(b.status) \in Statuses /\ Restored(b.status) # "running"
    BY <2>2 DEF Records, Statuses, Restored
  <2>4. d \in Records /\ d.socket = 0 /\ d.process = FALSE /\ d.status # "running"
    BY <2>2, <2>3 DEF Records
  <2>5. rec'[s] = [a EXCEPT !.process = FALSE, !.awaited = {}, !.status = Restored(@)]
    BY DEF Crash
  <2>6. rec'[s] = d
    BY <2>1, <2>5 DEF Records
  <2> QED
    BY <2>4, <2>6 DEF StatusOK
<1>3. ASSUME NEW k \in DOMAIN conn
      PROVE  conn'[k] \in Connections /\ conn'[k].token = "void"
  <2> DEFINE a == [conn[k] EXCEPT !.server = "closed", !.token = "void"]
             d == [a EXCEPT !.peer = "none", !.sent = << >>]
  <2>1. conn[k] \in Connections /\ << >> \in Seq(Nat)
    BY <1>1
  <2>2. a \in Connections /\ a.token = "void"
    BY <2>1 DEF Connections
  <2>3. d \in Connections /\ d.token = "void"
    BY <2>1, <2>2 DEF Connections
  <2>4. conn'[k] = d
    BY <2>1 DEF Crash, Attachments, Connections
  <2> QED
    BY <2>3, <2>4
<1>4. conn' = [k \in DOMAIN conn |-> conn'[k]] /\ DOMAIN conn' = DOMAIN conn
  BY DEF Crash, Attachments
<1>5. conn' \in Seq(Connections)
  <2>1. DOMAIN conn = 1 .. Len(conn) /\ Len(conn) \in Nat
    BY <1>1
  <2> QED
    BY <1>3, <1>4, <2>1
<1>6. rec' \in [Sessions -> Records]
  BY <1>2 DEF Crash
<1>7. online' \subseteq Clients
  BY DEF Crash, InvOf
<1> QED
  BY <1>2, <1>3, <1>4, <1>5, <1>6, <1>7 DEF InvOf, SocketOK, IssuedOK

LEMMA StepOK == IInv /\ [Next]_vars => IInv'
<1> SUFFICES ASSUME IInv, [Next]_vars
             PROVE  IInv'
  OBVIOUS
<1>1. CASE UNCHANGED vars
  BY <1>1 DEF vars, IInv
<1> QED
  BY <1>1, SessionStepOK, ClientStepOK, SocketStepOK, CrashOK DEF Next
-----------------------------------------------------------------------------
(* Records, sockets and tokens agree at every step.                        *)
THEOREM InvariantHolds == Spec => []IInv
BY InitOK, StepOK, PTL DEF Spec

(* The records and connections keep their types, and a socket is dropped   *)
(* before its unanswered heartbeats exceed StaleBeats (heartbeatTick).     *)
THEOREM TypeCorrect == Spec => []TypeOK
<1>1. ASSUME IInv PROVE TypeOK
  <2>1. rec \in [Sessions -> Records] /\ conn \in Seq(Connections)
    BY <1>1 DEF IInv, InvOf
  <2>2. \A s \in Sessions : rec[s].socket \in {0} \cup Attachments
    BY <1>1 DEF IInv, InvOf, SocketOK, Serves, Attachments
  <2>3. online \subseteq Clients
    BY <1>1 DEF IInv, InvOf
  <2> QED
    BY <2>1, <2>2, <2>3 DEF TypeOK, Records, Connections
<1> QED
  BY <1>1, InvariantHolds, PTL

(* Stop, close, restart, exit and a restart of the server, in any order,   *)
(* leave a record that tells whether its process runs.                     *)
THEOREM StatusAlwaysTrue == Spec => []StatusIsTrue
<1>1. IInv => StatusIsTrue
  BY DEF IInv, InvOf, StatusOK, StatusIsTrue
<1> QED
  BY <1>1, InvariantHolds, PTL

(* attachSocket, detachSocket, detachClient and the heartbeat: the socket  *)
(* that gets the output is open and of this session and client.            *)
THEOREM AttachedAlwaysOpen == Spec => []AttachedIsOpen
<1>1. IInv => AttachedIsOpen
  BY DEF IInv, InvOf, SocketOK, Serves, AttachedIsOpen
<1> QED
  BY <1>1, InvariantHolds, PTL

(* Only an upgrade opens a socket.                                         *)
LEMMA OpensByUpgrade ==
  ASSUME IInv, [Next]_vars, NEW k \in Attachments, ~Upgrade(k),
         conn'[k].server = "open"
  PROVE  conn[k].server = "open"
<1> USE DEF IInv
<1>1. /\ rec \in [Sessions -> Records] /\ conn \in Seq(Connections)
      /\ k \in DOMAIN conn /\ conn[k] \in Connections
  BY DEF InvOf, Attachments
<1>2. ASSUME NEW s \in Sessions, NEW p \in Records, p.socket = rec[s].socket
      PROVE  /\ Flushed(conn, p) \in Seq(Connections)
             /\ DOMAIN Flushed(conn, p) = DOMAIN conn
             /\ \A l \in DOMAIN conn : Flushed(conn, p)[l].server = conn[l].server
  <2>1. p.socket # 0 => p.socket \in DOMAIN conn
    BY <1>2 DEF InvOf, SocketOK, Serves
  <2> QED
    BY <1>1, <2>1, FlushedOK
<1>3. ASSUME NEW l \in DOMAIN conn, NEW d, NEW s \in Sessions,
             conn' = [Flushed(conn, rec[s]) EXCEPT ![l] = d], d.server # "open"
      PROVE  conn[k].server = "open"
  BY <1>1, <1>2, <1>3
<1>4. CASE \E s \in Sessions : SessionStep(s)
  <2> PICK s \in Sessions : SessionStep(s)
    BY <1>4
  <2>0. rec[s] \in Records
    BY <1>1
  <2>1. CASE Chunk(s)
    <3> DEFINE r == [rec[s] EXCEPT !.out = @ + 1, !.pump = Append(@, rec[s].out + 1)]
    <3>1. rec[s].out + 1 \in Nat /\ Append(rec[s].pump, rec[s].out + 1) \in Seq(Nat)
      BY <2>0 DEF Records
    <3>2. r \in Records /\ r.socket = rec[s].socket
      BY <2>0, <3>1 DEF Records
    <3>3. conn' = Flushed(conn, r) \/ conn' = conn
      BY <2>1 DEF Chunk
    <3> HIDE DEF r
    <3> QED
      BY <1>1, <1>2, <3>2, <3>3
  <2>2. CASE FlushTimer(s) \/ HandleExit(s) \/ Closed(s)
    <3>1. conn' = Flushed(conn, rec[s])
      BY <2>2 DEF FlushTimer, HandleExit, Closed
    <3> QED
      BY <1>1, <1>2, <2>0, <3>1
  <2>3. CASE Heartbeat(s)
    <3> DEFINE l == rec[s].socket
               d == [Flushed(conn, rec[s])[l] EXCEPT !.server = "closing"]
    <3>1. l \in DOMAIN conn
      BY <2>3 DEF Heartbeat, InvOf, SocketOK, Serves
    <3>2. d.server # "open"
      BY <1>2, <2>0, <3>1 DEF Connections
    <3>3. conn' = [Flushed(conn, rec[s]) EXCEPT ![l] = d] \/ conn' = conn
      BY <2>3 DEF Heartbeat
    <3> QED
      BY <1>3, <3>1, <3>2, <3>3
  <2>4. CASE Stopped(s) \/ \E command \in Commands : Request(s, command)
    BY <2>4 DEF Stopped, Request
  <2> QED
    BY <2>1, <2>2, <2>3, <2>4 DEF SessionStep
<1>5. CASE \E c \in Clients : ClientStep(c)
  <2> PICK c \in Clients : ClientStep(c)
    BY <1>5
  <2>1. ASSUME NEW s \in Sessions, CreateSession(s, c) \/ AttachSession(s, c)
        PROVE  conn[k].server = "open"
    <3>1. conn' = conn \/ \E t \in Sessions : \E o : conn' = Append(conn, Attachment(t, c, o))
      BY <2>1 DEF CreateSession, AttachSession
    <3>2. conn'[k] = conn[k]
      BY <1>1, <3>1
    <3> QED
      BY <3>2
  <2>2. ASSUME NEW s \in Sessions, NEW t \in Sessions, Restarted(s, t, c)
        PROVE  conn[k].server = "open"
    <3>1. \/ conn' = Flushed(conn, rec[s])
          \/ conn' = Append(Flushed(conn, rec[s]), Attachment(t, c, 0))
      BY <2>2 DEF Restarted
    <3> DEFINE f == Flushed(conn, rec[s])
    <3>2. f \in Seq(Connections) /\ k \in DOMAIN f
      BY <1>1, <1>2
    <3>3. conn'[k] = f[k]
      <4> HIDE DEF f
      <4>1. conn' = f \/ \E o : conn' = Append(f, o)
        BY <3>1 DEF f
      <4> QED
        BY <3>2, <4>1
    <3> QED
      BY <1>1, <1>2, <3>2, <3>3
  <2>3. CASE DetachClient(c)
    <3> DEFINE s == conn[k].session
               d == [conn[k] EXCEPT !.sent = @ \o rec[s].pump]
               v == FlushedOf(c)[k]
    <3>1. v = d \/ v = conn[k]
      BY <1>1 DEF FlushedOf, Attachments
    <3>2. d.server = conn[k].server /\ DOMAIN d = DOMAIN conn[k]
      BY <1>1 DEF Connections
    <3>3. v.server = conn[k].server /\ [v EXCEPT !.token = "void"].server = conn[k].server
      BY <1>1, <3>1, <3>2 DEF Connections
    <3>4. conn'[k] = v \/ conn'[k] = [v EXCEPT !.token = "void"]
      BY <2>3 DEF DetachClient, TokensDropped
    <3> QED
      BY <3>3, <3>4
  <2> QED
    BY <2>1, <2>2, <2>3 DEF ClientStep
<1>6. CASE \E l \in Attachments : SocketStep(l)
  <2> PICK l \in Attachments : SocketStep(l)
    BY <1>6
  <2> DEFINE s == conn[l].session
  <2>0. l \in DOMAIN conn /\ conn[l] \in Connections /\ s \in Sessions /\ rec[s] \in Records
    <3>1. l \in DOMAIN conn
      BY DEF Attachments
    <3>2. conn[l] \in Connections
      BY <1>1, <3>1
    <3>3. s \in Sessions
      BY <3>2 DEF Connections
    <3> QED
      BY <1>1, <3>1, <3>2, <3>3
  <2>1. CASE Upgrade(l)
    <3> DEFINE d == [Flushed(conn, rec[s])[l] EXCEPT !.token = "used",
                                                    !.server = "open", !.peer = "up"]
    <3>1. conn' = [Flushed(conn, rec[s]) EXCEPT ![l] = d] /\ l # k
      BY <2>1 DEF Upgrade
    <3> QED
      BY <1>1, <1>2, <2>0, <3>1
  <2>2. CASE PeerLeaves(l)
    <3> DEFINE d == [conn[l] EXCEPT !.peer = "away"]
    <3>1. conn' = [conn EXCEPT ![l] = d] /\ d.server = conn[l].server
      BY <2>0, <2>2 DEF PeerLeaves, Connections
    <3> QED
      BY <1>1, <2>0, <3>1
  <2>3. CASE SocketCloses(l)
    <3> DEFINE d == [Flushed(conn, rec[s])[l] EXCEPT !.server = "closed", !.peer = "none"]
    <3>1. d.server # "open"
      BY <1>2, <2>0 DEF Connections
    <3>2. conn' = [Flushed(conn, rec[s]) EXCEPT ![l] = d]
      BY <2>3 DEF SocketCloses
    <3> QED
      BY <1>3, <2>0, <3>1, <3>2
  <2>4. CASE Pong(l)
    BY <2>4 DEF Pong
  <2> QED
    BY <2>1, <2>2, <2>3, <2>4 DEF SocketStep
<1>7. CASE Crash
  <2> DEFINE d == [conn[k] EXCEPT !.server = "closed", !.token = "void", !.peer = "none",
                                  !.sent = << >>]
  <2>1. conn'[k] = d
    BY <1>7 DEF Crash
  <2>2. d.server = "closed"
    BY <1>1 DEF Connections
  <2> QED
    BY <2>1, <2>2
<1>8. CASE UNCHANGED vars
  BY <1>8 DEF vars
<1> QED
  BY <1>4, <1>5, <1>6, <1>7, <1>8 DEF Next

(* consumeAttachToken and detachClient: a token opens one socket, and none *)
(* after its client has gone.                                              *)
THEOREM TokensAlwaysDie == Spec => TokensDie
<1> DEFINE Fresh(k) == conn[k].server = "none" /\ (conn[k].client \in online \/ conn[k].late)
<1>1. ASSUME IInv, [Next]_vars, NEW k \in Attachments,
             conn[k].server # "open", conn'[k].server = "open"
      PROVE  Fresh(k)
  <2>1. Upgrade(k)
    BY <1>1, OpensByUpgrade
  <2> QED
    BY <1>1, <2>1 DEF Upgrade, Consumable, IInv, InvOf, IssuedOK, Attachments
<1>2. IInv /\ [Next]_vars =>
        [\A k \in Attachments :
           conn[k].server # "open" /\ conn'[k].server = "open" => Fresh(k)]_vars
  BY <1>1
<1> QED
  BY <1>2, InvariantHolds, PTL DEF Spec, TokensDie
-----------------------------------------------------------------------------
(* What has been sent, what is buffered and what is still to come.         *)

Rising(seq) == \A i, j \in DOMAIN seq : i < j => seq[i] < seq[j]

PumpOK(q) == Rising(q.pump) /\ \A j \in DOMAIN q.pump : q.pump[j] <= q.out

(* Connection a has got what was made after its token and before what q    *)
(* still buffers.                                                          *)
SentOK(a, q) ==
  /\ a.snapshot <= q.out /\ Rising(a.sent)
  /\ \A i \in DOMAIN a.sent :
       /\ a.snapshot < a.sent[i] /\ a.sent[i] <= q.out
       /\ \A j \in DOMAIN q.pump : a.sent[i] < q.pump[j]

(* The buffer goes to a socket whose token did not show it yet.            *)
PumpFresh(q, c) ==
  q.socket # 0 => \A j \in DOMAIN q.pump : c[q.socket].snapshot < q.pump[j]

Disjoint(a, b) == \A i \in DOMAIN a.sent : \A j \in DOMAIN b.sent : a.sent[i] # b.sent[j]

DeliveryOf(r, c) ==
  /\ \A k \in DOMAIN c : r[c[k].session].status # "none" /\ SentOK(c[k], r[c[k].session])
  /\ \A s \in Sessions : PumpOK(r[s]) /\ PumpFresh(r[s], c)
  /\ \A k, l \in DOMAIN c : k # l /\ c[k].session = c[l].session => Disjoint(c[k], c[l])

Delivery == DeliveryOf(rec, conn)

(* Records r and connections c become r2 and c2 by emptying the pumps of   *)
(* some sessions, each into the socket it has or into none.                *)
Empties(q, q2) ==
  /\ q2.out = q.out /\ (q.status # "none" => q2.status # "none")
  /\ q2.pump = << >> \/ (q2.pump = q.pump /\ (q2.socket = 0 \/ q2.socket = q.socket))

Gets(a, a2, k, q, q2) ==
  /\ a2.session = a.session /\ a2.snapshot = a.snapshot
  /\ \/ a2.sent = a.sent \/ a2.sent = << >>
     \/ q.socket = k /\ q2.pump = << >> /\ a2.sent = a.sent \o q.pump

(* Chunk x is one that a had, or one of the buffer for socket k.           *)
CameFrom(x, a, k, q) ==
  \/ \E j \in DOMAIN a.sent : x = a.sent[j]
  \/ q.socket = k /\ \E j \in DOMAIN q.pump : x = q.pump[j]

FreshFor(a, k, q) == q.socket = k => \A j \in DOMAIN q.pump : a.snapshot < q.pump[j]

LEMMA ChunksAreNumbers == \A seq \in Seq(Nat) : \A j \in DOMAIN seq : seq[j] \in Nat
OBVIOUS

LEMMA JoinFacts ==
  ASSUME NEW a \in Seq(Nat), NEW b \in Seq(Nat)
  PROVE  LET n == Len(a)
             m == Len(b) IN
         /\ n \in Nat /\ m \in Nat /\ DOMAIN a = 1 .. n /\ DOMAIN b = 1 .. m
         /\ DOMAIN (a \o b) = 1 .. n + m
         /\ \A i \in 1 .. n : (a \o b)[i] = a[i] /\ a[i] \in Nat
         /\ \A i \in n + 1 .. n + m :
              (a \o b)[i] = b[i - n] /\ i - n \in 1 .. m /\ b[i - n] \in Nat
<1> DEFINE n == Len(a)
           m == Len(b)
           t == a \o b
<1>1. n \in Nat /\ m \in Nat /\ DOMAIN a = 1 .. n /\ DOMAIN b = 1 .. m
  BY LenProperties
<1>2. /\ t \in Seq(Nat) /\ Len(t) = n + m
      /\ \A i \in 1 .. n + m : t[i] = IF i <= n THEN a[i] ELSE b[i - n]
  BY ConcatProperties
<1>3. DOMAIN t = 1 .. n + m
  BY <1>2, LenProperties
<1>4. (\A i \in 1 .. n : a[i] \in Nat) /\ (\A i \in 1 .. m : b[i] \in Nat)
  BY <1>1
<1> HIDE DEF n, m, t
<1>5. \A i \in 1 .. n : t[i] = a[i] /\ a[i] \in Nat
  BY <1>1, <1>2, <1>4
<1>6. \A i \in n + 1 .. n + m : t[i] = b[i - n] /\ i - n \in 1 .. m /\ b[i - n] \in Nat
  BY <1>1, <1>2, <1>4
<1> QED
  BY <1>1, <1>3, <1>5, <1>6 DEF n, m, t

LEMMA SentMoves ==
  ASSUME NEW a \in Connections, NEW a2 \in Connections, NEW q \in Records, NEW q2 \in Records,
         NEW k, FreshFor(a, k, q), SentOK(a, q), PumpOK(q),
         Empties(q, q2), Gets(a, a2, k, q, q2)
  PROVE  SentOK(a2, q2) /\ \A i \in DOMAIN a2.sent : CameFrom(a2.sent[i], a, k, q)
<1>1. /\ a.sent \in Seq(Nat) /\ q.pump \in Seq(Nat) /\ a2.snapshot = a.snapshot /\ q2.out = q.out
      /\ a.snapshot \in Nat /\ q.out \in Nat
  BY DEF Connections, Records, Empties, Gets
<1>2. \A j \in DOMAIN q2.pump : j \in DOMAIN q.pump /\ q2.pump[j] = q.pump[j]
  BY DEF Empties
<1>3. CASE a2.sent = a.sent
  BY <1>1, <1>2, <1>3 DEF SentOK, CameFrom
<1>4. CASE a2.sent = << >>
  BY <1>1, <1>4 DEF SentOK, Rising, CameFrom
<1>5. CASE q.socket = k /\ q2.pump = << >> /\ a2.sent = a.sent \o q.pump
  <2> DEFINE t == a.sent \o q.pump
             n == Len(a.sent)
             m == Len(q.pump)
  <2>1. /\ n \in Nat /\ m \in Nat /\ DOMAIN a.sent = 1 .. n /\ DOMAIN q.pump = 1 .. m
        /\ DOMAIN t = 1 .. n + m
        /\ \A i \in 1 .. n : t[i] = a.sent[i] /\ a.sent[i] \in Nat
        /\ \A i \in n + 1 .. n + m : t[i] = q.pump[i - n] /\ i - n \in 1 .. m
                                     /\ q.pump[i - n] \in Nat
    BY <1>1, JoinFacts
  <2> HIDE DEF t, n, m
  <2>2. \A i \in 1 .. n + m : i \in 1 .. n \/ i \in n + 1 .. n + m
    BY <2>1
  <2>3. \A i \in 1 .. n : t[i] > a.snapshot /\ t[i] <= q.out
                          /\ \A j \in 1 .. m : t[i] < q.pump[j]
    BY <1>1, <2>1 DEF SentOK
  <2>4. \A i \in n + 1 .. n + m : t[i] > a.snapshot /\ t[i] <= q.out
    BY <1>1, <1>5, <2>1 DEF PumpOK, FreshFor
  <2>5. ASSUME NEW i \in 1 .. n + m, NEW j \in 1 .. n + m, i < j PROVE t[i] < t[j]
    <3>1. CASE i \in 1 .. n /\ j \in 1 .. n
      BY <1>1, <2>1, <2>5, <3>1 DEF SentOK, Rising
    <3>2. CASE i \in 1 .. n /\ j \in n + 1 .. n + m
      BY <2>1, <2>3, <3>2
    <3>3. CASE i \in n + 1 .. n + m
      <4>1. j \in n + 1 .. n + m
        BY <2>1, <2>2, <2>5, <3>3
      <4>2. i - n \in 1 .. m /\ j - n \in 1 .. m /\ i - n < j - n
        BY <2>1, <2>5, <3>3, <4>1
      <4> QED
        BY <2>1, <3>3, <4>1, <4>2 DEF PumpOK, Rising
    <3> QED
      BY <2>2, <3>1, <3>2, <3>3
  <2>6. a2.sent = t /\ DOMAIN q2.pump = {} /\ a.snapshot <= q.out
    BY <1>5 DEF t, SentOK
  <2>7. \A i \in DOMAIN t : t[i] > a.snapshot /\ t[i] <= q.out /\ t[i] \in Nat
    BY <2>1, <2>2, <2>3, <2>4
  <2>8. SentOK(a2, q2)
    BY <1>1, <2>1, <2>5, <2>6, <2>7 DEF SentOK, Rising
  <2> QED
    BY <1>5, <2>1, <2>2, <2>6, <2>8 DEF CameFrom
<1> QED
  BY <1>3, <1>4, <1>5 DEF Gets

LEMMA DeliveryMoves ==
  ASSUME NEW r, NEW c, NEW on, NEW r2 \in [Sessions -> Records], NEW c2 \in Seq(Connections),
         InvOf(r, c, on), DeliveryOf(r, c), DOMAIN c2 = DOMAIN c,
         \A s \in Sessions : Empties(r[s], r2[s]),
         \A k \in DOMAIN c : Gets(c[k], c2[k], k, r[c[k].session], r2[c[k].session])
  PROVE  DeliveryOf(r2, c2)
<1>1. r \in [Sessions -> Records] /\ c \in Seq(Connections)
  BY DEF InvOf
<1>2. ASSUME NEW k \in DOMAIN c
      PROVE  /\ c[k] \in Connections /\ c2[k] \in Connections /\ c[k].session \in Sessions
             /\ c2[k].session = c[k].session /\ c2[k].snapshot = c[k].snapshot
             /\ k # 0
  <2>1. c[k] \in Connections /\ c2[k] \in Connections /\ k # 0
    BY <1>1
  <2> QED
    BY <2>1 DEF Connections, Gets
<1>3. ASSUME NEW k \in DOMAIN c
      PROVE  /\ SentOK(c2[k], r2[c[k].session])
             /\ \A i \in DOMAIN c2[k].sent : CameFrom(c2[k].sent[i], c[k], k, r[c[k].session])
  <2> DEFINE s == c[k].session
  <2>1. /\ r[s] \in Records /\ r2[s] \in Records /\ s \in Sessions
        /\ SentOK(c[k], r[s]) /\ PumpOK(r[s])
        /\ FreshFor(c[k], k, r[s])
        /\ Empties(r[s], r2[s]) /\ Gets(c[k], c2[k], k, r[s], r2[s])
    BY <1>1, <1>2 DEF DeliveryOf, PumpFresh, FreshFor
  <2> HIDE DEF s
  <2>2. SentOK(c2[k], r2[s]) /\ \A i \in DOMAIN c2[k].sent : CameFrom(c2[k].sent[i], c[k], k, r[s])
    BY <1>2, <2>1, SentMoves
  <2> QED
    BY <2>2 DEF s
<1>4. ASSUME NEW k \in DOMAIN c2
      PROVE  r2[c2[k].session].status # "none" /\ SentOK(c2[k], r2[c2[k].session])
  BY <1>2, <1>3 DEF DeliveryOf, Empties
<1>5. ASSUME NEW s \in Sessions
      PROVE  PumpOK(r2[s]) /\ PumpFresh(r2[s], c2)
  <2>1. PumpOK(r[s]) /\ PumpFresh(r[s], c) /\ Empties(r[s], r2[s])
    BY DEF DeliveryOf
  <2>2. CASE r2[s].pump = << >>
    BY <2>2 DEF PumpOK, PumpFresh, Rising
  <2>3. CASE r2[s].pump = r[s].pump /\ (r2[s].socket = 0 \/ r2[s].socket = r[s].socket)
    <3>1. r[s].socket # 0 => r[s].socket \in DOMAIN c
      BY DEF InvOf, SocketOK, Serves
    <3> QED
      BY <1>2, <2>1, <2>3, <3>1 DEF PumpOK, PumpFresh, Empties
  <2> QED
    BY <2>1, <2>2, <2>3 DEF Empties
<1>6. ASSUME NEW k \in DOMAIN c2, NEW l \in DOMAIN c2, k # l, c2[k].session = c2[l].session,
             NEW i \in DOMAIN c2[k].sent, NEW j \in DOMAIN c2[l].sent
      PROVE  c2[k].sent[i] # c2[l].sent[j]
  <2> DEFINE q == r[c[k].session]
             Old(m, x) == \E n \in DOMAIN c[m].sent : x = c[m].sent[n]
             New(m, x) == q.socket = m /\ \E n \in DOMAIN q.pump : x = q.pump[n]
             x == c2[k].sent[i]
             y == c2[l].sent[j]
  <2>1. c[k].session = c[l].session /\ c[k].session \in Sessions
    BY <1>2, <1>6
  <2>2. (Old(k, x) \/ New(k, x)) /\ (Old(l, y) \/ New(l, y))
    BY <1>3, <2>1 DEF CameFrom
  <2>3. SentOK(c[k], q) /\ SentOK(c[l], q) /\ Disjoint(c[k], c[l])
    BY <1>6, <2>1 DEF DeliveryOf
  <2>4. ASSUME NEW m \in DOMAIN c, SentOK(c[m], q), NEW n \in DOMAIN c[m].sent,
               NEW p \in DOMAIN q.pump
        PROVE  c[m].sent[n] # q.pump[p]
    <3>1. c[m].sent \in Seq(Nat) /\ q.pump \in Seq(Nat)
      BY <1>1, <1>2, <2>1 DEF Connections, Records
    <3>2. c[m].sent[n] \in Nat /\ q.pump[p] \in Nat
      BY <3>1, ChunksAreNumbers
    <3> QED
      BY <2>4, <3>2 DEF SentOK
  <2>5. ~(New(k, x) /\ New(l, y))
    BY <1>6
  <2>6. CASE Old(k, x) /\ Old(l, y)
    BY <2>3, <2>6 DEF Disjoint
  <2>7. CASE Old(k, x) /\ New(l, y)
    BY <2>3, <2>4, <2>7
  <2>8. CASE New(k, x) /\ Old(l, y)
    BY <2>3, <2>4, <2>8
  <2> QED
    BY <2>2, <2>5, <2>6, <2>7, <2>8
<1> QED
  BY <1>4, <1>5, <1>6 DEF DeliveryOf, Disjoint

(* A new token, for a session that is known.                               *)
LEMMA TokenDelivers ==
  ASSUME NEW r, NEW c, NEW on, InvOf(r, c, on), DeliveryOf(r, c), NEW s \in Sessions,
         r[s].status # "none", NEW a \in Clients, NEW out \in Nat, out <= r[s].out
  PROVE  DeliveryOf(r, Append(c, Attachment(s, a, out)))
<1> DEFINE n == Attachment(s, a, out)
           c2 == Append(c, n)
           m == Len(c) + 1
<1>1. r \in [Sessions -> Records] /\ c \in Seq(Connections)
  BY DEF InvOf
<1>2. n.session = s /\ n.snapshot = out /\ n.sent = << >> /\ n \in Connections
  BY DEF Attachment, Connections
<1>3. SentOK(n, r[s])
  BY <1>2 DEF SentOK, Rising
<1> HIDE DEF n
<1>4. /\ DOMAIN c2 = DOMAIN c \cup {m} /\ c2[m] = n
      /\ \A k \in DOMAIN c : c2[k] = c[k]
  BY <1>1, <1>2
<1> HIDE DEF c2, m
<1>5. ASSUME NEW k \in DOMAIN c2
      PROVE  r[c2[k].session].status # "none" /\ SentOK(c2[k], r[c2[k].session])
  BY <1>2, <1>3, <1>4 DEF DeliveryOf
<1>6. ASSUME NEW t \in Sessions
      PROVE  PumpOK(r[t]) /\ PumpFresh(r[t], c2)
  <2>1. r[t].socket # 0 => r[t].socket \in DOMAIN c
    BY DEF InvOf, SocketOK, Serves
  <2> QED
    BY <1>4, <2>1 DEF DeliveryOf, PumpFresh
<1>7. ASSUME NEW k \in DOMAIN c2, NEW l \in DOMAIN c2, k # l, c2[k].session = c2[l].session
      PROVE  Disjoint(c2[k], c2[l])
  <2>1. CASE c2[k] = n \/ c2[l] = n
    BY <1>2, <2>1 DEF Disjoint
  <2>2. CASE k \in DOMAIN c /\ l \in DOMAIN c
    BY <1>4, <1>7, <2>2 DEF DeliveryOf
  <2> QED
    BY <1>4, <2>1, <2>2
<1> QED
  BY <1>5, <1>6, <1>7 DEF DeliveryOf, c2, n

(* A session that starts: no token has been issued for it.                 *)
NoToken(s, c) == \A k \in DOMAIN c : c[k].session # s

LEMMA StartDelivers ==
  ASSUME NEW r \in [Sessions -> Records], NEW c \in Seq(Connections), DeliveryOf(r, c),
         NEW s \in Sessions, NEW q \in Records, q.pump = << >>, q.status # "none", NoToken(s, c)
  PROVE  DeliveryOf([r EXCEPT ![s] = q], c)
<1> DEFINE r2 == [r EXCEPT ![s] = q]
<1>1. r2[s] = q /\ \A t \in Sessions : t # s => r2[t] = r[t]
  OBVIOUS
<1>2. PumpOK(q) /\ PumpFresh(q, c)
  BY DEF PumpOK, PumpFresh, Rising
<1>3. ASSUME NEW k \in DOMAIN c PROVE r2[c[k].session] = r[c[k].session]
  <2>1. c[k] \in Connections
    OBVIOUS
  <2>2. c[k].session \in Sessions /\ c[k].session # s
    BY <2>1 DEF Connections, NoToken
  <2> QED
    BY <1>1, <2>2
<1> HIDE DEF r2
<1> QED
  BY <1>1, <1>2, <1>3 DEF DeliveryOf, r2

LEMMA AppendFacts ==
  ASSUME NEW a \in Seq(Nat), NEW x \in Nat
  PROVE  LET n == Len(a)
             b == Append(a, x) IN
         /\ n \in Nat /\ DOMAIN a = 1 .. n /\ DOMAIN b = 1 .. n + 1
         /\ b[n + 1] = x /\ \A j \in 1 .. n : b[j] = a[j] /\ a[j] \in Nat
<1> DEFINE n == Len(a)
           b == Append(a, x)
<1>1. n \in Nat /\ DOMAIN a = 1 .. n /\ \A j \in 1 .. n : a[j] \in Nat
  BY LenProperties
<1>2. /\ b \in Seq(Nat) /\ Len(b) = n + 1 /\ b[n + 1] = x
      /\ \A j \in 1 .. n : b[j] = a[j]
  BY AppendProperties
<1>3. DOMAIN b = 1 .. n + 1
  BY <1>2, LenProperties
<1> QED
  BY <1>1, <1>2, <1>3

(* A chunk of output: q becomes q2.                                        *)
Buffered(q, q2) ==
  /\ q2.out = q.out + 1 /\ q2.pump = Append(q.pump, q.out + 1)
  /\ q2.status = q.status /\ q2.socket = q.socket

LEMMA ChunkDelivers ==
  ASSUME NEW r, NEW c, NEW on, InvOf(r, c, on), DeliveryOf(r, c), NEW s \in Sessions,
         NEW q \in Records, Buffered(r[s], q)
  PROVE  DeliveryOf([r EXCEPT ![s] = q], c)
<1> DEFINE r2 == [r EXCEPT ![s] = q]
           p == r[s].pump
           n == Len(p)
           o == r[s].out
<1>0. q.out = o + 1 /\ q.status = r[s].status /\ q.socket = r[s].socket
  BY DEF Buffered
<1>1. r \in [Sessions -> Records] /\ c \in Seq(Connections)
  BY DEF InvOf
<1>2. r2[s] = q /\ \A t \in Sessions : t # s => r2[t] = r[t]
  BY <1>1
<1> HIDE DEF r2
<1>3. p \in Seq(Nat) /\ o \in Nat
  BY <1>1 DEF Records
<1>4. PumpOK(r[s]) /\ PumpFresh(r[s], c)
  BY DEF DeliveryOf
<1> HIDE DEF p, o
<1>5. /\ n \in Nat /\ DOMAIN p = 1 .. n /\ DOMAIN q.pump = 1 .. n + 1
      /\ q.pump[n + 1] = o + 1 /\ \A j \in 1 .. n : q.pump[j] = p[j] /\ p[j] \in Nat
  <2>1. o + 1 \in Nat /\ q.pump = Append(p, o + 1)
    BY <1>3 DEF Buffered, p, o
  <2> HIDE DEF n
  <2> QED
    BY <1>3, <2>1, AppendFacts DEF n
<1> HIDE DEF n
<1>6. \A j \in 1 .. n + 1 : j \in 1 .. n \/ j = n + 1
  BY <1>5
<1>7. \A j \in 1 .. n : p[j] <= o
  BY <1>4, <1>5 DEF PumpOK, p, o
<1>8. PumpOK(q)
  <2>1. \A j \in DOMAIN q.pump : q.pump[j] <= q.out
    BY <1>0, <1>3, <1>5, <1>6, <1>7
  <2>2. ASSUME NEW i \in 1 .. n + 1, NEW j \in 1 .. n + 1, i < j
        PROVE  q.pump[i] < q.pump[j]
    <3>1. i \in 1 .. n
      BY <1>5, <2>2
    <3>2. CASE j \in 1 .. n
      BY <1>4, <1>5, <2>2, <3>1, <3>2 DEF PumpOK, Rising, p
    <3>3. CASE j = n + 1
      <4> DEFINE x == q.pump[i]
                 y == q.pump[j]
      <4>1. x \in Nat /\ x <= o /\ y = o + 1
        BY <1>5, <1>7, <3>1, <3>3
      <4> HIDE DEF x, y
      <4>2. x < y
        BY <1>3, <4>1
      <4> QED
        BY <4>2 DEF x, y
    <3> QED
      BY <1>6, <3>2, <3>3
  <2> QED
    BY <1>5, <2>1, <2>2 DEF PumpOK, Rising
<1>9. ASSUME NEW k \in DOMAIN c, c[k].session = s
      PROVE  SentOK(c[k], q) /\ \A j \in DOMAIN q.pump : c[k].snapshot < q.pump[j] \/ j \in 1 .. n
  <2>1. SentOK(c[k], r[s]) /\ c[k] \in Connections
    BY <1>1, <1>9 DEF DeliveryOf
  <2>2. c[k].snapshot \in Nat /\ c[k].sent \in Seq(Nat)
    BY <2>1 DEF Connections
  <2>3. \A i \in DOMAIN c[k].sent : c[k].sent[i] \in Nat
    BY <2>2, ChunksAreNumbers
  <2>4. /\ c[k].snapshot <= o /\ Rising(c[k].sent)
        /\ \A i \in DOMAIN c[k].sent : c[k].snapshot < c[k].sent[i] /\ c[k].sent[i] <= o
        /\ \A i \in DOMAIN c[k].sent : \A j \in 1 .. n : c[k].sent[i] < p[j]
    BY <1>5, <2>1 DEF SentOK, p, o
  <2>5. o \in Nat /\ q.out = o + 1
    BY <1>0, <1>3
  <2> HIDE DEF o, p
  <2>6. ASSUME NEW i \in DOMAIN c[k].sent, NEW j \in DOMAIN q.pump
        PROVE  c[k].sent[i] < q.pump[j]
    <3> DEFINE x == c[k].sent[i]
    <3>1. x \in Nat /\ x <= o /\ \A l \in 1 .. n : x < p[l]
      BY <2>3, <2>4
    <3> HIDE DEF x
    <3>2. CASE j \in 1 .. n
      BY <1>5, <3>1, <3>2 DEF x
    <3>3. CASE j = n + 1
      <4>1. x < o + 1
        BY <2>5, <3>1
      <4> QED
        BY <1>5, <3>3, <4>1 DEF x
    <3> QED
      BY <1>5, <1>6, <3>2, <3>3
  <2>7. SentOK(c[k], q)
    <3>1. c[k].snapshot <= q.out
      BY <2>2, <2>4, <2>5
    <3>2. \A i \in DOMAIN c[k].sent : c[k].snapshot < c[k].sent[i] /\ c[k].sent[i] <= q.out
      BY <2>3, <2>4, <2>5
    <3> QED
      BY <2>4, <2>6, <3>1, <3>2 DEF SentOK
  <2>8. \A j \in DOMAIN q.pump : c[k].snapshot < q.pump[j] \/ j \in 1 .. n
    BY <1>5, <1>6, <2>2, <2>4, <2>5
  <2> QED
    BY <2>7, <2>8
<1>10. PumpFresh(q, c)
  <2>1. q.socket # 0 => q.socket \in DOMAIN c /\ c[q.socket].session = s
    BY <1>0 DEF InvOf, SocketOK, Serves
  <2> QED
    BY <1>0, <1>4, <1>5, <1>9, <2>1 DEF PumpFresh, p
<1>11. ASSUME NEW k \in DOMAIN c
       PROVE  r2[c[k].session].status # "none" /\ SentOK(c[k], r2[c[k].session])
  <2>1. c[k] \in Connections
    BY <1>1
  <2>2. c[k].session \in Sessions
    BY <2>1 DEF Connections
  <2> QED
    BY <1>0, <1>2, <1>9, <2>2 DEF DeliveryOf
<1>12. \A t \in Sessions : PumpOK(r2[t]) /\ PumpFresh(r2[t], c)
  BY <1>2, <1>8, <1>10 DEF DeliveryOf
<1> QED
  BY <1>11, <1>12 DEF DeliveryOf, r2

(* A step of session s: no other record changes, and only the socket of s  *)
(* gets something.                                                         *)
Passes(a, a2, k, s, q, q2) ==
  /\ a2.session = a.session /\ a2.snapshot = a.snapshot
  /\ a2.sent = a.sent \/ (a.session = s /\ q.socket = k /\ q2.pump = << >>
                                        /\ a2.sent = a.sent \o q.pump)

LEMMA StepMoves ==
  ASSUME IInv, IInv', Delivery, NEW s \in Sessions,
         \A t \in Sessions : t # s => rec'[t] = rec[t], Empties(rec[s], rec'[s]),
         DOMAIN conn' = DOMAIN conn,
         \A k \in DOMAIN conn : Passes(conn[k], conn'[k], k, s, rec[s], rec'[s])
  PROVE  Delivery'
<1>1. /\ InvOf(rec, conn, online) /\ DeliveryOf(rec, conn)
      /\ rec' \in [Sessions -> Records] /\ conn' \in Seq(Connections)
  BY DEF IInv, InvOf, Delivery
<1>2. \A t \in Sessions : Empties(rec[t], rec'[t])
  BY DEF Empties
<1>3. ASSUME NEW k \in DOMAIN conn
      PROVE  Gets(conn[k], conn'[k], k, rec[conn[k].session], rec'[conn[k].session])
  BY DEF Passes, Gets
<1>4. DeliveryOf(rec', conn')
  BY <1>1, <1>2, <1>3, DeliveryMoves
<1> QED
  BY <1>4 DEF Delivery

LEMMA FlushedPasses ==
  ASSUME NEW r, NEW c, NEW on, InvOf(r, c, on), NEW s \in Sessions, NEW q2, q2.pump = << >>
  PROVE  /\ Flushed(c, r[s]) \in Seq(Connections) /\ DOMAIN Flushed(c, r[s]) = DOMAIN c
         /\ \A k \in DOMAIN c : Passes(c[k], Flushed(c, r[s])[k], k, s, r[s], q2)
<1> DEFINE q == r[s]
           n == q.socket
           d == [c[n] EXCEPT !.sent = @ \o q.pump]
<1>1. r \in [Sessions -> Records] /\ c \in Seq(Connections) /\ q \in Records
  BY DEF InvOf
<1>2. n # 0 => n \in DOMAIN c /\ c[n].session = s
  BY DEF InvOf, SocketOK, Serves
<1>3. Flushed(c, q) \in Seq(Connections) /\ DOMAIN Flushed(c, q) = DOMAIN c
  BY <1>1, <1>2, FlushedOK
<1>4. CASE n = 0
  BY <1>3, <1>4 DEF Flushed, Passes
<1>5. CASE n # 0
  <2>1. c[n] \in Connections
    BY <1>1, <1>2, <1>5
  <2>2. d.session = c[n].session /\ d.snapshot = c[n].snapshot /\ d.sent = c[n].sent \o q.pump
    BY <2>1 DEF Connections
  <2>3. Flushed(c, q)[n] = d /\ \A k \in DOMAIN c : k # n => Flushed(c, q)[k] = c[k]
    BY <1>2, <1>5 DEF Flushed
  <2> HIDE DEF d, n, q
  <2>4. Passes(c[n], d, n, s, q, q2)
    BY <1>2, <1>5, <2>2 DEF Passes, n
  <2>5. \A k \in DOMAIN c : Passes(c[k], Flushed(c, q)[k], k, s, q, q2)
    BY <2>3, <2>4 DEF Passes
  <2> QED
    BY <1>3, <2>5 DEF q
<1> QED
  BY <1>4, <1>5

AllPass(c, g, s, q, q2) ==
  DOMAIN g = DOMAIN c /\ \A l \in DOMAIN c : Passes(c[l], g[l], l, s, q, q2)

SameOutput(a, b) == a.session = b.session /\ a.snapshot = b.snapshot /\ a.sent = b.sent

(* The flags of connection k change as well.                               *)
LEMMA FlagsPass ==
  ASSUME NEW c, NEW f \in Seq(Connections), NEW g, NEW s, NEW q, NEW q2, AllPass(c, f, s, q, q2),
         NEW k, NEW d, SameOutput(d, f[k]), g = [f EXCEPT ![k] = d]
  PROVE  AllPass(c, g, s, q, q2)
<1>1. DOMAIN g = DOMAIN c
  BY DEF AllPass
<1>2. ASSUME NEW l \in DOMAIN c PROVE Passes(c[l], g[l], l, s, q, q2)
  <2>1. Passes(c[l], f[l], l, s, q, q2) /\ l \in DOMAIN f
    BY DEF AllPass
  <2>2. SameOutput(g[l], f[l])
    BY <2>1 DEF SameOutput
  <2> QED
    BY <2>1, <2>2 DEF Passes, SameOutput
<1> QED
  BY <1>1, <1>2 DEF AllPass

LEMMA ClearedDrops ==
  ASSUME NEW r \in Records
  PROVE  Cleared(r).pump = << >> /\ Cleared(r).out = r.out /\ Cleared(r).status = r.status
         /\ DOMAIN Cleared(r) = DOMAIN r
BY DEF Cleared, Records

LEMMA SessionStepDelivers ==
  ASSUME IInv, IInv', Delivery, NEW s \in Sessions, SessionStep(s)
  PROVE  Delivery'
<1> DEFINE q == rec[s]
           f == Flushed(conn, q)
<1>1. /\ q \in Records /\ StatusOK(q) /\ SocketOK(q, s, conn) /\ InvOf(rec, conn, online)
      /\ rec \in [Sessions -> Records] /\ conn \in Seq(Connections)
  BY DEF IInv, InvOf
<1>2. \A k \in DOMAIN conn : \A q2 : Passes(conn[k], conn[k], k, s, q, q2)
  BY DEF Passes
<1>3. \A q2 : q2.pump = << >> =>
        /\ f \in Seq(Connections) /\ DOMAIN f = DOMAIN conn
        /\ \A k \in DOMAIN conn : Passes(conn[k], f[k], k, s, q, q2)
  BY <1>1, FlushedPasses
<1>4. Cleared(q).pump = << >> /\ Cleared(q).out = q.out /\ Cleared(q).status = q.status
      /\ Cleared(q) \in Records
  BY <1>1, ClearedDrops, ClearedOK
<1> HIDE DEF f, q
<1>5. CASE Chunk(s)
  <2> DEFINE o == [q EXCEPT !.out = @ + 1]
             r == [q EXCEPT !.out = @ + 1, !.pump = Append(@, q.out + 1)]
             e == [r EXCEPT !.pump = << >>]
             r1 == [rec EXCEPT ![s] = r]
  <2>1. q.out + 1 \in Nat
    BY <1>1 DEF Records
  <2>2. o \in Records
    BY <1>1, <2>1 DEF Records
  <2>3. Append(q.pump, q.out + 1) \in Seq(Nat) /\ << >> \in Seq(Nat)
    BY <1>1, <2>1 DEF Records
  <2>4. r \in Records /\ e \in Records
    BY <1>1, <2>2, <2>3 DEF Records
  <2>5. /\ r.out = q.out + 1 /\ r.pump = Append(q.pump, q.out + 1)
        /\ r.status = q.status /\ r.socket = q.socket /\ r.client = q.client
        /\ r.timer = q.timer /\ r.process = q.process /\ r.closed = q.closed
        /\ e.pump = << >> /\ e.out = r.out /\ e.status = r.status
    BY <1>1 DEF Records
  <2>6. \/ rec' = [rec EXCEPT ![s] = e] /\ conn' = Flushed(conn, r)
        \/ rec' = [rec EXCEPT ![s] = r] /\ conn' = conn
    BY <1>5 DEF Chunk, q
  <2>7. StatusOK(r)
    BY <1>1, <2>5 DEF StatusOK
  <2> HIDE DEF r, e
  <2>8. DeliveryOf(r1, conn)
    BY <1>1, <2>4, <2>5, ChunkDelivers DEF Delivery, Buffered, q
  <2>9. InvOf(r1, conn, online)
    BY <1>1, <2>4, <2>5, <2>7, RecordChanges DEF q
  <2>10. r1[s] = r /\ r1 \in [Sessions -> Records] /\ [rec EXCEPT ![s] = e] = [r1 EXCEPT ![s] = e]
    BY <1>1, <2>4
  <2> HIDE DEF r1
  <2>11. CASE rec' = [rec EXCEPT ![s] = e] /\ conn' = Flushed(conn, r)
    <3>1. /\ conn' \in Seq(Connections) /\ DOMAIN conn' = DOMAIN conn
          /\ \A k \in DOMAIN conn : Passes(conn[k], conn'[k], k, s, r, e)
      BY <2>5, <2>9, <2>10, <2>11, FlushedPasses
    <3>2. /\ rec' \in [Sessions -> Records] /\ rec'[s] = e /\ Empties(r, e)
          /\ \A t \in Sessions : t # s => rec'[t] = r1[t]
      BY <2>4, <2>5, <2>10, <2>11 DEF Empties
    <3>3. \A t \in Sessions : Empties(r1[t], rec'[t])
      BY <2>10, <3>2 DEF Empties
    <3>4. ASSUME NEW k \in DOMAIN conn
          PROVE  Gets(conn[k], conn'[k], k, r1[conn[k].session], rec'[conn[k].session])
      BY <2>10, <3>1, <3>2 DEF Passes, Gets
    <3>5. DeliveryOf(rec', conn')
      BY <2>8, <2>9, <3>1, <3>2, <3>3, <3>4, DeliveryMoves
    <3> QED
      BY <3>5 DEF Delivery
  <2>12. CASE rec' = [rec EXCEPT ![s] = r] /\ conn' = conn
    BY <2>8, <2>12 DEF Delivery, r1
  <2> QED
    BY <2>6, <2>11, <2>12
<1>6. CASE FlushTimer(s)
  <2> DEFINE e == [q EXCEPT !.pump = << >>]
  <2>1. rec' = [rec EXCEPT ![s] = e] /\ conn' = f
    BY <1>6 DEF FlushTimer, f, q
  <2>2. e.pump = << >> /\ e.out = q.out /\ e.status = q.status
    BY <1>1 DEF Records
  <2> HIDE DEF e
  <2>3. rec'[s] = e /\ \A t \in Sessions : t # s => rec'[t] = rec[t]
    BY <1>1, <2>1
  <2>4. Empties(rec[s], rec'[s])
    BY <2>2, <2>3 DEF Empties, q
  <2> QED
    BY <1>3, <2>1, <2>2, <2>3, <2>4, StepMoves DEF q
<1>7. CASE HandleExit(s)
  <2> DEFINE e == [Cleared(q) EXCEPT !.process = FALSE, !.status = "exited"]
  <2>1. rec' = [rec EXCEPT ![s] = e] /\ conn' = f
    BY <1>7 DEF HandleExit, f, q
  <2>2. e.pump = << >> /\ e.out = q.out /\ e.status = "exited"
    BY <1>4 DEF Records
  <2> HIDE DEF e
  <2>3. rec'[s] = e /\ \A t \in Sessions : t # s => rec'[t] = rec[t]
    BY <1>1, <2>1
  <2>4. Empties(rec[s], rec'[s])
    BY <2>2, <2>3 DEF Empties, q
  <2> QED
    BY <1>3, <2>1, <2>2, <2>3, <2>4, StepMoves DEF q
<1>8. CASE Heartbeat(s) /\ Stale(q)
  <2> DEFINE k == q.socket
             d == [f[k] EXCEPT !.server = "closing"]
             e == Cleared(q)
  <2>1. rec' = [rec EXCEPT ![s] = e] /\ conn' = [f EXCEPT ![k] = d]
    BY <1>8 DEF Heartbeat, f, q
  <2>2. k \in DOMAIN conn
    BY <1>1, <1>8 DEF Heartbeat, SocketOK, Serves, q
  <2>3. f \in Seq(Connections) /\ AllPass(conn, f, s, q, e)
    BY <1>3, <1>4 DEF AllPass
  <2>4. f[k] \in Connections
    BY <2>2, <2>3 DEF AllPass
  <2>5. SameOutput(d, f[k])
    BY <2>4 DEF Connections, SameOutput
  <2> HIDE DEF d, e, k
  <2>6. AllPass(conn, conn', s, q, e)
    BY <2>1, <2>3, <2>5, FlagsPass
  <2>7. rec'[s] = e /\ \A t \in Sessions : t # s => rec'[t] = rec[t]
    BY <1>1, <2>1
  <2>8. Empties(rec[s], rec'[s])
    BY <1>4, <2>7 DEF Empties, q, e
  <2> QED
    BY <2>6, <2>7, <2>8, StepMoves DEF q, AllPass
<1>9. ASSUME NEW e, rec' = [rec EXCEPT ![s] = e], conn' = conn, e.out = q.out,
             e.pump = q.pump, e.socket = q.socket, q.status # "none" => e.status # "none"
      PROVE  Delivery'
  <2>1. rec'[s] = e /\ \A t \in Sessions : t # s => rec'[t] = rec[t]
    BY <1>1, <1>9
  <2>2. Empties(rec[s], rec'[s])
    BY <1>9, <2>1 DEF Empties, q
  <2> QED
    BY <1>2, <1>9, <2>1, <2>2, StepMoves DEF q
<1>10. CASE Heartbeat(s) /\ ~Stale(q)
  <2> DEFINE e == [q EXCEPT !.quiet = @ + 1]
  <2>1. rec' = [rec EXCEPT ![s] = e] /\ conn' = conn
    BY <1>10 DEF Heartbeat, q
  <2>2. e.out = q.out /\ e.pump = q.pump /\ e.socket = q.socket /\ e.status = q.status
    BY <1>1 DEF Records
  <2> HIDE DEF e
  <2> QED
    BY <1>9, <2>1, <2>2
<1>11. CASE Stopped(s)
  <2> DEFINE e == [q EXCEPT !.awaited = @ \ {"stop"}, !.status = "stopped"]
  <2>1. rec' = [rec EXCEPT ![s] = e] /\ conn' = conn
    BY <1>11 DEF Stopped, q
  <2>2. e.out = q.out /\ e.pump = q.pump /\ e.socket = q.socket /\ e.status = "stopped"
    BY <1>1 DEF Records
  <2> HIDE DEF e
  <2> QED
    BY <1>9, <2>1, <2>2
<1>12. CASE Closed(s)
  <2> PICK command \in q.awaited \ {"stop"} :
           rec' = [rec EXCEPT ![s] = AfterClose(q, command)]
    BY <1>12 DEF Closed, q
  <2> DEFINE e == AfterClose(q, command)
  <2>1. rec' = [rec EXCEPT ![s] = e] /\ conn' = f
    BY <1>12 DEF Closed, f, q
  <2>2. e.pump = << >> /\ e.out = q.out /\ (q.status # "none" => e.status # "none")
    BY <1>4 DEF AfterClose, Records
  <2> HIDE DEF e
  <2>3. rec'[s] = e /\ \A t \in Sessions : t # s => rec'[t] = rec[t]
    BY <1>1, <2>1
  <2>4. Empties(rec[s], rec'[s])
    BY <2>2, <2>3 DEF Empties, q
  <2> QED
    BY <1>3, <2>1, <2>2, <2>3, <2>4, StepMoves DEF q
<1>13. ASSUME NEW command \in Commands, Request(s, command)
       PROVE  Delivery'
  <2> DEFINE e == [q EXCEPT !.awaited = @ \cup {command}]
  <2>1. rec' = [rec EXCEPT ![s] = e] /\ conn' = conn
    BY <1>13 DEF Request, q
  <2>2. e.out = q.out /\ e.pump = q.pump /\ e.socket = q.socket /\ e.status = q.status
    BY <1>1 DEF Records
  <2> HIDE DEF e
  <2> QED
    BY <1>9, <2>1, <2>2
<1> QED
  BY <1>5, <1>6, <1>7, <1>8, <1>10, <1>11, <1>12, <1>13 DEF SessionStep

LEMMA SocketStepDelivers ==
  ASSUME IInv, IInv', Delivery, NEW k \in Attachments, SocketStep(k)
  PROVE  Delivery'
<1> DEFINE s == conn[k].session
           q == rec[s]
           f == Flushed(conn, q)
<1>1. /\ k \in DOMAIN conn /\ conn[k] \in Connections /\ s \in Sessions
      /\ q \in Records /\ InvOf(rec, conn, online)
      /\ rec \in [Sessions -> Records] /\ conn \in Seq(Connections)
  <2>1. k \in DOMAIN conn /\ rec \in [Sessions -> Records] /\ conn \in Seq(Connections)
    BY DEF IInv, InvOf, Attachments
  <2>2. conn[k] \in Connections
    BY <2>1
  <2>3. s \in Sessions
    BY <2>2 DEF Connections
  <2> QED
    BY <2>1, <2>2, <2>3 DEF IInv
<1>2. \A q2 : AllPass(conn, conn, s, q, q2)
  BY DEF AllPass, Passes
<1>3. \A q2 : q2.pump = << >> => f \in Seq(Connections) /\ AllPass(conn, f, s, q, q2)
  BY <1>1, FlushedPasses DEF AllPass
<1>4. Cleared(q).pump = << >> /\ Cleared(q).out = q.out /\ Cleared(q).status = q.status
      /\ Cleared(q) \in Records
  BY <1>1, ClearedDrops, ClearedOK
<1> HIDE DEF f, q, s
<1>5. ASSUME NEW e, rec' = [rec EXCEPT ![s] = e], AllPass(conn, conn', s, q, e), e.out = q.out,
             e.pump = << >> \/ (e.pump = q.pump /\ e.socket = q.socket), e.status = q.status
      PROVE  Delivery'
  <2>1. rec'[s] = e /\ \A t \in Sessions : t # s => rec'[t] = rec[t]
    BY <1>1, <1>5
  <2>2. Empties(rec[s], rec'[s])
    BY <1>5, <2>1 DEF Empties, q
  <2> QED
    BY <1>1, <1>5, <2>1, <2>2, StepMoves DEF q, AllPass
<1>6. CASE Upgrade(k)
  <2> DEFINE a == [Cleared(q) EXCEPT !.socket = k, !.client = conn[k].client]
             e == StartHeartbeat(a)
             d == [f[k] EXCEPT !.token = "used", !.server = "open", !.peer = "up"]
  <2>1. rec' = [rec EXCEPT ![s] = e] /\ conn' = [f EXCEPT ![k] = d]
    BY <1>6 DEF Upgrade, f, q, s
  <2>2. a.pump = << >> /\ a.out = q.out /\ a.status = q.status /\ DOMAIN a = DOMAIN Cleared(q)
    BY <1>4 DEF Records
  <2>3. e.pump = << >> /\ e.out = q.out /\ e.status = q.status
    BY <1>4, <2>2 DEF StartHeartbeat, Records
  <2>4. f \in Seq(Connections) /\ AllPass(conn, f, s, q, e)
    BY <1>3, <2>3
  <2>5. f[k] \in Connections
    BY <1>1, <2>4 DEF AllPass
  <2>6. SameOutput(d, f[k])
    BY <2>5 DEF Connections, SameOutput
  <2> HIDE DEF d, e, a
  <2>7. AllPass(conn, conn', s, q, e)
    BY <2>1, <2>4, <2>6, FlagsPass
  <2> QED
    BY <1>5, <2>1, <2>3, <2>7
<1>7. CASE PeerLeaves(k)
  <2> DEFINE d == [conn[k] EXCEPT !.peer = "away"]
  <2>1. rec' = rec /\ conn' = [conn EXCEPT ![k] = d]
    BY <1>7 DEF PeerLeaves
  <2>2. SameOutput(d, conn[k])
    BY <1>1 DEF Connections, SameOutput
  <2> HIDE DEF d
  <2>3. AllPass(conn, conn', s, q, q)
    BY <1>1, <1>2, <2>1, <2>2, FlagsPass
  <2>4. rec' = [rec EXCEPT ![s] = q]
    BY <1>1, <2>1 DEF q
  <2> QED
    BY <1>5, <2>3, <2>4
<1>8. CASE SocketCloses(k)
  <2> DEFINE e == Cleared(q)
             d == [f[k] EXCEPT !.server = "closed", !.peer = "none"]
  <2>1. rec' = [rec EXCEPT ![s] = e] /\ conn' = [f EXCEPT ![k] = d]
    BY <1>8 DEF SocketCloses, DetachSocket, f, q, s
  <2>2. f \in Seq(Connections) /\ AllPass(conn, f, s, q, e)
    BY <1>3, <1>4
  <2>3. f[k] \in Connections
    BY <1>1, <2>2 DEF AllPass
  <2>4. SameOutput(d, f[k])
    BY <2>3 DEF Connections, SameOutput
  <2> HIDE DEF d
  <2>5. AllPass(conn, conn', s, q, e)
    BY <2>1, <2>2, <2>4, FlagsPass
  <2> QED
    BY <1>4, <1>5, <2>1, <2>5
<1>9. CASE Pong(k)
  <2> DEFINE e == [q EXCEPT !.quiet = 0]
  <2>1. rec' = [rec EXCEPT ![s] = e] /\ conn' = conn
    BY <1>9 DEF Pong, q, s
  <2>2. e.out = q.out /\ e.pump = q.pump /\ e.socket = q.socket /\ e.status = q.status
    BY <1>1 DEF Records
  <2> HIDE DEF e
  <2> QED
    BY <1>2, <1>5, <2>1, <2>2
<1> QED
  BY <1>6, <1>7, <1>8, <1>9 DEF SocketStep

LEMMA DetachClientDelivers ==
  ASSUME IInv, IInv', Delivery, NEW c \in Clients, DetachClient(c)
  PROVE  Delivery'
<1>1. /\ InvOf(rec, conn, online) /\ DeliveryOf(rec, conn)
      /\ rec \in [Sessions -> Records] /\ conn \in Seq(Connections)
      /\ rec' \in [Sessions -> Records] /\ conn' \in Seq(Connections)
  BY DEF IInv, InvOf, Delivery
<1>2. ASSUME NEW s \in Sessions
      PROVE  /\ Empties(rec[s], rec'[s])
             /\ rec[s].client = c => rec'[s].pump = << >>
  <2>1. rec'[s] = IF rec[s].client = c THEN Cleared(rec[s]) ELSE rec[s]
    BY DEF DetachClient
  <2> QED
    BY <1>1, <2>1, ClearedDrops DEF Empties
<1>3. DOMAIN conn' = DOMAIN conn
  BY DEF DetachClient, TokensDropped, Attachments
<1>4. ASSUME NEW k \in DOMAIN conn
      PROVE  Gets(conn[k], conn'[k], k, rec[conn[k].session], rec'[conn[k].session])
  <2> DEFINE s == conn[k].session
             v == FlushedOf(c)[k]
             d == [conn[k] EXCEPT !.sent = @ \o rec[s].pump]
             w == [v EXCEPT !.token = "void"]
  <2>1. conn[k] \in Connections
    BY <1>1
  <2>2. s \in Sessions
    BY <2>1 DEF Connections
  <2>3. /\ d.session = s /\ d.snapshot = conn[k].snapshot
        /\ d.sent = conn[k].sent \o rec[s].pump /\ DOMAIN d = DOMAIN conn[k]
    BY <2>1 DEF Connections
  <2>4. v = IF rec[s].client = c /\ rec[s].socket = k THEN d ELSE conn[k]
    BY DEF FlushedOf, Attachments
  <2>5. conn'[k] = IF conn[k].client = c /\ conn[k].token = "issued" THEN w ELSE v
    BY DEF DetachClient, TokensDropped, Attachments
  <2> HIDE DEF d
  <2>6. Gets(conn[k], v, k, rec[s], rec'[s])
    BY <1>2, <2>2, <2>3, <2>4 DEF Gets
  <2>7. DOMAIN v = DOMAIN conn[k]
    BY <2>3, <2>4
  <2> HIDE DEF v
  <2>8. SameOutput(conn'[k], v)
    BY <2>1, <2>5, <2>7 DEF SameOutput, Connections
  <2> QED
    BY <2>6, <2>8 DEF Gets, SameOutput
<1>5. DeliveryOf(rec', conn')
  BY <1>1, <1>2, <1>3, <1>4, DeliveryMoves
<1> QED
  BY <1>5 DEF Delivery

(* No token has been issued for a session that is not known.               *)
LEMMA NewSessionDelivers ==
  ASSUME NEW r, NEW c, InvOf(r, c, online), DeliveryOf(r, c), NEW t \in Sessions,
         r[t].status = "none", NEW a \in Clients
  PROVE  /\ DeliveryOf([r EXCEPT ![t] = NotStarted], c)
         /\ DeliveryOf([r EXCEPT ![t] = Started], Append(c, Attachment(t, a, 0)))
<1> DEFINE r2 == [r EXCEPT ![t] = Started]
<1>1. r \in [Sessions -> Records] /\ c \in Seq(Connections)
  BY DEF InvOf
<1>2. NoToken(t, c)
  BY DEF DeliveryOf, NoToken
<1>3. /\ Started.pump = << >> /\ Started.status = "running" /\ Started.out = 0
      /\ NotStarted.pump = << >> /\ NotStarted.status = "failed"
  BY DEF Started, NotStarted, Unused
<1>4. \A q \in Records : q.pump = << >> /\ q.status # "none" => DeliveryOf([r EXCEPT ![t] = q], c)
  BY <1>1, <1>2, StartDelivers
<1>5. DeliveryOf(r2, c) /\ DeliveryOf([r EXCEPT ![t] = NotStarted], c)
  BY <1>3, <1>4, StartedOK
<1>6. InvOf(r2, c, online)
  BY <1>1, StartedOK, RecordChanges
<1>7. r2[t] = Started
  BY <1>1
<1> HIDE DEF r2
<1>8. DeliveryOf(r2, Append(c, Attachment(t, a, 0)))
  BY <1>3, <1>5, <1>6, <1>7, TokenDelivers
<1> QED
  BY <1>5, <1>8 DEF r2

LEMMA ClientStepDelivers ==
  ASSUME IInv, IInv', Delivery, NEW c \in Clients, ClientStep(c)
  PROVE  Delivery'
<1>1. /\ InvOf(rec, conn, online) /\ DeliveryOf(rec, conn)
      /\ rec \in [Sessions -> Records] /\ conn \in Seq(Connections)
  BY DEF IInv, InvOf, Delivery
<1>2. ASSUME NEW s \in Sessions, AttachSession(s, c)
      PROVE  Delivery'
  <2> DEFINE n == rec[s].out
  <2>1. n \in Nat /\ n <= rec[s].out /\ rec[s].status # "none"
    BY <1>1, <1>2 DEF Records, AttachSession, Known
  <2>2. rec' = rec /\ conn' = Append(conn, Attachment(s, c, n))
    BY <1>2 DEF AttachSession
  <2> HIDE DEF n
  <2>3. DeliveryOf(rec, Append(conn, Attachment(s, c, n)))
    BY <1>1, <2>1, TokenDelivers
  <2> QED
    BY <2>2, <2>3 DEF Delivery
<1>3. ASSUME NEW s \in Sessions, CreateSession(s, c)
      PROVE  Delivery'
  <2>1. rec[s].status = "none"
    BY <1>3 DEF CreateSession, Known
  <2>2. /\ DeliveryOf([rec EXCEPT ![s] = NotStarted], conn)
        /\ DeliveryOf([rec EXCEPT ![s] = Started], Append(conn, Attachment(s, c, 0)))
    BY <1>1, <2>1, NewSessionDelivers
  <2>3. \/ rec' = [rec EXCEPT ![s] = Started] /\ conn' = Append(conn, Attachment(s, c, 0))
        \/ rec' = [rec EXCEPT ![s] = NotStarted] /\ conn' = conn
    BY <1>3 DEF CreateSession
  <2> QED
    BY <2>2, <2>3 DEF Delivery
<1>4. ASSUME NEW s \in Sessions, NEW t \in Sessions, Restarted(s, t, c)
      PROVE  Delivery'
  <2> DEFINE q == rec[s]
             e == AfterClose(q, "restart")
             r1 == [rec EXCEPT ![s] = e]
             c1 == Flushed(conn, q)
  <2>1. q \in Records /\ StatusOK(q) /\ ~q.process
    BY <1>1, <1>4 DEF Restarted, ProcessEnded, InvOf
  <2>2. e \in Records /\ StatusOK(e) /\ e.socket = 0
    BY <2>1, AfterCloseOK DEF Commands
  <2>3. Cleared(q).pump = << >> /\ Cleared(q).out = q.out /\ Cleared(q).status = q.status
        /\ Cleared(q) \in Records
    BY <2>1, ClearedDrops, ClearedOK
  <2>4. e.pump = << >> /\ e.out = q.out /\ (q.status = "none" <=> e.status = "none")
    BY <2>3 DEF AfterClose, Records
  <2>5. r1[t].status = "none" /\ r1 \in [Sessions -> Records]
    BY <1>1, <1>4, <2>2, <2>4 DEF Restarted, Known
  <2>6. InvOf(r1, c1, online)
    BY <1>1, <2>1, <2>2, RecordChanges
  <2>7. \/ rec' = [r1 EXCEPT ![t] = Started] /\ conn' = Append(c1, Attachment(t, c, 0))
        \/ rec' = [r1 EXCEPT ![t] = NotStarted] /\ conn' = c1
    BY <1>4 DEF Restarted
  <2>8. /\ c1 \in Seq(Connections) /\ DOMAIN c1 = DOMAIN conn
        /\ \A k \in DOMAIN conn : Passes(conn[k], c1[k], k, s, q, e)
    BY <1>1, <2>4, FlushedPasses
  <2> HIDE DEF e, c1
  <2>9. \A x \in Sessions : Empties(rec[x], r1[x])
    BY <1>1, <2>4 DEF Empties
  <2>10. ASSUME NEW k \in DOMAIN conn
         PROVE  Gets(conn[k], c1[k], k, rec[conn[k].session], r1[conn[k].session])
    BY <1>1, <2>8 DEF Passes, Gets
  <2> HIDE DEF r1, q
  <2>11. DeliveryOf(r1, c1)
    BY <1>1, <2>5, <2>8, <2>9, <2>10, DeliveryMoves
  <2>12. /\ DeliveryOf([r1 EXCEPT ![t] = NotStarted], c1)
         /\ DeliveryOf([r1 EXCEPT ![t] = Started], Append(c1, Attachment(t, c, 0)))
    BY <2>5, <2>6, <2>11, NewSessionDelivers
  <2> QED
    BY <2>7, <2>12 DEF Delivery
<1> QED
  BY <1>2, <1>3, <1>4, DetachClientDelivers DEF ClientStep

(* The attachments are history after a crash, the buffers are empty.       *)
LEMMA CrashDelivers ==
  ASSUME IInv, IInv', Delivery, Crash
  PROVE  Delivery'
<1>1. /\ InvOf(rec, conn, online) /\ DeliveryOf(rec, conn)
      /\ rec \in [Sessions -> Records] /\ conn \in Seq(Connections)
      /\ rec' \in [Sessions -> Records] /\ conn' \in Seq(Connections)
  BY DEF IInv, InvOf, Delivery
<1>2. ASSUME NEW s \in Sessions
      PROVE  Empties(rec[s], rec'[s])
  <2> DEFINE a == Cleared(rec[s])
  <2>1. a.pump = << >> /\ a.out = rec[s].out /\ a.status = rec[s].status /\ a \in Records
    BY <1>1, ClearedDrops, ClearedOK
  <2>2. rec'[s] = [a EXCEPT !.process = FALSE, !.awaited = {}, !.status = Restored(@)]
    BY DEF Crash
  <2> HIDE DEF a
  <2> QED
    BY <2>1, <2>2 DEF Empties, Restored, Records
<1>3. DOMAIN conn' = DOMAIN conn
  BY DEF Crash, Attachments
<1>4. ASSUME NEW k \in DOMAIN conn
      PROVE  Gets(conn[k], conn'[k], k, rec[conn[k].session], rec'[conn[k].session])
  <2>1. conn[k] \in Connections
    BY <1>1
  <2> QED
    BY <2>1 DEF Crash, Attachments, Connections, Gets
<1>5. DeliveryOf(rec', conn')
  BY <1>1, <1>2, <1>3, <1>4, DeliveryMoves
<1> QED
  BY <1>5 DEF Delivery

LEMMA DeliveryStep == IInv /\ IInv' /\ Delivery /\ [Next]_vars => Delivery'
<1> SUFFICES ASSUME IInv, IInv', Delivery, [Next]_vars
             PROVE  Delivery'
  OBVIOUS
<1>1. CASE UNCHANGED vars
  BY <1>1 DEF vars, Delivery
<1> QED
  BY <1>1, SessionStepDelivers, ClientStepDelivers, SocketStepDelivers, CrashDelivers DEF Next

(* The invariant behind DeliveredOnce: what a connection has got, what its *)
(* session still buffers and what the session has made are in this order.  *)
THEOREM DeliveryHolds == Spec => []Delivery
<1>1. Init => Delivery
  BY DEF Init, Unused, Delivery, DeliveryOf, PumpOK, PumpFresh, Rising
<1> QED
  BY <1>1, DeliveryStep, InvariantHolds, PTL DEF Spec

(* handleChunk, the flush timer and every way to lose a socket: a browser  *)
(* gets each chunk once, in order, and none that its snapshot showed.      *)
THEOREM DeliveredOnceAlways == Spec => []DeliveredOnce
<1>1. ASSUME IInv, Delivery, NEW k \in Attachments
      PROVE  LET sent == conn[k].sent IN
             /\ \A i \in DOMAIN sent : sent[i] > conn[k].snapshot
             /\ \A i, j \in DOMAIN sent : i < j => sent[i] < sent[j]
             /\ \A l \in Attachments : l # k /\ conn[l].session = conn[k].session =>
                  ToSet(sent) \cap ToSet(conn[l].sent) = {}
  <2>1. k \in DOMAIN conn /\ conn[k] \in Connections
    BY <1>1 DEF Attachments, IInv, InvOf
  <2>2. conn[k].snapshot \in Nat /\ conn[k].sent \in Seq(Nat)
    BY <2>1 DEF Connections
  <2>3. SentOK(conn[k], rec[conn[k].session])
    BY <1>1, <2>1 DEF Delivery, DeliveryOf
  <2>4. \A i \in DOMAIN conn[k].sent : conn[k].sent[i] > conn[k].snapshot
    BY <2>2, <2>3, ChunksAreNumbers DEF SentOK
  <2>5. \A l \in Attachments : l # k /\ conn[l].session = conn[k].session =>
          ToSet(conn[k].sent) \cap ToSet(conn[l].sent) = {}
    BY <1>1, <2>1 DEF Delivery, DeliveryOf, Disjoint, ToSet, Attachments
  <2> QED
    BY <2>3, <2>4, <2>5 DEF SentOK, Rising
<1>2. IInv /\ Delivery => DeliveredOnce
  BY <1>1 DEF DeliveredOnce
<1> QED
  BY <1>2, InvariantHolds, DeliveryHolds, PTL
=============================================================================
