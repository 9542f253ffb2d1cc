--------------------------- MODULE ServerListener ---------------------------
(***************************************************************************)
(* The listener thread of vrserver: the select loop of ServerListener::run *)
(* with its list of connectors, and ClientConnector::postSelect, which     *)
(* serves one connection.  Around it, the two things it shares the process *)
(* and the kernel with: the clients at the other end of the sockets, and   *)
(* the binder threads of VRNativeService, which open and close files in    *)
(* the same descriptor table at any moment.                                *)
(*                                                                         *)
(* Abstractions.                                                           *)
(*  - A request is a value.  A read takes everything the client has sent:  *)
(*    MaxUnread requests fit in the 65 bytes of rbuff.  The reply of        *)
(*    processMessage to what was read is in Answer: see SdkDatabase.       *)
(*  - A connection is used once; a client that comes back is another       *)
(*    member of Conns.                                                     *)
(*  - The thread has got to its loop.  run() returns before it without an  *)
(*    SDK, and when pipe() or listen() fails: these returns are in         *)
(*    NativeCalls, and nobody is ever accepted after one.                  *)
(*  - The wakeup pipe is left out: _LoopRefresh, the only writer, has no   *)
(*    caller (its call in addConnector is commented out).                  *)
(***************************************************************************)
EXTENDS Naturals, FiniteSets, Sequences, SequencesExt

CONSTANTS
  Conns,          \* connections clients ever make to vrserver_socket
  BinderThreads,  \* binder threads that open sysfs nodes
  Fds,            \* descriptor numbers left to the process (RLIMIT_NOFILE)
  ListenFd,       \* the listening socket, open before the loop starts
  Nobody,         \* what a free descriptor refers to
  Requests,       \* what a client may send
  Quit,           \* the request "quit"
  Answer,         \* Answer[m]: the reply of processMessage when it read m
  ListenBacklog,  \* the backlog given to listen()
  MaxUnread,      \* requests a client sends before the server reads
  MaxReplies      \* replies the socket holds before write() says EAGAIN

(* What a read may find that is not "quit", and the replies to it.         *)
Readings == {m \in SeqOf(Requests, MaxUnread) : m # <<>> /\ Head(m) # Quit}
Replies  == {Answer[m] : m \in Readings}

ASSUME ConstantsAssumption ==
  /\ Fds \subseteq Nat
  /\ ListenFd \notin Fds
  /\ Quit \in Requests
  /\ Nobody \notin Conns \cup BinderThreads
  /\ Conns \cap BinderThreads = {}
  /\ ListenBacklog \in Nat
  /\ MaxUnread \in Nat
  /\ MaxReplies \in Nat

VARIABLES
  (* the kernel *)
  fdTable,     \* fdTable[f]: the connection or binder thread using f
  stage,       \* stage[c]: "none", "queued", "accepted" or "closed" by vrserver
  backlog,     \* connections waiting for accept(), in order
  peerOpen,    \* peerOpen[c]: the client has not closed its end
  inbuf,       \* inbuf[c]: requests sent and not read
  outbuf,      \* outbuf[c]: replies written and not read
  reset,       \* reset[c]: ECONNRESET is pending on the server's end
  binderFd,    \* binderFd[b]: local variable fd of the binder thread's call
  (* the listener thread *)
  pc,          \* where run() is; "exited" after its return, "killed" by SIGPIPE
  lenNegative, \* what the uninitialised len of accept() happens to hold
  mConnectors, \* ids of the ClientConnector objects, in list order
  rset,        \* what select() left in rset
  cursor,      \* position of the running for loop
  rQuit, quitConns

kernel   == <<fdTable, stage, backlog, peerOpen, inbuf, outbuf, reset, binderFd>>
listener == <<pc, lenNegative, mConnectors, rset, cursor, rQuit, quitConns>>
vars     == <<kernel, listener>>

NoFd == ListenFd   \* value of binderFd outside a call: no descriptor of Fds

Init ==
  /\ fdTable = [f \in Fds |-> Nobody]
  /\ stage = [c \in Conns |-> "none"]
  /\ backlog = <<>>
  /\ peerOpen = [c \in Conns |-> FALSE]
  /\ inbuf = [c \in Conns |-> <<>>]
  /\ outbuf = [c \in Conns |-> <<>>]
  /\ reset = [c \in Conns |-> FALSE]
  /\ binderFd = [b \in BinderThreads |-> NoFd]
  /\ pc = "select"
  /\ lenNegative \in BOOLEAN
  /\ mConnectors = <<>>
  /\ rset = {}
  /\ cursor = 1
  /\ rQuit = FALSE
  /\ quitConns = <<>>

Up == pc # "killed"

-----------------------------------------------------------------------------
(* The descriptor table: numbers are given out lowest first.               *)

FreeFds == {f \in Fds : fdTable[f] = Nobody}

LowestFree == CHOOSE f \in FreeFds : \A g \in FreeFds : f <= g

Readable(f) ==
  \/ fdTable[f] \in BinderThreads
  \/ fdTable[f] \in Conns /\ (inbuf[fdTable[f]] # <<>> \/ ~peerOpen[fdTable[f]])

(* close(f): the number is free again and what it referred to is gone.     *)
CloseFd(f) ==
  /\ fdTable' = [fdTable EXCEPT ![f] = Nobody]
  /\ stage' = [c \in Conns |-> IF fdTable[f] = c THEN "closed" ELSE stage[c]]
  /\ inbuf' = [c \in Conns |-> IF fdTable[f] = c THEN <<>> ELSE inbuf[c]]

-----------------------------------------------------------------------------
(* The clients.  Nothing obliges one to go on, to read or to close.        *)

Connect(c) ==
  /\ Up
  /\ stage[c] = "none"
  /\ Len(backlog) <= ListenBacklog
  /\ stage' = [stage EXCEPT ![c] = "queued"]
  /\ backlog' = Append(backlog, c)
  /\ peerOpen' = [peerOpen EXCEPT ![c] = TRUE]
  /\ UNCHANGED <<fdTable, inbuf, outbuf, reset, binderFd, listener>>

Send(c, r) ==
  /\ Up
  /\ peerOpen[c]
  /\ stage[c] \in {"queued", "accepted"}
  /\ Len(inbuf[c]) < MaxUnread
  /\ inbuf' = [inbuf EXCEPT ![c] = Append(@, r)]
  /\ UNCHANGED <<fdTable, stage, backlog, peerOpen, outbuf, reset, binderFd, listener>>

Receive(c) ==
  /\ Up
  /\ peerOpen[c]
  /\ outbuf[c] # <<>>
  /\ outbuf' = [outbuf EXCEPT ![c] = Tail(@)]
  /\ UNCHANGED <<fdTable, stage, backlog, peerOpen, inbuf, reset, binderFd, listener>>

(* Closing with replies unread leaves ECONNRESET on the other end.         *)
Hangup(c) ==
  /\ Up
  /\ peerOpen[c]
  /\ peerOpen' = [peerOpen EXCEPT ![c] = FALSE]
  /\ reset' = [reset EXCEPT ![c] = outbuf[c] # <<>>]
  /\ outbuf' = [outbuf EXCEPT ![c] = <<>>]
  /\ UNCHANGED <<fdTable, stage, backlog, inbuf, binderFd, listener>>

Client == \E c \in Conns : \/ Connect(c) \/ Receive(c) \/ Hangup(c)
                           \/ \E r \in Requests : Send(c, r)

-----------------------------------------------------------------------------
(* VRNativeService::getSystemNode and setSystemNode on a binder thread:    *)
(* open, one read or write, close.  A failed open returns at once.         *)

BinderOpen(b) ==
  /\ Up
  /\ binderFd[b] = NoFd
  /\ FreeFds # {}
  /\ binderFd' = [binderFd EXCEPT ![b] = LowestFree]
  /\ fdTable' = [fdTable EXCEPT ![LowestFree] = b]
  /\ UNCHANGED <<stage, backlog, peerOpen, inbuf, outbuf, reset, listener>>

BinderClose(b) ==
  /\ Up
  /\ binderFd[b] # NoFd
  /\ CloseFd(binderFd[b])
  /\ binderFd' = [binderFd EXCEPT ![b] = NoFd]
  /\ UNCHANGED <<backlog, peerOpen, outbuf, reset, listener>>

Binder == \E b \in BinderThreads : BinderOpen(b) \/ BinderClose(b)

-----------------------------------------------------------------------------
(* ServerListener::run.                                                    *)

(* Variant: the listening socket is looked at only when nothing else is.   *)
AfterSelectAlone(marked) == IF marked = {ListenFd} THEN "accept" ELSE "post"

(* Where the loop goes on with what select() marked.                       *)
AfterSelect(marked) == IF ListenFd \in marked THEN "accept" ELSE "post"

(* FD_ZERO, preSelect of every connector, select().  A closed descriptor   *)
(* in the set makes select() fail with EBADF, and run() returns.           *)
Select ==
  /\ pc = "select"
  /\ IF \E i \in DOMAIN mConnectors : fdTable[mConnectors[i]] = Nobody
     THEN /\ pc' = "exited"
          /\ UNCHANGED rset
     ELSE /\ rset' = {f \in ToSet(mConnectors) : Readable(f)}
                     \cup {f \in {ListenFd} : backlog # <<>>}
          /\ rset' # {}
          /\ pc' = AfterSelect(rset')
  /\ cursor' = 1
  /\ UNCHANGED <<kernel, lenNegative, mConnectors, rQuit, quitConns>>

(* The new connector goes to the end of the list, unless one has its id.   *)
AddConnector(confd) ==
  mConnectors' = IF confd \in ToSet(mConnectors)
                 THEN mConnectors
                 ELSE Append(mConnectors, confd)

(* Variant: "continue" after every accept().                               *)
AfterAcceptContinue == "select"

(* "if (1 == nfds) continue".                                              *)
AfterAccept == IF Cardinality(rset) = 1 THEN "select" ELSE "post"

(* accept() with no free descriptor fails and leaves the connection        *)
(* waiting; with a negative len it fails after the connection has been     *)
(* taken from the queue, and the kernel drops it.                          *)
Accept ==
  /\ pc = "accept"
  /\ \/ /\ FreeFds = {}
        /\ UNCHANGED <<fdTable, stage, backlog, inbuf, mConnectors>>
     \/ /\ FreeFds # {}
        /\ backlog' = Tail(backlog)
        /\ LET c == Head(backlog)
           IN  \/ /\ lenNegative
                  /\ stage' = [stage EXCEPT ![c] = "closed"]
                  /\ inbuf' = [inbuf EXCEPT ![c] = <<>>]
                  /\ UNCHANGED <<fdTable, mConnectors>>
               \/ /\ ~lenNegative
                  /\ stage' = [stage EXCEPT ![c] = "accepted"]
                  /\ fdTable' = [fdTable EXCEPT ![LowestFree] = c]
                  /\ AddConnector(LowestFree)
                  /\ UNCHANGED inbuf
  /\ pc' = AfterAccept
  /\ UNCHANGED <<peerOpen, outbuf, reset, binderFd,
                 lenNegative, rset, cursor, rQuit, quitConns>>

-----------------------------------------------------------------------------
(* The for loop over the connectors: postSelect of the one at cursor.      *)

(* Variant: strstr in the place of strncmp.                                *)
SaysQuitAnywhere(c) == Quit \in ToSet(inbuf[c])

SaysQuit(c) == inbuf[c] # <<>> /\ Head(inbuf[c]) = Quit

AtConnector(f) ==
  /\ pc = "post"
  /\ cursor <= Len(mConnectors)
  /\ f = mConnectors[cursor]
  /\ cursor' = cursor + 1

(* RESULT_ERR: not in rset.                                                *)
PostIdle(f) ==
  /\ AtConnector(f)
  /\ f \notin rset
  /\ UNCHANGED <<kernel, pc, lenNegative, mConnectors, rset, rQuit, quitConns>>

(* One read takes all there is; only what it starts with is looked at.     *)
(* write() to a client that has gone raises SIGPIPE, which nothing in      *)
(* vrserver catches: the process ends, and no action is possible any more. *)
PostRequest(f) ==
  /\ AtConnector(f)
  /\ f \in rset
  /\ fdTable[f] \in Conns
  /\ LET c == fdTable[f]
     IN  /\ inbuf[c] # <<>>
         /\ ~SaysQuit(c)
         /\ IF peerOpen[c]
            THEN /\ inbuf' = [inbuf EXCEPT ![c] = <<>>]
                 /\ outbuf' = IF Len(outbuf[c]) < MaxReplies
                              THEN [outbuf EXCEPT ![c] = Append(@, Answer[inbuf[c]])]
                              ELSE outbuf
                 /\ UNCHANGED pc
            ELSE /\ pc' = "killed"
                 /\ UNCHANGED <<inbuf, outbuf>>
  /\ UNCHANGED <<fdTable, stage, backlog, peerOpen, reset, binderFd,
                 lenNegative, mConnectors, rset, rQuit, quitConns>>

(* Variant: the result of postSelect pushed in the place of the id.        *)
PushQuitResult(f) == quitConns' = Append(quitConns, 1)

PushQuit(f) == quitConns' = Append(quitConns, f)

(* Variant: the descriptor closed inside the loop over the connectors.     *)
PostQuitCloses(f) ==
  /\ AtConnector(f)
  /\ f \in rset
  /\ fdTable[f] \in Conns
  /\ SaysQuit(fdTable[f])
  /\ CloseFd(f)
  /\ PushQuit(f)
  /\ rQuit' = TRUE
  /\ UNCHANGED <<backlog, peerOpen, outbuf, reset, binderFd,
                 pc, lenNegative, mConnectors, rset>>

(* Variant: the end of what the client sent is an error like any other.    *)
PostQuitEndIsError(f) ==
  /\ AtConnector(f)
  /\ f \in rset
  /\ fdTable[f] \in Conns
  /\ LET c == fdTable[f]
     IN  \/ /\ SaysQuit(c)
            /\ inbuf' = [inbuf EXCEPT ![c] = <<>>]
            /\ PushQuit(f)
            /\ rQuit' = TRUE
         \/ /\ inbuf[c] = <<>> /\ ~peerOpen[c] /\ ~reset[c]
            /\ UNCHANGED <<inbuf, rQuit, quitConns>>
  /\ UNCHANGED <<fdTable, stage, backlog, peerOpen, outbuf, reset, binderFd,
                 pc, lenNegative, mConnectors, rset>>

(* RESULT_QUIT: the client said "quit", or read() returned 0.              *)
PostQuit(f) ==
  /\ AtConnector(f)
  /\ f \in rset
  /\ fdTable[f] \in Conns
  /\ LET c == fdTable[f]
     IN  /\ \/ SaysQuit(c)
            \/ inbuf[c] = <<>> /\ ~peerOpen[c] /\ ~reset[c]
         /\ inbuf' = [inbuf EXCEPT ![c] = <<>>]
  /\ PushQuit(f)
  /\ rQuit' = TRUE
  /\ UNCHANGED <<fdTable, stage, backlog, peerOpen, outbuf, reset, binderFd,
                 pc, lenNegative, mConnectors, rset>>

(* RESULT_ERR: read() reports the pending ECONNRESET, once.                *)
PostReset(f) ==
  /\ AtConnector(f)
  /\ f \in rset
  /\ fdTable[f] \in Conns
  /\ inbuf[fdTable[f]] = <<>>
  /\ reset[fdTable[f]]
  /\ reset' = [reset EXCEPT ![fdTable[f]] = FALSE]
  /\ UNCHANGED <<fdTable, stage, backlog, peerOpen, inbuf, outbuf, binderFd,
                 pc, lenNegative, mConnectors, rset, rQuit, quitConns>>

EndPass ==
  /\ pc = "post"
  /\ cursor > Len(mConnectors)
  /\ pc' = IF rQuit THEN "reap" ELSE "select"
  /\ cursor' = 1
  /\ UNCHANGED <<kernel, lenNegative, mConnectors, rset, rQuit, quitConns>>

(* Variants: the connector is kept; the newest connector is removed.       *)
DelConnectorKeeps(confd) == UNCHANGED mConnectors

DelConnectorLast(confd) == mConnectors' = Front(mConnectors)

(* delConnector: the first connector with this id, if there is one.        *)
DelConnector(confd) == mConnectors' = RemoveFirst(mConnectors, confd)

Reap ==
  /\ pc = "reap"
  /\ cursor <= Len(quitConns)
  /\ DelConnector(quitConns[cursor])
  /\ CloseFd(quitConns[cursor])
  /\ cursor' = cursor + 1
  /\ UNCHANGED <<backlog, peerOpen, outbuf, reset, binderFd,
                 pc, lenNegative, rset, rQuit, quitConns>>

(* Variant: quitConns is not cleared.                                      *)
EndReapKeeps ==
  /\ pc = "reap"
  /\ cursor > Len(quitConns)
  /\ rQuit' = FALSE
  /\ pc' = "select"
  /\ cursor' = 1
  /\ UNCHANGED <<kernel, lenNegative, mConnectors, rset, quitConns>>

EndReap ==
  /\ pc = "reap"
  /\ cursor > Len(quitConns)
  /\ quitConns' = <<>>
  /\ rQuit' = FALSE
  /\ pc' = "select"
  /\ cursor' = 1
  /\ UNCHANGED <<kernel, lenNegative, mConnectors, rset>>

PostSelect(f) == PostIdle(f) \/ PostRequest(f) \/ PostQuit(f) \/ PostReset(f)

Run == Select \/ Accept \/ (\E f \in Fds : PostSelect(f)) \/ EndPass \/ Reap \/ EndReap

-----------------------------------------------------------------------------
Next == Client \/ Binder \/ Run

Spec == Init /\ [][Next]_vars

(* The kernel schedules the listener thread; no client is obliged to       *)
(* anything, and no binder call has to come or to end.                     *)
FairSpec == Spec /\ WF_vars(Run)

-----------------------------------------------------------------------------
(* The type of every variable.  The buffers stay within their bounds, and  *)
(* quitConns holds descriptors of the process.                             *)
TypeOK ==
  /\ fdTable \in [Fds -> Conns \cup BinderThreads \cup {Nobody}]
  /\ stage \in [Conns -> {"none", "queued", "accepted", "closed"}]
  /\ backlog \in Seq(Conns)
  /\ peerOpen \in [Conns -> BOOLEAN]
  /\ inbuf \in [Conns -> SeqOf(Requests, MaxUnread)]
  /\ outbuf \in [Conns -> Seq(Replies)]
  /\ reset \in [Conns -> BOOLEAN]
  /\ binderFd \in [BinderThreads -> Fds \cup {NoFd}]
  /\ pc \in {"select", "accept", "post", "reap", "exited", "killed"}
  /\ lenNegative \in BOOLEAN
  /\ mConnectors \in Seq(Fds)
  /\ rset \subseteq Fds \cup {ListenFd}
  /\ cursor \in Nat \ {0}
  /\ rQuit \in BOOLEAN
  /\ quitConns \in Seq(Fds)

(* Two descriptors never refer to the same connection or the same file.    *)
TableInjective ==
  \A f, g \in Fds : fdTable[f] = fdTable[g] /\ fdTable[f] # Nobody => f = g

(* A connection that was accepted and not closed has exactly one           *)
(* descriptor and exactly one connector, one that waits is in the listen   *)
(* queue once, and no connector outlives its descriptor.  accept,          *)
(* addConnector, delConnector and the close() of run() maintain this       *)
(* together; a leaked descriptor, a lost connector or one that is served   *)
(* twice breaks it.                                                        *)
ConnectionsAccounted ==
  /\ TableInjective
  /\ IsInjective(mConnectors)
  /\ \A f \in Fds : f \in ToSet(mConnectors) <=> fdTable[f] \in Conns
  /\ \A c \in Conns : stage[c] = "accepted" <=> \E f \in Fds : fdTable[f] = c
  /\ \A c \in Conns : stage[c] = "queued" <=> c \in ToSet(backlog)
  /\ IsInjective(backlog)

(* The positions of quitConns whose descriptor run() has still to close.   *)
Unreaped == {i \in DOMAIN quitConns : pc = "reap" => i >= cursor}

(* quitConns is never stale: a descriptor waits in it only between the     *)
(* postSelect that returned RESULT_QUIT and the close() of the same pass,  *)
(* at most once, and for a connector that is still in the list.            *)
QuitConnsPending ==
  /\ rQuit <=> quitConns # <<>>
  /\ pc \in {"select", "accept"} => quitConns = <<>>
  /\ IsInjective(quitConns)
  /\ \A i \in Unreaped : quitConns[i] \in ToSet(mConnectors)
  /\ pc = "post" => \A i \in DOMAIN quitConns :
                      \E k \in DOMAIN mConnectors :
                        k < cursor /\ mConnectors[k] = quitConns[i]

(* A descriptor a binder thread opened in getSystemNode or setSystemNode   *)
(* refers to that file until this thread closes it: the listener thread's  *)
(* close() in run() never hits a number that was given out again.          *)
BinderFileSafe ==
  \A b \in BinderThreads : \A f \in Fds : binderFd[b] = f <=> fdTable[f] = b

(* select() in run() never fails with EBADF: the listener thread has no    *)
(* return left once its loop has begun.  Of the returns before the loop    *)
(* this says nothing.                                                      *)
ListenerStays == pc # "exited"

(* What select() marked is still so when run() acts on it: a connection    *)
(* waits for accept(), and a marked descriptor refers to a connection that *)
(* is in the list when postSelect reads it.                                *)
RsetFresh ==
  /\ pc = "accept" => backlog # <<>>
  /\ pc \in {"accept", "post"} =>
       \A f \in rset \ {ListenFd} : f \in ToSet(mConnectors) /\ fdTable[f] \in Conns

(* The comment "force quit" in postSelect: a client that goes away is a    *)
(* quit of its own connection, and the server goes on.                     *)
ServerSurvives == Up

-----------------------------------------------------------------------------
(* The listener implements the conversations of SdkSession: no reply goes  *)
(* to another client, and close() hits only a connection whose own client  *)
(* said quit or went away.                                                 *)
Link ==
  [c \in Conns |-> CASE stage[c] = "none"     -> "none"
                     [] stage[c] = "queued"   -> "waiting"
                     [] stage[c] = "accepted" -> "serving"
                     [] stage[c] = "closed"   -> "ended"]

Leaving == [c \in Conns |-> \E i \in Unreaped : fdTable[quitConns[i]] = c]

Session == INSTANCE SdkSession WITH
  link <- Link,
  open <- peerOpen,
  requests <- inbuf,
  replies <- outbuf,
  leaving <- Leaving,
  up <- Up

ImplementsSession == Session!Spec

-----------------------------------------------------------------------------
(* Under FairSpec. *)

(* The select loop reads every client it admitted, whatever the others do  *)
(* and also while accept() keeps failing for want of descriptors.          *)
RequestsRead ==
  \A c \in Conns :
    (stage[c] = "accepted" /\ inbuf[c] # <<>>) ~> (inbuf[c] = <<>> \/ ~Up)

(* The descriptor of a client that went away is closed in the end, also    *)
(* when read() first reports ECONNRESET and postSelect returns RESULT_ERR. *)
HangupReclaimed ==
  \A c \in Conns :
    (stage[c] = "accepted" /\ ~peerOpen[c]) ~> (stage[c] = "closed" \/ ~Up)

(* As long as the process has a descriptor to give, accept() takes every   *)
(* waiting client, however busy the others keep the loop.                  *)
QueuedTaken ==
  \A c \in Conns :
    stage[c] = "queued" ~> (stage[c] # "queued" \/ FreeFds = {} \/ ~Up)
=============================================================================
