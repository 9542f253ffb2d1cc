----------------------------- MODULE SdkSession -----------------------------
(***************************************************************************)
(* What vrserver promises the clients of "vrserver_socket", with no        *)
(* descriptors, no select loop and no connector list: every connection is  *)
(* a conversation of its own.  The server answers the oldest request it    *)
(* finds, into the replies of the client that asked, and lets a            *)
(* conversation end only when that client asked for it or went away.       *)
(* Module ServerListener, the code as it is written, is checked to         *)
(* implement this specification.                                           *)
(***************************************************************************)
EXTENDS Naturals, Sequences

CONSTANTS
  Conns,        \* the conversations clients may ever start
  Requests,     \* what a client may ask
  Quit,         \* the request that ends the conversation
  Answer,       \* Answer[m]: what the SDK database gives for the requests m
  MaxReplies    \* replies a client may leave unread

VARIABLES
  link,         \* link[c]: "none", "waiting" to be admitted, "serving", "ended"
  open,         \* open[c]: the client still holds its end
  requests,     \* requests[c]: what c asked and the server has not read
  replies,      \* replies[c]: what the server said and c has not read
  leaving,      \* leaving[c]: the server decided to end this conversation
  up            \* the server process is alive

vars == <<link, open, requests, replies, leaving, up>>

Init ==
  /\ link = [c \in Conns |-> "none"]
  /\ open = [c \in Conns |-> FALSE]
  /\ requests = [c \in Conns |-> <<>>]
  /\ replies = [c \in Conns |-> <<>>]
  /\ leaving = [c \in Conns |-> FALSE]
  /\ up = TRUE

Serving(c) == link[c] = "serving" /\ ~leaving[c]

-----------------------------------------------------------------------------
(* The client's side. *)

Start(c) ==
  /\ link[c] = "none"
  /\ link' = [link EXCEPT ![c] = "waiting"]
  /\ open' = [open EXCEPT ![c] = TRUE]
  /\ UNCHANGED <<requests, replies, leaving, up>>

Ask(c, r) ==
  /\ open[c]
  /\ link[c] \in {"waiting", "serving"}
  /\ requests' = [requests EXCEPT ![c] = Append(@, r)]
  /\ UNCHANGED <<link, open, replies, leaving, up>>

Hear(c) ==
  /\ open[c]
  /\ replies[c] # <<>>
  /\ replies' = [replies EXCEPT ![c] = Tail(@)]
  /\ UNCHANGED <<link, open, requests, leaving, up>>

GoAway(c) ==
  /\ open[c]
  /\ open' = [open EXCEPT ![c] = FALSE]
  /\ replies' = [replies EXCEPT ![c] = <<>>]
  /\ UNCHANGED <<link, requests, leaving, up>>

-----------------------------------------------------------------------------
(* The server's side. *)

Admit(c) ==
  /\ link[c] = "waiting"
  /\ link' = [link EXCEPT ![c] = "serving"]
  /\ UNCHANGED <<open, requests, replies, leaving, up>>

Refuse(c) ==
  /\ link[c] = "waiting"
  /\ link' = [link EXCEPT ![c] = "ended"]
  /\ requests' = [requests EXCEPT ![c] = <<>>]
  /\ UNCHANGED <<open, replies, leaving, up>>

(* The oldest request is answered to the client that asked it, by an       *)
(* answer the requests read together with it may spoil, and those are      *)
(* lost; the answer is lost too when the client does not read what it was  *)
(* told before.                                                            *)
Reply(c) ==
  /\ Serving(c)
  /\ open[c]
  /\ requests[c] # <<>>
  /\ Head(requests[c]) # Quit
  /\ requests' = [requests EXCEPT ![c] = <<>>]
  /\ replies' = IF Len(replies[c]) < MaxReplies
                THEN [replies EXCEPT ![c] = Append(@, Answer[requests[c]])]
                ELSE replies
  /\ UNCHANGED <<link, open, leaving, up>>

(* Only the client's own "quit" or its disappearance ends a conversation.  *)
Release(c) ==
  /\ Serving(c)
  /\ \/ requests[c] # <<>> /\ Head(requests[c]) = Quit
     \/ requests[c] = <<>> /\ ~open[c]
  /\ leaving' = [leaving EXCEPT ![c] = TRUE]
  /\ requests' = [requests EXCEPT ![c] = <<>>]
  /\ UNCHANGED <<link, open, replies, up>>

Part(c) ==
  /\ leaving[c]
  /\ link' = [link EXCEPT ![c] = "ended"]
  /\ leaving' = [leaving EXCEPT ![c] = FALSE]
  /\ requests' = [requests EXCEPT ![c] = <<>>]
  /\ UNCHANGED <<open, replies, up>>

(* The process may die only while it answers a client that went away.      *)
Die ==
  /\ \E c \in Conns : /\ Serving(c) /\ ~open[c]
                      /\ requests[c] # <<>> /\ Head(requests[c]) # Quit
  /\ up' = FALSE
  /\ UNCHANGED <<link, open, requests, replies, leaving>>

Next ==
  /\ up
  /\ \/ \E c \in Conns : \/ Start(c) \/ Hear(c) \/ GoAway(c)
                         \/ Admit(c) \/ Refuse(c)
                         \/ Reply(c) \/ Release(c) \/ Part(c)
     \/ \E c \in Conns, r \in Requests : Ask(c, r)
     \/ Die

Spec == Init /\ [][Next]_vars

=============================================================================
