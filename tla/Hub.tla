---------------------------------- MODULE Hub ----------------------------------
(***************************************************************************)
(* The WebSocket hub (backend/hub.go): one handler goroutine per accepted  *)
(* connection, and broadcasts that write to every registered connection    *)
(* while they hold the hub's mutex.                                        *)
(***************************************************************************)
EXTENDS Integers, Sequences

CONSTANTS
  Conn,      \* connections
  Sender,    \* goroutines that broadcast
  Nobody,    \* the holder of the mutex when it is free
  PipeCap    \* what fits between WriteMessage and a browser that is not reading

VARIABLES
  clients,   \* Hub.clients
  mu,        \* who holds Hub.mu
  todo,      \* the clients the holder has not written to yet
  outbox,    \* what each sender has still to broadcast
  handler,   \* where HandleWS is for each connection
  link,      \* each connection: "free", "up" or "cut"
  pipe       \* messages written and not yet received

hub == << clients, mu, todo, handler >>
wire == << link, pipe >>

HubInit ==
  /\ clients = {} /\ mu = Nobody /\ todo = {}
  /\ outbox = [s \in Sender |-> << >>]
  /\ handler = [c \in Conn |-> "none"]
  /\ link = [c \in Conn |-> "free"]
  /\ pipe = [c \in Conn |-> << >>]

-------------------------------------------------------------------------------
(* HandleWS *)

Free(c) == handler[c] = "none" /\ link[c] = "free"

Upgrade(c) ==
  /\ Free(c)
  /\ handler' = [handler EXCEPT ![c] = "accepted"]
  /\ link' = [link EXCEPT ![c] = "up"]
  /\ UNCHANGED << clients, mu, todo, pipe >>

Register(c) ==
  /\ handler[c] = "accepted" /\ mu = Nobody
  /\ clients' = clients \cup {c}
  /\ handler' = [handler EXCEPT ![c] = "reading"]
  /\ UNCHANGED << mu, todo, outbox, wire >>

ReadFails(c) ==
  /\ handler[c] = "reading" /\ link[c] = "cut"
  /\ handler' = [handler EXCEPT ![c] = "leaving"]
  /\ UNCHANGED << clients, mu, todo, outbox, wire >>

Unregister(c) ==
  /\ handler[c] = "leaving" /\ mu = Nobody
  /\ clients' = clients \ {c}
  /\ handler' = [handler EXCEPT ![c] = "none"]
  /\ link' = [link EXCEPT ![c] = "free"]
  /\ UNCHANGED << mu, todo, outbox, pipe >>

\* either end closes, or the network between them breaks: what is under way is lost
CutLink(c) ==
  /\ link' = [link EXCEPT ![c] = "cut"]
  /\ pipe' = [pipe EXCEPT ![c] = << >>]

-------------------------------------------------------------------------------
(* Broadcast *)

Message(s) == Head(outbox[s])

StartBroadcast(s) ==
  /\ mu = Nobody /\ outbox[s] # << >>
  /\ mu' = s /\ todo' = clients
  /\ UNCHANGED << clients, handler, outbox, wire >>

\* Mutant: a connection that has gone takes messages as long as they fit
WriteMessage_Stuck(s, c) ==
  /\ mu = s /\ c \in todo /\ Len(pipe[c]) < PipeCap
  /\ pipe' = [pipe EXCEPT ![c] = Append(@, Message(s))]
  /\ todo' = todo \ {c}
  /\ UNCHANGED << clients, mu, handler, outbox, link >>

\* WriteMessage blocks while the pipe is full; its error is ignored
WriteMessage(s, c) ==
  /\ mu = s /\ c \in todo
  /\ \/ link[c] = "cut" /\ UNCHANGED pipe
     \/ /\ link[c] = "up" /\ Len(pipe[c]) < PipeCap
        /\ pipe' = [pipe EXCEPT ![c] = Append(@, Message(s))]
  /\ todo' = todo \ {c}
  /\ UNCHANGED << clients, mu, handler, outbox, link >>

EndBroadcast(s) ==
  /\ mu = s /\ todo = {}
  /\ mu' = Nobody
  /\ outbox' = [outbox EXCEPT ![s] = Tail(@)]
  /\ UNCHANGED << clients, todo, handler, wire >>
===============================================================================
