---------------------------- MODULE Connections ----------------------------
(***************************************************************************)
(* services/gateway: BoundedThreadingHTTPServer and the life of a          *)
(* kept-alive connection.  The main thread accepts, takes a slot and       *)
(* starts a worker; a worker parses one request after another from the     *)
(* same socket and the same Handler instance.  What a request is about is  *)
(* left out: here it is how its body is framed, whether the route it takes *)
(* reads that body, and how its handling ends.                             *)
(***************************************************************************)
EXTENDS Integers, FiniteSets

CONSTANTS
  Conns,          \* clients' connections
  MaxConnections, \* MAX_CONNECTIONS
  MaxUnstarted    \* bound on threads the system refuses to start

ASSUME ConnectionConstants ==
  /\ IsFiniteSet(Conns) /\ MaxConnections \in Nat \ {0} /\ MaxUnstarted \in Nat

VARIABLES
  slots,     \* the semaphore's value
  pc,        \* connection -> where it stands
  req,       \* connection -> the request being handled
  unread,    \* bytes of that request's body are on the socket
  consumed,  \* Handler._body_consumed
  closing,   \* Handler.close_connection
  unstarted  \* threads that may still fail to start

handler == <<req, unread, consumed, closing>>
vars    == <<slots, pc, handler, unstarted>>

\* How a body is framed: a length that is honest, over MAX_BODY or never
\* reached, Transfer-Encoding, several or malformed lengths.
Framings == {"none", "body", "big", "short", "chunked", "twice"}
Methods  == {"GET", "POST", "PUT", "DELETE", "other"}
Request  == [method : Methods, framing : Framings]

NoRequest == [method |-> "GET", framing |-> "none"]
Declared(r) == r.framing # "none"

Started == {c \in Conns : pc[c] \in {"parse", "handle", "answer", "shut"}}
MainBusy == \E c \in Conns : pc[c] \in {"accepted", "unstarted"}

Init ==
  /\ slots = MaxConnections /\ pc = [c \in Conns |-> "off"]
  /\ req = [c \in Conns |-> NoRequest] /\ unread = [c \in Conns |-> FALSE]
  /\ consumed = [c \in Conns |-> FALSE] /\ closing = [c \in Conns |-> FALSE]
  /\ unstarted = MaxUnstarted

Goto(c, p) == pc' = [pc EXCEPT ![c] = p]

\* A new connection has a new Handler.
FreshHandler(c) ==
  /\ req' = [req EXCEPT ![c] = NoRequest] /\ unread' = [unread EXCEPT ![c] = FALSE]
  /\ consumed' = [consumed EXCEPT ![c] = FALSE] /\ closing' = [closing EXCEPT ![c] = FALSE]

\* handle() returns, or an exception ends it.
Quit(c) == Goto(c, "shut") /\ FreshHandler(c)

-----------------------------------------------------------------------------
(* The server.                                                              *)

\* process_request(): over the ceiling the connection is closed at once, and
\* no slot is given back for it.
Accept(c) ==
  /\ pc[c] = "off" /\ ~MainBusy
  /\ IF slots > 0 THEN slots' = slots - 1 /\ Goto(c, "accepted") ELSE UNCHANGED <<slots, pc>>
  /\ UNCHANGED <<handler, unstarted>>

ThreadStarts(c) ==
  /\ pc[c] = "accepted" /\ Goto(c, "parse")
  /\ UNCHANGED <<slots, handler, unstarted>>

\* BoundedSemaphore.release() raises ValueError above its initial value.
Releasable == slots < MaxConnections
Release    == slots' = IF Releasable THEN slots + 1 ELSE slots

\* No worker: process_request() hands the slot back and raises ...
StartFails(c) ==
  /\ pc[c] = "accepted" /\ unstarted > 0 /\ unstarted' = unstarted - 1
  /\ Release /\ Goto(c, "unstarted") /\ UNCHANGED handler

\* ... and socketserver answers an exception of process_request() with
\* shutdown_request(), which releases too.
ShutUnstarted(c) ==
  /\ pc[c] = "unstarted" /\ Releasable /\ Release /\ Goto(c, "off")
  /\ UNCHANGED <<handler, unstarted>>

\* The ValueError ends serve_forever(), main() and every worker with them;
\* the container is started again.
ServerDies(c) ==
  /\ pc[c] = "unstarted" /\ ~Releasable
  /\ slots' = MaxConnections /\ pc' = [d \in Conns |-> "off"]
  /\ req' = [d \in Conns |-> NoRequest] /\ unread' = [d \in Conns |-> FALSE]
  /\ consumed' = [d \in Conns |-> FALSE] /\ closing' = [d \in Conns |-> FALSE]
  /\ UNCHANGED unstarted

\* Mutant: the slot is handed back by process_request() alone.
KeepSlot(c) == UNCHANGED slots

\* Mutant: a worker hands its slot back, and so does shutdown_request().
ReleaseTwice(c) == slots' = IF slots + 2 <= MaxConnections THEN slots + 2 ELSE MaxConnections

\* shutdown_request(): whatever closing the socket raises, the slot goes back.
ReleaseSlot(c) == Release

\* At the end of every worker.
Shutdown(c) ==
  /\ pc[c] = "shut" /\ ReleaseSlot(c) /\ Goto(c, "off")
  /\ UNCHANGED <<handler, unstarted>>

-----------------------------------------------------------------------------
(* A worker.                                                                *)

\* End of file, the socket timeout, a malformed request line, or a client
\* that asked for the connection to be closed.
HangUp(c) ==
  /\ pc[c] \in {"parse", "handle", "answer"} /\ Quit(c)
  /\ UNCHANGED <<slots, unstarted>>

\* parse_request(): a body the server cannot frame is refused and not read.
Framed(r) == r.framing \notin {"chunked", "twice"}

\* Mutant: a request starts with the previous one's flag.
FlagKept(c) == UNCHANGED consumed

\* _begin_request()
FlagReset(c) == consumed' = [consumed EXCEPT ![c] = FALSE]

\* GET and DELETE have no use for a body.
Bodyless(r) == r.method \in {"GET", "DELETE"}

\* handle_one_request(); a method without a do_* is answered 501 and closed.
Parse(c, r) ==
  /\ pc[c] = "parse"
  /\ IF Framed(r) /\ r.method # "other"
       THEN /\ Goto(c, "handle") /\ FlagReset(c)
            /\ req' = [req EXCEPT ![c] = r] /\ unread' = [unread EXCEPT ![c] = Declared(r)]
            /\ closing' = [closing EXCEPT ![c] = Bodyless(r) /\ Declared(r)]
       ELSE Quit(c)
  /\ UNCHANGED <<slots, unstarted>>

\* _read_body(), on the routes that have a use for it: the cap comes before
\* the read, a body that ends early closes the connection.
ReadBody(c) ==
  /\ pc[c] = "handle" /\ req[c].method \in {"POST", "PUT"} /\ Goto(c, "answer")
  /\ IF req[c].framing = "big" THEN UNCHANGED <<unread, consumed, closing>>
     ELSE /\ unread' = [unread EXCEPT ![c] = FALSE]
          /\ IF req[c].framing = "short"
               THEN closing' = [closing EXCEPT ![c] = TRUE] /\ UNCHANGED consumed
               ELSE consumed' = [consumed EXCEPT ![c] = TRUE] /\ UNCHANGED closing
  /\ UNCHANGED <<slots, req, unstarted>>

\* Every route that answers without reading: assets and health, the reads of
\* /auth, a logout, a foreign Origin, no session, the wrong role.
NoBodyWanted(c) ==
  /\ pc[c] = "handle" /\ Goto(c, "answer")
  /\ UNCHANGED <<slots, handler, unstarted>>

\* _send() ends with _close_if_body_unread().
Send(c) ==
  /\ pc[c] = "answer"
  /\ IF closing[c] \/ (Declared(req[c]) /\ ~consumed[c])
       THEN Quit(c)
       ELSE Goto(c, "parse") /\ req' = [req EXCEPT ![c] = NoRequest] /\ UNCHANGED <<unread, consumed, closing>>
  /\ UNCHANGED <<slots, unstarted>>

\* sqlite3.Error: 503, and the connection is closed.
StoreUnavailable(c) ==
  /\ pc[c] \in {"handle", "answer"} /\ Quit(c)
  /\ UNCHANGED <<slots, unstarted>>

Worker(c) ==
  \/ HangUp(c) \/ ReadBody(c) \/ NoBodyWanted(c) \/ Send(c) \/ StoreUnavailable(c)
  \/ Shutdown(c) \/ \E r \in Request : Parse(c, r)

Server(c) == Accept(c) \/ ThreadStarts(c) \/ StartFails(c) \/ ShutUnstarted(c) \/ ServerDies(c)

Next == \E c \in Conns : Worker(c) \/ Server(c)

Spec == Init /\ [][Next]_vars

-----------------------------------------------------------------------------
ConnectionTypeOK ==
  /\ slots \in 0..MaxConnections /\ unstarted \in 0..MaxUnstarted
  /\ pc \in [Conns -> {"off", "accepted", "unstarted", "parse", "handle", "answer", "shut"}]
  /\ req \in [Conns -> Request]
  /\ unread \in [Conns -> BOOLEAN] /\ consumed \in [Conns -> BOOLEAN]
  /\ closing \in [Conns -> BOOLEAN]

\* gateway.py:776 "those unread bytes would be parsed as the start of the next
\* request": the parser never starts inside the body of an earlier request,
\* whichever route refused it and whatever came before on the connection.
Aligned == \A c \in Conns : pc[c] = "parse" => ~unread[c]

\* No ending of a connection costs a slot: refused, refused a thread, timed
\* out, failed, or closed in the middle of a body.
Holding == Started \cup {c \in Conns : pc[c] = "accepted"}
NoSlotLost == slots + Cardinality(Holding) >= MaxConnections

\* gateway.py:1229 "a hard ceiling on concurrent connections": the workers are
\* never more than MAX_CONNECTIONS and one for every thread that could not be
\* started, for which the slot is given back twice.
Ceiling == Cardinality(Started) <= MaxConnections + (MaxUnstarted - unstarted)
=============================================================================
