-------------------------------- MODULE Server --------------------------------
(***************************************************************************)
(* daemon/server.py: the accept loop, the bounded pool of connection threads *)
(* and what each thread does with its connection, up to the dispatch of its  *)
(* message under the daemon lock.  A connection carries one message: every   *)
(* client opens one for each.  A permission ask keeps its thread, and with   *)
(* it a permit, until it is answered or its deadline passes.                 *)
(***************************************************************************)
EXTENDS Bootstrap

CONSTANTS Conns,        \* connection slots
          Cap           \* _MAX_CONN_THREADS

ASSUME CapAssumption == Cap \in Nat \ {0}
ASSUME ConnsAssumption == IsFiniteSet(Conns)

VARIABLES
    conn,       \* each connection: where it is, and at which process
    permits     \* _conn_sem of each process

serverVars == <<conn, permits>>

None == [st |-> "none", at |-> Nobody]

Ends(c) == conn' = [conn EXCEPT ![c] = None]

Becomes(c, st) == conn' = [conn EXCEPT ![c].st = st]

At(d) == {c \in Conns : conn[c].at = d}

Threads(d) == {c \in At(d) : conn[c].st # "backlog"}

\* Connections of process d end when it is gone or closes its socket.
Without(cs) == [c \in Conns |-> IF c \in cs THEN None ELSE conn[c]]

Takes(c) == permits' = [permits EXCEPT ![conn[c].at] = @ - 1]

Releases(c) == permits' = [permits EXCEPT ![conn[c].at] = @ + 1]

-----------------------------------------------------------------------------
(* _accept_loop and _spawn_conn_handler *)

AwaitsAccept(c) == conn[c].st = "backlog" /\ Listening(conn[c].at)

Admit(c) ==
    /\ AwaitsAccept(c) /\ permits[conn[c].at] > 0
    /\ Takes(c)
    /\ Becomes(c, "thread")

\* At the cap the connection is closed, unread.
Refuse(c) ==
    /\ AwaitsAccept(c) /\ permits[conn[c].at] = 0
    /\ Ends(c)
    /\ UNCHANGED permits

\* Mutant: the permit of a thread that never ran is not given back.
PermitLeaks(c) == Takes(c)

PermitBack(c) == UNCHANGED permits

StartFails(c) ==
    /\ AwaitsAccept(c) /\ permits[conn[c].at] > 0
    /\ PermitBack(c)
    /\ Ends(c)

-----------------------------------------------------------------------------
(* _handle_conn *)

\* The token is checked and the running flag read before a message is; a
\* thread that waits for the daemon lock does not read the flag again.
ReadMessage(c) ==
    /\ conn[c].st = "thread"
    /\ IF proc[conn[c].at] = "up"
       THEN Becomes(c, "message") /\ UNCHANGED permits
       ELSE Ends(c) /\ Releases(c)

\* Nothing comes within five seconds, or the client is gone.
HangUp(c) == conn[c].st = "thread" /\ Ends(c) /\ Releases(c)

\* The handler has run; the client has its reply or wants none.
Dispatch(c) ==
    /\ conn[c].st = "message"
    /\ Becomes(c, "served")
    /\ UNCHANGED permits

\* An ask blocks its thread, outside the daemon lock.
DispatchAsk(c) ==
    /\ conn[c].st = "message"
    /\ Becomes(c, "blocked")
    /\ UNCHANGED permits

\* The answer to an ask of the same process.
DispatchAnswer(c, ask) ==
    /\ conn[c].st = "message" /\ conn[ask].st = "blocked"
    /\ conn[c].at = conn[ask].at
    /\ conn' = [conn EXCEPT ![c].st = "served", ![ask].st = "served"]
    /\ UNCHANGED permits

Expires(c) == conn[c].st = "blocked"

AskExpires(c) == Expires(c) /\ Becomes(c, "served") /\ UNCHANGED permits

\* Mutant: the thread goes on reading until the daemon stops.
ReadsOn(c) ==
    /\ conn[c].st = "served" /\ proc[conn[c].at] # "up"
    /\ Ends(c) /\ Releases(c)

\* The client closes its end, and the guard releases the permit.
Finish(c) == conn[c].st = "served" /\ Ends(c) /\ Releases(c)

-----------------------------------------------------------------------------
ServerInit ==
    /\ conn = [c \in Conns |-> None]
    /\ permits = [d \in Daemons |-> Cap]

ServerTypeOK ==
    /\ conn \in [Conns -> [st : {"none", "backlog", "thread", "message",
                                 "blocked", "served"},
                           at : Daemons \union {Nobody}]]
    /\ permits \in [Daemons -> 0..Cap]
=============================================================================
