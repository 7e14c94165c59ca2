------------------------------ MODULE Handover ------------------------------
(***************************************************************************)
(* Processes with one app key.  Each has a connection of which it knows    *)
(* what Session promises and Conn keeps: a session that may be lost and    *)
(* renewed until it ends, and an end that leaves nothing open.  KIS serves *)
(* one socket per key and refuses the requests of any other with OPSP8996, *)
(* on which the connection stops for good (reader.go:42-49).               *)
(*                                                                         *)
(* The processes hand over "break before make" (doc.go:40-58) if ordered,  *)
(* and each begins when it likes if not.  KIS learns that a link is gone   *)
(* at once, or if it lingers some time later.                              *)
(***************************************************************************)
EXTENDS Naturals

CONSTANTS
    Processes,
    Nobody,       \* KIS serves no socket of the key
    MaxLosses     \* bound: the links lost

ASSUME HandoverAssumption ==
    MaxLosses \in Nat /\ Nobody \notin Processes \X Nat

VARIABLES
    ordered, lingers,     \* chosen once
    begun, held, ending, over,  \* processes: Session's variables, for each
    socket,       \* the generation of each process's newest socket
    holder,       \* the socket KIS serves, as <<process, generation>>
    refused,      \* the processes that heard OPSP8996
    late,         \* history: a process that was refused has been served
    losses

choice == <<ordered, lingers>>
vars == <<choice, begun, held, ending, over, socket, holder, refused, late,
          losses>>

Init ==
    /\ ordered \in BOOLEAN /\ lingers \in BOOLEAN
    /\ begun = {} /\ held = {} /\ ending = {} /\ over = {}
    /\ socket = [p \in Processes |-> 0]
    /\ holder = Nobody /\ refused = {} /\ late = FALSE /\ losses = 0

Mine(p) == <<p, socket[p]>>

\* Mutant: the socket stays open.
LeftOpen(p) == holder

\* KIS sees a socket of p closed.
Freed(p) == IF holder = Mine(p) THEN Nobody ELSE holder

\* Dial.
Begin(p) ==
    /\ p \notin begun
    /\ ordered => begun \subseteq over
    /\ begun' = begun \cup {p}
    /\ held' = held \cup {p}
    /\ UNCHANGED <<choice, ending, over, socket, holder, refused,
                   late, losses>>

\* A request reaches KIS and makes its socket the one that is served, even one
\* of a connection that has been refused and not yet dropped its socket.
Serve(p) ==
    /\ p \in held /\ holder = Nobody
    /\ holder' = Mine(p)
    /\ late' = (late \/ p \in refused)
    /\ UNCHANGED <<choice, begun, held, ending, over, socket, refused,
                   losses>>

\* A request is answered with OPSP8996; the run loop gives up.
Refuse(p) ==
    /\ p \in held \ refused /\ holder \notin {Nobody, Mine(p)}
    /\ refused' = refused \cup {p}
    /\ ending' = ending \cup {p}
    /\ UNCHANGED <<choice, begun, held, over, socket, holder, late,
                   losses>>

\* The link of p is lost, and with it dropTransport closes the socket.
Lose(p) ==
    /\ p \in held /\ losses < MaxLosses
    /\ losses' = losses + 1
    /\ held' = held \ {p}
    /\ holder' = IF lingers THEN holder ELSE Freed(p)
    /\ UNCHANGED <<choice, begun, ending, over, socket, refused, late>>

\* KIS learns of a link that is gone.
Notice(p) ==
    /\ \E n \in 0 .. MaxLosses :
          holder = <<p, n>> /\ (p \notin held \/ n # socket[p])
    /\ holder' = Nobody
    /\ UNCHANGED <<choice, begun, held, ending, over, socket, refused,
                   late, losses>>

\* Mutant: redial installs its socket whether the connection ends or not.
Always(p) == TRUE

\* Mutant: it gives up after the first.
OnlyOnce(p) == p \notin ending /\ socket[p] = 0

MayRenew(p) == p \notin ending

\* redial.
Renew(p) ==
    /\ p \in begun \ held /\ MayRenew(p)
    /\ held' = held \cup {p}
    /\ socket' = [socket EXCEPT ![p] = @ + 1]
    /\ UNCHANGED <<choice, begun, ending, over, holder, refused,
                   late, losses>>

\* Close is called.
CloseBegins(p) ==
    /\ p \in begun \ ending
    /\ ending' = ending \cup {p}
    /\ UNCHANGED <<choice, begun, held, over, socket, holder, refused,
                   late, losses>>

\* The run loop has ended and the socket is closed, which is when Close
\* returns, or when the application sees Events closed.
Finish(p) ==
    /\ p \in ending \ over
    /\ over' = over \cup {p}
    /\ held' = held \ {p}
    /\ holder' = Freed(p)
    /\ UNCHANGED <<choice, begun, ending, socket, refused,
                   late, losses>>

Connection(p) ==
    \/ Begin(p) \/ Lose(p) \/ Renew(p) \/ CloseBegins(p) \/ Finish(p)

Server(p) == Serve(p) \/ Refuse(p) \/ Notice(p)

Next == \E p \in Processes : Connection(p) \/ Server(p)

\* Connections go on with what they began (Session), each makes the requests
\* that restore its streams, and KIS answers them and notices a lost link.
\* Nobody has to begin or to call Close.
Spec ==
    /\ Init /\ [][Next]_vars
    /\ \A p \in Processes :
          WF_vars(Renew(p)) /\ WF_vars(Finish(p)) /\ WF_vars(Server(p))

-----------------------------------------------------------------------------
\* Every variable keeps its type, and unless dead links linger KIS serves a
\* socket that its process has open.
TypeOK ==
    /\ ordered \in BOOLEAN /\ lingers \in BOOLEAN
    /\ begun \subseteq Processes /\ held \subseteq begun \ over
    /\ ending \subseteq begun /\ over \subseteq ending
    /\ refused \subseteq ending
    /\ socket \in [Processes -> Nat]
    /\ holder \in {Nobody} \cup (Processes \X Nat)
    /\ ~lingers => holder \in {Nobody} \cup {Mine(p) : p \in held}
    /\ late \in BOOLEAN /\ losses \in 0 .. MaxLosses

\* Break before make works: whoever waits for the other to have closed, and
\* closes before the next begins, never hears OPSP8996, whatever links are
\* lost meanwhile, provided KIS has noticed (doc.go:43-53, conn.go:339-342).
NobodyRefused == ordered /\ ~lingers => refused = {}

\* Without any order, with processes stealing the key whenever another has
\* lost its link, they do not all hear OPSP8996 and stop: of those that began
\* one has not (doc.go:55-58, reader.go:42-49).  The exception is a request
\* that a refused process sends before its socket is dropped.
SomebodyGoesOn == ~lingers /\ ~late /\ begun # {} => begun # refused

\* Nobody dials or serves beyond its end: each connection is a Session, of
\* which one that has not begun has lost nothing yet.
Own(p) ==
    INSTANCE Session WITH held <- p \in held \/ p \notin begun,
                          ending <- p \in ending, over <- p \in over
EachIsASession ==
    [][\A p \in Processes : [Own(p)!Next]_(Own(p)!vars)]_vars

\* With the key in order some process of those that began is served at last,
\* for as long as links last and nobody closes; its successor too.
KeyIsUsed ==
    \A p \in Processes :
        (ordered /\ ~lingers /\ p \in begun)
            ~> (p \in ending \/ holder = Mine(p))

=============================================================================
