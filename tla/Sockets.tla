------------------------------ MODULE Sockets ------------------------------
(***************************************************************************)
(* The AFD sockets of net.rs, over the host's sockets, which are external. *)
(* Every call is tried once without blocking; one that would block is      *)
(* executed again later, so it leaves nothing behind but what its try did: *)
(* a poll takes the first waiting connection from the host and parks it.   *)
(*                                                                         *)
(* A connection is the number of its arrival and wire[c] is what the host  *)
(* holds for it.  A datagram socket has a connection of its own, for what  *)
(* peers send it.  taken and promised are history: the newest connection   *)
(* accepted through a socket, and what a poll told the guest it can do     *)
(* there without blocking.  Sending, and so shutting it down, changes      *)
(* nothing that is kept here; addresses, statuses and deadlines are left   *)
(* out.                                                                    *)
(***************************************************************************)
EXTENDS Integers, Sequences

CONSTANTS MaxSockets,   \* handles opened in a run (a bound of the model)
          MaxConns,     \* connections made in a run (a bound of the model)
          MaxBytes      \* bytes waiting in a connection (a bound of the model)

ASSUME SocketsAssumption == {MaxSockets, MaxConns, MaxBytes} \subseteq Nat

VARIABLES sockets, opened, wire, promised

sktvars == <<sockets, opened, wire, promised>>

NoConn == 0
Conns == 1 .. MaxConns
NewSocket == [kind |-> "none", ep |-> "unbound", conn |-> NoConn, bound |-> "no",
              listening |-> FALSE, backlog |-> <<>>, pending |-> <<>>, taken |-> 0,
              rd_shutdown |-> FALSE]

SktInit == /\ sockets = [h \in {} |-> NewSocket]
           /\ opened = 0
           /\ wire = <<>>
           /\ promised = {}

OpenSockets == DOMAIN sockets
NextConn == Len(wire) + 1
Arrived == Append(wire, [bytes |-> 0, eof |-> FALSE])
Forget(h) == {p \in promised : p[1] # h}

nt_open_afd == /\ opened < MaxSockets
               /\ opened' = opened + 1
               /\ sockets' = [h \in OpenSockets \cup {opened'} |->
                                IF h = opened' THEN NewSocket ELSE sockets[h]]
               /\ UNCHANGED <<wire, promised>>

close_socket(h) == /\ sockets' = [s \in OpenSockets \ {h} |-> sockets[s]]
                   /\ promised' = Forget(h)
                   /\ UNCHANGED <<opened, wire>>

\* ws2_32 asks for this once, right after it opened the handle.
afd_create(h, kind) == /\ sockets[h] = NewSocket
                       /\ sockets' = [sockets EXCEPT ![h].kind = kind]
                       /\ UNCHANGED <<opened, wire, promised>>

\* A stream socket listens on the host as soon as it is bound.  Binding again
\* replaces the endpoint and keeps what a poll has parked.
afd_bind(h, port) ==
    /\ sockets[h].kind # "none"
    /\ sockets' = [sockets EXCEPT ![h].ep =
                                    IF sockets[h].kind = "dgram" THEN "datagram" ELSE "listener",
                                  ![h].conn = IF sockets[h].kind = "dgram" THEN NextConn ELSE NoConn,
                                  ![h].backlog = <<>>,
                                  ![h].bound = port]
    /\ IF sockets[h].kind = "dgram"
        THEN NextConn \in Conns /\ wire' = Arrived
        ELSE UNCHANGED wire
    /\ promised' = Forget(h)
    /\ UNCHANGED opened

afd_listen(h) == /\ sockets[h].ep = "listener"
                 /\ sockets' = [sockets EXCEPT ![h].listening = TRUE]
                 /\ UNCHANGED <<opened, wire, promised>>

\* A socket bound to a port of the host's choice gives its listener up to
\* connect, and stays without one when the peer refuses.
CanConnect(s) == \/ s.ep = "unbound"
                 \/ s.ep = "listener" /\ ~s.listening /\ s.bound = "any"

afd_connect(h, accepted) ==
    LET s == sockets[h] IN
    /\ CanConnect(s)
    /\ accepted => NextConn \in Conns
    /\ sockets' = [sockets EXCEPT
                     ![h].ep = IF ~accepted THEN "unbound"
                               ELSE IF s.kind = "dgram" /\ s.ep = "unbound" THEN "datagram"
                               ELSE "stream",
                     ![h].conn = IF accepted THEN NextConn ELSE NoConn,
                     ![h].backlog = <<>>]
    /\ wire' = IF accepted THEN Arrived ELSE wire
    /\ promised' = Forget(h)
    /\ UNCHANGED opened

\* What a poll parked goes first, then what waits at the host.
Line(s) == s.pending \o s.backlog

Accepting_HostFirst(s) ==
    IF s.backlog # <<>> THEN [s EXCEPT !.backlog = Tail(@), !.taken = Head(s.backlog)]
    ELSE [s EXCEPT !.pending = Tail(@), !.taken = Head(s.pending)]

Accepting(s) ==
    IF s.pending # <<>> THEN [s EXCEPT !.pending = Tail(@), !.taken = Head(s.pending)]
    ELSE [s EXCEPT !.backlog = Tail(@), !.taken = Head(s.backlog)]

AcceptBlocks(s) == s.pending = <<>> /\ s.ep = "listener" /\ s.backlog = <<>>

afd_accept(h) ==
    LET s == sockets[h]
        next == Accepting(s) IN
    /\ Line(s) # <<>>
    /\ opened < MaxSockets
    /\ opened' = opened + 1
    /\ sockets' = [k \in OpenSockets \cup {opened'} |->
                     CASE k = h -> next
                       [] k = opened' -> [NewSocket EXCEPT !.kind = "stream", !.ep = "stream",
                                                           !.conn = next.taken]
                       [] OTHER -> sockets[k]]
    /\ promised' = promised \ {<<h, "accept">>}
    /\ UNCHANGED wire

RecvBlocks(s) == /\ ~s.rd_shutdown
                 /\ s.ep \in {"stream", "datagram"}
                 /\ wire[s.conn].bytes = 0 /\ ~wire[s.conn].eof

\* A datagram is taken whole, whatever part of it the buffer can hold.  What
\* was read from the host is gone even when the guest's buffer faults.
Taken(s, n) == IF s.rd_shutdown \/ s.ep \notin {"stream", "datagram"} THEN 0
               ELSE IF s.ep = "datagram" THEN 1
               ELSE IF n < wire[s.conn].bytes THEN n ELSE wire[s.conn].bytes

afd_recv(h, n) ==
    LET s == sockets[h] IN
    /\ RecvBlocks(s) => s.ep = "stream" /\ n = 0
    /\ wire' = IF Taken(s, n) = 0 THEN wire
               ELSE [wire EXCEPT ![s.conn].bytes = @ - Taken(s, n)]
    /\ promised' = promised \ {<<h, "read">>}
    /\ UNCHANGED <<sockets, opened>>

\* The flag is set before the endpoint is asked, also where there is none yet,
\* and stays for the connection that is made later.
afd_shutdown(h) ==
    /\ sockets' = [sockets EXCEPT ![h].rd_shutdown = TRUE]
    /\ UNCHANGED <<opened, wire, promised>>

(***************************************************************************)
(* Polling: afd_readiness looks at one socket, and may change it.          *)
(***************************************************************************)
Probed_Lost(s) == IF s.ep = "listener" /\ s.pending = <<>> /\ s.backlog # <<>>
                  THEN [s EXCEPT !.backlog = Tail(@)]
                  ELSE s
Probed(s) == IF s.ep = "listener" /\ s.pending = <<>> /\ s.backlog # <<>>
             THEN [s EXCEPT !.backlog = Tail(@), !.pending = <<Head(s.backlog)>>]
             ELSE s

afd_readiness(s) ==
    (IF s.ep = "listener" /\ Line(s) # <<>> THEN {"accept", "read"} ELSE {})
    \cup (IF s.ep \in {"stream", "datagram"} /\ (wire[s.conn].bytes > 0 \/ wire[s.conn].eof)
          THEN {"read"} ELSE {})

\* Every entry is probed, the call blocks when none is ready, and the guest is
\* told what it asked for and nothing else.
afd_select(asked, want) ==
    /\ sockets' = [h \in OpenSockets |-> IF h \in asked THEN Probed(sockets[h]) ELSE sockets[h]]
    /\ promised' = promised \cup {p \in asked \X want : p[2] \in afd_readiness(sockets[p[1]])}
    /\ UNCHANGED <<opened, wire>>

(***************************************************************************)
(* The other end.                                                          *)
(***************************************************************************)
PeerConnects(h) == /\ sockets[h].ep = "listener"
                   /\ NextConn \in Conns
                   /\ sockets' = [sockets EXCEPT ![h].backlog = Append(@, NextConn)]
                   /\ wire' = Arrived
                   /\ UNCHANGED <<opened, promised>>

Used(c) == \E h \in OpenSockets : sockets[h].conn = c \/ \E i \in DOMAIN Line(sockets[h]) : Line(sockets[h])[i] = c

PeerSends(c) == /\ Used(c)
                /\ ~wire[c].eof /\ wire[c].bytes < MaxBytes
                /\ wire' = [wire EXCEPT ![c].bytes = @ + 1]
                /\ UNCHANGED <<sockets, opened, promised>>

PeerCloses(c) == /\ \A h \in OpenSockets : sockets[h].conn = c => sockets[h].ep # "datagram"
                 /\ Used(c)
                 /\ wire' = [wire EXCEPT ![c].eof = TRUE]
                 /\ UNCHANGED <<sockets, opened, promised>>

SktNext ==
    \/ nt_open_afd
    \/ \E h \in OpenSockets :
        \/ close_socket(h) \/ afd_listen(h) \/ afd_accept(h) \/ afd_shutdown(h)
        \/ PeerConnects(h)
        \/ \E kind \in {"stream", "dgram"} : afd_create(h, kind)
        \/ \E port \in {"any", "chosen"} : afd_bind(h, port)
        \/ \E accepted \in BOOLEAN : afd_connect(h, accepted)
        \/ \E n \in 0 .. MaxBytes : afd_recv(h, n)
    \/ \E asked \in SUBSET OpenSockets, want \in {{"accept"}, {"read"}, {"accept", "read"}} : afd_select(asked, want)
    \/ \E c \in DOMAIN wire : PeerSends(c) \/ PeerCloses(c)

SktSpec == SktInit /\ [][SktNext]_sktvars

(***************************************************************************)
(* What the sockets keep.                                                  *)
(***************************************************************************)

\* Whatever polls, binds and accepts of several threads do in between, the
\* connections of a socket are accepted in the order they arrived, none twice.
AcceptedInOrder ==
    \A h \in OpenSockets : LET line == Line(sockets[h]) IN
        \A i \in DOMAIN line : /\ sockets[h].taken < line[i]
                               /\ \A j \in 1 .. i - 1 : line[j] < line[i]

\* A poll's answer holds until somebody uses it: the accept or the receive it
\* announced does not block, though the poll itself took the connection.
ReadyMeansNow ==
    \A p \in promised : /\ p[2] = "accept" => ~AcceptBlocks(sockets[p[1]])
                        /\ p[2] = "read" => ~RecvBlocks(sockets[p[1]])
=============================================================================
