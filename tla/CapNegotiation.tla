--------------------------- MODULE CapNegotiation ---------------------------
(***************************************************************************)
(* Capability negotiation and SASL between the worker and the IRC server   *)
(* (upstreamcommands.js), over connections that are lost and made again:   *)
(* CAP LS, REQ, ACK, LIST, NEW and DEL, replies that span several lines,   *)
(* AUTHENTICATE, and the END that lets the server complete a registration. *)
(*                                                                         *)
(* Both directions are FIFO; a connection that is lost takes the last of   *)
(* its lines along.  The numerics 001 to 376 are one line.  The parts of a *)
(* reply that was not complete stay in tempData.                           *)
(***************************************************************************)
EXTENDS Naturals, Sequences

CONSTANTS Caps,        \* the capabilities there are
          Wanted,      \* wantedCaps
          HasLogin,    \* the network has a SASL account
          MaxChanges,  \* bound: NEW and DEL announcements
          MaxDrops,    \* bound: connections that are lost
          Refuses      \* the server may refuse what it offered

ASSUME CapAssumption ==
    /\ Wanted \subseteq Caps
    /\ {HasLogin, Refuses} \subseteq BOOLEAN
    /\ MaxChanges \in Nat /\ MaxDrops \in Nat

VARIABLES
    caps,        \* state.caps
    partial,     \* per kind of reply: what tempData holds of one that is not complete
    registered,  \* netRegistered and receivedMotd, which change together here
    closing,     \* temp 'requested_close'
    closed,      \* onUpstreamClosed() has run and nobody has opened the connection again
    toServer, toWorker,
    alive,       \* the connection, at the server
    offered,     \* what the server offers
    enabled,     \* what it has enabled for this connection
    held,        \* it waits for CAP END
    loggedIn,    \* SASL succeeded
    lateAck,     \* history: an ACK came after the MOTD
    cut,         \* history: a connection was lost between the lines of a LIST reply
    earlyNew,    \* history: a NEW came before it
    refused,     \* history: a request was refused
    changes, drops

worker == <<caps, partial, registered, closing, closed>>
server == <<alive, offered, enabled, held, loggedIn>>
world == <<lateAck, cut, earlyNew, refused, changes, drops>>
vars == <<worker, toServer, toWorker, server, world>>

Replies == {"LS", "ACK", "LIST"}
Msg(cmd, cs) == [cmd |-> cmd, caps |-> cs, more |-> FALSE]

Init ==
    /\ caps = {} /\ partial = [r \in Replies |-> {}]
    /\ registered = FALSE /\ closing = FALSE /\ closed = FALSE
    /\ toServer = <<Msg("LS", {})>> /\ toWorker = <<>>
    /\ alive = TRUE /\ offered \in SUBSET Caps /\ enabled = {} /\ held = TRUE
    /\ loggedIn = FALSE
    /\ lateAck = FALSE /\ cut = FALSE /\ earlyNew = FALSE /\ refused = FALSE
    /\ changes = 0 /\ drops = 0

----------------------------------------------------------------------------
(* The worker.                                                             *)

\* writeLine(): what is written to a connection that is gone is dropped.
Write(lines) == toServer' = IF alive THEN toServer \o lines ELSE toServer

\* endCapNegotiation()
EndNegotiation == <<Msg("LIST", {}), Msg("END", {})>>

\* A plausible bug: what was stored is not cleared when the reply is complete.
AccumulateKeeping(msg) ==
    partial' = IF msg.more THEN [partial EXCEPT ![msg.cmd] = @ \union msg.caps] ELSE partial

\* accumulateMultiline(): a continued line is stored, the last one clears.
Accumulate(msg) ==
    partial' = [partial EXCEPT ![msg.cmd] = IF msg.more THEN @ \union msg.caps ELSE {}]

\* The tokens of a reply, with its last line.
Tokens(msg) == partial[msg.cmd] \union msg.caps

OnLs(msg) ==
    LET request == Tokens(msg) \intersect Wanted
    IN  /\ Accumulate(msg)
        /\ Write(IF msg.more THEN <<>>
                 ELSE IF request = {} THEN EndNegotiation ELSE <<Msg("REQ", request)>>)
        /\ UNCHANGED <<caps, registered, closing, closed, lateAck, earlyNew>>

OnList(msg) ==
    /\ Accumulate(msg)
    /\ caps' = IF msg.more THEN caps ELSE Tokens(msg)
    /\ UNCHANGED <<registered, closing, closed, toServer, lateAck, earlyNew>>

\* A plausible bug: the negotiation ends with every ACK.
OnAckEnding(msg) ==
    /\ Accumulate(msg)
    /\ caps' = IF msg.more THEN caps ELSE Tokens(msg)
    /\ Write(IF msg.more \/ registered THEN <<>>
             ELSE IF "sasl" \in Tokens(msg) /\ HasLogin
                  THEN <<Msg("PLAIN", {})>> \o EndNegotiation ELSE EndNegotiation)
    /\ UNCHANGED <<registered, closing, closed, lateAck, earlyNew>>

\* An ACK replaces the set of capabilities.  It starts SASL, or ends the negotiation.
OnAck(msg) ==
    LET sasl == "sasl" \in Tokens(msg) /\ HasLogin
    IN  /\ Accumulate(msg)
        /\ \/ msg.more /\ UNCHANGED <<caps, toServer, lateAck>>
           \/ /\ ~msg.more
              /\ caps' = Tokens(msg)
              /\ lateAck' = (lateAck \/ registered)
              /\ Write(IF sasl THEN <<Msg("PLAIN", {})>>
                       ELSE IF ~registered THEN EndNegotiation ELSE <<>>)
        /\ UNCHANGED <<registered, closing, closed, earlyNew>>

OnNew(msg) ==
    LET request == msg.caps \intersect Wanted
    IN  /\ Write(IF request = {} THEN <<>> ELSE <<Msg("REQ", request)>>)
        /\ earlyNew' = (earlyNew \/ ~registered)
        /\ UNCHANGED <<worker, lateAck>>

OnDel(msg) ==
    /\ caps' = caps \ msg.caps
    /\ UNCHANGED <<partial, registered, closing, closed, toServer, lateAck, earlyNew>>

OnAuthenticate ==
    /\ Write(<<Msg("LOGIN", {})>>)
    /\ UNCHANGED <<worker, lateAck, earlyNew>>

\* A plausible bug: a login that succeeds does not end the negotiation.
On903Waiting == UNCHANGED <<worker, toServer, lateAck, earlyNew>>

On903 ==
    /\ Write(IF registered THEN <<>> ELSE EndNegotiation)
    /\ UNCHANGED <<worker, lateAck, earlyNew>>

\* A login that fails closes the connection, and for good.
On904 ==
    /\ \/ registered /\ UNCHANGED <<closing, toServer>>
       \/ /\ ~registered
          /\ closing' = TRUE
          /\ Write(<<Msg("CLOSE", {})>>)
    /\ UNCHANGED <<caps, partial, registered, closed, lateAck, earlyNew>>

OnWelcome ==
    /\ registered' = TRUE
    /\ UNCHANGED <<caps, partial, closing, closed, toServer, lateAck, earlyNew>>

\* onUpstreamClosed(), which waits for the connection when it reconnects.
OnClose ==
    /\ registered' = FALSE /\ closing' = FALSE /\ closed' = TRUE
    /\ toServer' = <<>>
    /\ cut' = (cut \/ partial["LIST"] # {})
    /\ UNCHANGED <<caps, partial, lateAck, earlyNew>>

\* A refusal has no handler.
WorkerHandles ==
    /\ toWorker # <<>>
    /\ toWorker' = Tail(toWorker)
    /\ LET msg == Head(toWorker)
       IN  \/ msg.cmd = "LS" /\ OnLs(msg)
           \/ msg.cmd = "LIST" /\ OnList(msg)
           \/ msg.cmd = "ACK" /\ OnAck(msg)
           \/ msg.cmd = "NEW" /\ OnNew(msg)
           \/ msg.cmd = "DEL" /\ OnDel(msg)
           \/ msg.cmd = "+" /\ OnAuthenticate
           \/ msg.cmd = "903" /\ On903
           \/ msg.cmd = "904" /\ On904
           \/ msg.cmd = "376" /\ OnWelcome
           \/ msg.cmd = "close" /\ OnClose
           \/ msg.cmd = "NAK" /\ UNCHANGED <<worker, toServer, lateAck, earlyNew>>
    /\ Head(toWorker).cmd # "close" => cut' = cut
    /\ UNCHANGED <<server, refused, changes, drops>>

\* The timer or the user opens the connection again: onUpstreamConnected() asks for the
\* capabilities.  What tempData and caps held of the old connection is still there.
Reopen ==
    /\ closed /\ closed' = FALSE
    /\ toServer' = <<Msg("LS", {})>>
    /\ alive' = TRUE /\ enabled' = {} /\ held' = TRUE /\ loggedIn' = FALSE
    /\ UNCHANGED <<caps, partial, registered, closing, toWorker, offered, world>>

----------------------------------------------------------------------------
(* The server.                                                             *)

\* The ways to send a reply: in one line or in two.
Lines(cmd, cs) ==
    {<<Msg(cmd, cs)>>} \union
    {<<[cmd |-> cmd, caps |-> {c}, more |-> TRUE], Msg(cmd, cs \ {c})>> : c \in cs}

Send(lines) == toWorker' = toWorker \o lines

\* Everything the server has enabled, or refuses to.
Answer(request) ==
    \/ /\ request \subseteq offered
       /\ enabled' = enabled \union request
       /\ \E lines \in Lines("ACK", request) : Send(lines)
       /\ UNCHANGED refused
    \/ /\ Refuses \/ ~(request \subseteq offered)
       /\ Send(<<Msg("NAK", request)>>)
       /\ refused' = TRUE
       /\ UNCHANGED enabled

ServerHandles ==
    /\ alive /\ toServer # <<>>
    /\ toServer' = Tail(toServer)
    /\ LET msg == Head(toServer)
       IN  \/ /\ msg.cmd = "LS"
              /\ \E lines \in Lines("LS", offered) : Send(lines)
              /\ UNCHANGED <<alive, enabled, held, loggedIn, refused>>
           \/ /\ msg.cmd = "LIST"
              /\ \E lines \in Lines("LIST", enabled) : Send(lines)
              /\ UNCHANGED <<alive, enabled, held, loggedIn, refused>>
           \/ /\ msg.cmd = "REQ"
              /\ Answer(msg.caps)
              /\ UNCHANGED <<alive, held, loggedIn>>
           \/ /\ msg.cmd = "PLAIN"
              /\ Send(<<Msg("+", {})>>)
              /\ UNCHANGED <<alive, enabled, held, loggedIn, refused>>
           \/ /\ msg.cmd = "LOGIN"
              /\ \/ loggedIn' = TRUE /\ Send(<<Msg("903", {})>>)
                 \/ loggedIn' = loggedIn /\ Send(<<Msg("904", {})>>)
              /\ UNCHANGED <<alive, enabled, held, refused>>
           \/ /\ msg.cmd = "END"
              /\ held' = FALSE
              /\ Send(IF held THEN <<Msg("376", {})>> ELSE <<>>)
              /\ UNCHANGED <<alive, enabled, loggedIn, refused>>
           \/ /\ msg.cmd = "CLOSE"
              /\ alive' = FALSE
              /\ Send(<<Msg("close", {})>>)
              /\ UNCHANGED <<enabled, held, loggedIn, refused>>
    /\ UNCHANGED <<worker, offered, lateAck, cut, earlyNew, changes, drops>>

\* A capability comes or goes.
ServerAnnounces ==
    /\ alive /\ changes < MaxChanges /\ changes' = changes + 1
    /\ \E c \in Caps :
          \/ /\ c \notin offered
             /\ offered' = offered \union {c}
             /\ Send(<<Msg("NEW", {c})>>)
             /\ UNCHANGED enabled
          \/ /\ c \in offered
             /\ offered' = offered \ {c}
             /\ enabled' = enabled \ {c}
             /\ Send(<<Msg("DEL", {c})>>)
    /\ UNCHANGED <<worker, toServer, alive, held, loggedIn, lateAck, cut, earlyNew, refused, drops>>

\* What the server sent last may be lost with the connection.
Drop ==
    /\ alive /\ drops < MaxDrops /\ drops' = drops + 1
    /\ alive' = FALSE
    /\ \E k \in 0..Len(toWorker) :
           toWorker' = Append(SubSeq(toWorker, 1, k), Msg("close", {}))
    /\ UNCHANGED <<worker, toServer, offered, enabled, held, loggedIn, lateAck, cut, earlyNew,
                   refused, changes>>

Next == WorkerHandles \/ Reopen \/ ServerHandles \/ ServerAnnounces \/ Drop

Spec == Init /\ [][Next]_vars

\* The worker and the server answer what they get.
FairSpec == Spec /\ WF_vars(WorkerHandles) /\ WF_vars(ServerHandles)

----------------------------------------------------------------------------

TypeOK ==
    /\ caps \subseteq Caps /\ partial \in [Replies -> SUBSET Caps]
    /\ {registered, closing, closed, alive, held, loggedIn} \subseteq BOOLEAN
    /\ enabled \subseteq offered /\ offered \subseteq Caps

\* "so a lost ACK can't leave us permanently out of sync with the server"
\* (upstreamcommands.js:8): when a registered connection is quiet, the worker knows
\* exactly the capabilities that are enabled.
CapsInSync == registered /\ alive /\ toServer = <<>> /\ toWorker = <<>> => caps = enabled

\* The same when no capability was asked for after the registration, and no connection was lost
\* between the lines of a LIST reply, of which the first are added to the next reply.
CapsInSyncUnlessNew == ~lateAck /\ ~cut => CapsInSync

\* The server is not told to complete the registration of a connection that has SASL and
\* an account before the login succeeded, unless a capability was announced meanwhile.
LoginBeforeRegistration ==
    [][held /\ ~held' /\ HasLogin /\ "sasl" \in enabled /\ ~earlyNew => loggedIn]_vars

\* A registration comes to its end: the server is told to go on, or the connection closes.
EveryRegistrationEnds == [](~registered => <>(registered \/ closed))

\* The same of a server that grants what it is asked for.
RegistrationEnds == []~refused => EveryRegistrationEnds

=============================================================================
