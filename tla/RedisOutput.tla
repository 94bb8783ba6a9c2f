------------------------------- MODULE RedisOutput -------------------------------
(***************************************************************************)
(* The redis output of libbeat (outputs/redis/redis.go).  PublishEvent     *)
(* queues events; SendMessagesGoroutine sends them on out.Conn, flushes    *)
(* the connection at every tick and reads one reply.  After an error it    *)
(* starts Reconnect in a goroutine of its own, which dials until it        *)
(* succeeds.  All of them read and write out.Conn and out.connected        *)
(* without a lock.                                                         *)
(***************************************************************************)
EXTENDS Integers, Sequences, SequencesExt

CONSTANTS
    SendingCap,     \* capacity of sendingQueue (1000)
    MaxOutages,     \* bound: times the server goes away
    MaxErrors,      \* bound: times a server that is up refuses or does not answer
    MaxReconnects   \* bound: Reconnect goroutines at a time

ASSUME RedisAssumption ==
    /\ SendingCap \in Nat \ {0}
    /\ MaxOutages \in Nat /\ MaxErrors \in Nat /\ MaxReconnects \in Nat

VARIABLES
    flush_immediatelly,     \* a negative flush_interval, from the configuration
    redisQueue,     \* sendingQueue
    connected,
    Conn,           \* out.Conn: its state, the commands in its buffer, and for each reply
                    \* that is due whether the command was accepted
    pending,        \* commands since the last flush
    flushed,        \* SendMessagesGoroutine has flushed and will call Receive
    dialing,        \* Reconnect goroutines that are dialing or sleeping
    dialed,         \* Reconnect goroutines that have dialed and not set connected
    serverUp, outages, errors,
    panicked,       \* a nil connection was used, which ends the process
    stored          \* History: the events in the list of the server

redisVars == <<flush_immediatelly, redisQueue, connected, Conn, pending, flushed, dialing,
               dialed, serverUp, outages, errors, panicked, stored>>
redisServer == <<flush_immediatelly, serverUp, outages, errors, stored>>

NilConn == [state |-> "nil", buf |-> <<>>, due |-> <<>>]
NewConn == [NilConn EXCEPT !.state = "up"]

\* The sending side of PublishEvent.
redisPublishEvent(e) ==
    /\ Len(redisQueue) < SendingCap
    /\ redisQueue' = Append(redisQueue, e)
    /\ UNCHANGED <<connected, Conn, pending, flushed, dialing, dialed, redisServer, panicked>>

\* An answer of the server that is an error (no memory, wrong type, no password), or
\* none before the timeout.
ServerError == errors < MaxErrors /\ errors' = errors + 1

\* The commands of a flush that the server accepts.
Accepted(cmds) ==
    UNION {{[i \in 1 .. n |-> cmds[at[i]]] : at \in {f \in [1 .. n -> 1 .. Len(cmds)] :
                \A i, j \in 1 .. n : i < j => f[i] < f[j]}} : n \in 0 .. Len(cmds)}

\* go out.Reconnect()
GoReconnect == dialing < MaxReconnects /\ connected' = FALSE /\ dialing' = dialing + 1

\* "Droping pkt ..."
SendDrop ==
    /\ ~flushed /\ redisQueue # <<>> /\ ~connected
    /\ redisQueue' = Tail(redisQueue)
    /\ UNCHANGED <<connected, Conn, pending, flushed, dialing, dialed, redisServer, panicked>>

\* Conn.Send only fills the buffer of the connection, unless that is full.
SendBuffer ==
    /\ ~flush_immediatelly
    /\ ~flushed /\ redisQueue # <<>> /\ connected /\ Conn.state # "nil"
    /\ redisQueue' = Tail(redisQueue)
    /\ Conn' = [Conn EXCEPT !.buf = Append(@, Head(redisQueue))]
    /\ pending' = pending + 1
    /\ UNCHANGED <<connected, flushed, dialing, dialed, redisServer, panicked>>

\* Mutant: the command is sent again on the new connection.
DoTwice ==
    /\ flush_immediatelly
    /\ redisQueue # <<>> /\ connected /\ Conn.state = "up"
    /\ \E again \in BOOLEAN : redisQueue' = IF again THEN redisQueue ELSE Tail(redisQueue)
    /\ stored' = Append(stored, Head(redisQueue))
    /\ UNCHANGED <<connected, Conn, pending, flushed, dialing, dialed,
                   flush_immediatelly, serverUp, outages, errors, panicked>>

\* Conn.Do: the command is sent and its reply is read.
Do ==
    /\ flush_immediatelly
    /\ redisQueue # <<>> /\ connected /\ Conn.state = "up"
    /\ redisQueue' = Tail(redisQueue)
    /\ stored' = Append(stored, Head(redisQueue))
    /\ UNCHANGED <<connected, Conn, pending, flushed, dialing, dialed,
                   flush_immediatelly, serverUp, outages, errors, panicked>>

\* The reply is an error, which redigo returns as one, or does not come in time.
DoRefused ==
    /\ flush_immediatelly
    /\ redisQueue # <<>> /\ connected /\ Conn.state = "up"
    /\ redisQueue' = Tail(redisQueue)
    /\ ServerError /\ GoReconnect
    /\ \/ UNCHANGED <<Conn, stored>>
       \/ /\ Conn' = [Conn EXCEPT !.state = "broken"]
          /\ stored' \in {stored, Append(stored, Head(redisQueue))}
    /\ UNCHANGED <<pending, flushed, dialed, flush_immediatelly, serverUp, outages, panicked>>

\* Conn.Do, or Conn.Send with a full buffer, and the server is not there.
SendFails ==
    /\ ~flushed /\ redisQueue # <<>> /\ connected /\ Conn.state = "broken"
    /\ redisQueue' = Tail(redisQueue)
    /\ pending' = IF flush_immediatelly THEN pending ELSE pending + 1
    /\ GoReconnect
    /\ UNCHANGED <<Conn, flushed, dialed, redisServer, panicked>>

\* The tick with something pending: Conn.Flush(), whose error is ignored.
Flush ==
    /\ ~flushed /\ pending > 0 /\ Conn.state # "nil"
    /\ flushed' = TRUE
    /\ IF Conn.state = "up"
       THEN \E cmds \in Accepted(Conn.buf) :
            /\ IF cmds = Conn.buf THEN UNCHANGED errors ELSE ServerError
            /\ stored' = stored \o cmds
            /\ Conn' = [Conn EXCEPT !.buf = <<>>, !.due = @ \o
                           [i \in 1 .. Len(Conn.buf) |-> Conn.buf[i] \in Range(cmds)]]
       ELSE UNCHANGED <<stored, Conn, errors>>
    /\ UNCHANGED <<redisQueue, connected, pending, dialing, dialed, flush_immediatelly,
                   serverUp, outages, panicked>>

\* Conn.Receive() returns one reply, however many commands were pending.
Receive ==
    /\ flushed /\ Conn.state = "up" /\ Conn.due # <<>> /\ Head(Conn.due)
    /\ Conn' = [Conn EXCEPT !.due = Tail(@)]
    /\ pending' = 0 /\ flushed' = FALSE
    /\ UNCHANGED <<redisQueue, connected, dialing, dialed, redisServer, panicked>>

\* Conn.Receive() returns an error: the reply is one; or it does not come in time, or
\* none is due, and the connection is given up; or the connection was broken.
ReceiveError ==
    /\ flushed /\ Conn.state # "nil"
    /\ \/ /\ Conn.state = "up" /\ Conn.due # <<>> /\ ~Head(Conn.due)
          /\ Conn' = [Conn EXCEPT !.due = Tail(@)]
          /\ UNCHANGED errors
       \/ /\ Conn' = [Conn EXCEPT !.state = "broken"]
          /\ IF Conn.state = "broken" \/ Conn.due = <<>> THEN UNCHANGED errors ELSE ServerError
    /\ pending' = 0 /\ flushed' = FALSE

\* Mutant: the error of Receive starts no Reconnect.
ReceiveFailsQuietly ==
    /\ ReceiveError
    /\ connected' = FALSE
    /\ UNCHANGED <<redisQueue, dialing, dialed, flush_immediatelly, serverUp, outages, stored,
                   panicked>>

ReceiveFails ==
    /\ ReceiveError
    /\ GoReconnect
    /\ UNCHANGED <<redisQueue, dialed, flush_immediatelly, serverUp, outages, stored, panicked>>

\* A call on a nil connection: there is no recover in this goroutine.
NilPanic ==
    /\ Conn.state = "nil"
    /\ \/ flushed
       \/ pending > 0
       \/ redisQueue # <<>> /\ connected
    /\ panicked' = TRUE
    /\ UNCHANGED <<redisQueue, connected, Conn, pending, flushed, dialing, dialed, redisServer>>

\* out.Conn, err = out.RedisConnect(out.Db): out.Conn is nil after an error, also one
\* of AUTH, PING or SELECT on a server that is up.
ConnectFails ==
    /\ dialing > 0
    /\ IF serverUp THEN ServerError ELSE UNCHANGED errors
    /\ Conn' = NilConn
    /\ UNCHANGED <<redisQueue, connected, pending, flushed, dialing, dialed,
                   flush_immediatelly, serverUp, outages, stored, panicked>>

ConnectDials ==
    /\ dialing > 0 /\ serverUp
    /\ Conn' = NewConn
    /\ dialing' = dialing - 1 /\ dialed' = dialed + 1
    /\ UNCHANGED <<redisQueue, connected, pending, flushed, redisServer, panicked>>

\* out.connected = true
ConnectDone ==
    /\ dialed > 0
    /\ connected' = TRUE
    /\ dialed' = dialed - 1
    /\ UNCHANGED <<redisQueue, Conn, pending, flushed, dialing, redisServer, panicked>>

\* The server goes away, and with it the connection, and comes back.
ServerDown ==
    /\ serverUp /\ outages < MaxOutages
    /\ serverUp' = FALSE /\ outages' = outages + 1
    /\ Conn' = IF Conn.state = "up" THEN [Conn EXCEPT !.state = "broken"] ELSE Conn
    /\ UNCHANGED <<redisQueue, connected, pending, flushed, dialing, dialed, errors, panicked,
                   flush_immediatelly, stored>>

ServerBack ==
    /\ ~serverUp
    /\ serverUp' = TRUE
    /\ UNCHANGED <<redisQueue, connected, Conn, pending, flushed, dialing, dialed, outages,
                   errors, panicked, flush_immediatelly, stored>>

RedisInit ==
    /\ flush_immediatelly \in BOOLEAN
    /\ redisQueue = <<>> /\ connected = TRUE /\ Conn = NewConn
    /\ pending = 0 /\ flushed = FALSE /\ dialing = 0 /\ dialed = 0 /\ panicked = FALSE
    /\ serverUp = TRUE /\ outages = 0 /\ errors = 0 /\ stored = <<>>

\* Init calls Reconnect and goes on when it is connected.
RedisRestart ==
    /\ serverUp
    /\ redisQueue' = <<>> /\ connected' = TRUE /\ Conn' = NewConn
    /\ pending' = 0 /\ flushed' = FALSE /\ dialing' = 0 /\ dialed' = 0 /\ panicked' = FALSE
    /\ UNCHANGED redisServer

SendMessagesStep ==
    \/ SendDrop \/ SendBuffer \/ Do \/ DoRefused \/ SendFails
    \/ Flush \/ Receive \/ ReceiveFails \/ NilPanic
ReconnectStep == ConnectFails \/ ConnectDials \/ ConnectDone

-------------------------------------------------------------------------------
\* "Interval for reconnecting failed Redis connections": a failed connection is
\* made again, it never ends the process.
SurvivesOutage == ~panicked

\* The list on the server holds the events in their order and none twice, over
\* all connections and outages.
StoredInOrder == \A i, j \in 1 .. Len(stored) : i < j => stored[i] < stored[j]

\* Once the server stays up and has answered its last error (there are MaxErrors of
\* them), the output ends up connected for good and drops no more events, even if
\* several Reconnects were under way, a reply was awaited that no command had asked
\* for, or an error is read long after the command it answers.  While the server
\* goes on refusing commands the output never stops reconnecting.
ReconnectsForGood == <>[]serverUp => <>[](panicked \/ connected)
===============================================================================
