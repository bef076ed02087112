----------------------------- MODULE TcpDialogue -----------------------------
(***************************************************************************)
(* client.cpp and server.cpp together: every form of the one against every *)
(* form of the other.                                                      *)
(***************************************************************************)
EXTENDS TcpServer, TcpClient

\* Which form of the server meets which form of the client.
CONSTANT Pairings

ASSUME PairingsAssumption == Pairings \subseteq ServerModes \X ClientModes

vars == <<conn, serverVars, clientVars>>

Init ==
    /\ conn = [c \in Conns |-> Unused]
    /\ ServerInit /\ ClientInit
    /\ <<server_mode, client_mode>> \in Pairings

Network == (\E c \in Conns : Arrive(c)) /\ UNCHANGED <<serverVars, clientVars>>
Server  == ServerNext /\ UNCHANGED clientVars
Client  == ClientNext /\ UNCHANGED serverVars

Next == Network \/ Server \/ Client

Safety == Init /\ [][Next]_vars

\* What may start a dialogue again: a timeout, a connect() that fails, a write()
\* that takes a part of the string, the comparison with a variable nobody has
\* set, and a read() of the server that comes too early.
Disturbed ==
    \/ \E k \in Dialogues : Alarm(k) \/ Fork(k, TRUE)
    \/ RoundConnects(TRUE)
    \/ \E k \in Dialogues : (ChildTalks(k) \/ RoundTalks(k)) /\ (ShortWrite(k) \/ Rejects(k))
    \/ \E c \in Conns : Child(c) /\ ReadTooEarly(c)
    \/ \E i \in Slots : Turn(i) /\ ReadTooEarly(client[i])

ClientGoesOn(k) == Fork(k, FALSE) \/ Reap(k) \/ ChildTalks(k)
OneClientGoesOn == RoundConnects(FALSE) \/ Exit \/ \E k \in Dialogues : RoundTalks(k)

\* Processes are scheduled, what was sent arrives, and accept() takes the
\* connections in the order in which they came.
Fairness ==
    /\ \A c \in Conns : /\ WF_vars(Arrive(c) /\ UNCHANGED <<serverVars, clientVars>>)
                        /\ WF_vars(Child(c) /\ UNCHANGED clientVars)
                        /\ SF_vars((Accept(c) \/ Round(c)) /\ UNCHANGED clientVars)
    /\ WF_vars(NoFork /\ UNCHANGED clientVars)
    /\ \A k \in Dialogues : WF_vars(ClientGoesOn(k) /\ UNCHANGED serverVars)
    /\ WF_vars(OneClientGoesOn /\ UNCHANGED serverVars)

Spec == Safety /\ Fairness
-----------------------------------------------------------------------------
\* The two ends keep step: as long as the server has not closed, either it is
\* about to ask what the client waits for, or that question or the reply to it
\* is all that is under way; and no piece of the string is lost or doubled.
InStep ==
    \A k \in Dialogues : Talking(k) =>
        LET r == conn[link[k]]
            w == work[link[k]]
            s == state[k]
            silent == r.up = << >> /\ r.flight = 0
        IN  \/ r.server = "closed"
            \/ w = 0 /\ s = 0 /\ r.down = << >> /\ silent
            \/ w = s + 1 /\ r.down = <<s>> /\ silent
            \/ w = s - 1 /\ w < 7 /\ r.down = << >> /\ r.up = <<w>> /\ r.flight = 0
            \/ /\ w = 7 /\ r.down = << >> /\ (s = 8 \/ kid[k] = "string")
               /\ left[k] + r.flight + Len(r.up) + sum[link[k]] = Units

\* A write() to a socket that has got a reset raises SIGPIPE, which would end the
\* one process of nofork_work with all its clients.  The server never does it:
\* when a reset has come there is no reply left that it would still answer.
NeverWritesAfterReset ==
    \A c \in Conns : conn[c].reset # "no" /\ conn[c].server = "open"
                        => work[c] # 0 /\ AtEnd(c)

Succeeded == {k \in Dialogues : kid[k] \in {"finish", "ok", "counted"}}

\* A dialogue that succeeded for the client did for the server: it has written the
\* file, or waits for the close and will write the whole string.  In nofork_work
\* the file can be short: its length is set to that of the last read().
SuccessIsComplete ==
    \A k \in Succeeded :
        \/ pid[k] \in files
        \/ \E c \in Conns :
             /\ conn[c].pid = pid[k] /\ work[c] = 9 /\ sum[c] = Units
             /\ server_mode # "nofork" => len[c] = Units

\* No two dialogues that succeeded have the same pid, the name of their files on
\* both sides: in the one process descriptors are used again, but not of those.
NamesDistinct == \A k1, k2 \in Succeeded : pid[k1] = pid[k2] => k1 = k2

\* A one-process client has taken a part of the string for all of it, and the
\* server reads on in a blocking socket: neither has a timeout.
Stalled ==
    /\ server_mode = "fork_block" /\ OneProcess
    /\ \E k \in Dialogues : kid[k] = "talk" /\ state[k] = 8 /\ left[k] > 0

\* Once nothing disturbs the dialogues any more, as many succeed as were asked
\* for, the server writes the file of each, and it closes its end of every
\* connection, those given up on the way included; unless a dialogue is stalled.
AllSucceed ==
    <>[][~Disturbed]_vars
        => <>\/ /\ success_num = connect_num
                /\ \A k \in Dialogues : pid[k] \in files
                /\ \A c \in Conns : conn[c] = Unused
             \/ Stalled
=============================================================================
