--------------------------- MODULE ImServerProofs ---------------------------
(***************************************************************************)
(* For any number of connections and users, and any TIMEOUT: the           *)
(* containers of the server agree, the entry of a user is its latest       *)
(* login, and the timer of a client covers its silence.                    *)
(***************************************************************************)
EXTENDS ImServer, FiniteSetTheorems, SequenceTheorems, TLAPS

LEMMA SockNumbers == Socks \subseteq Nat \ {0}
  <1>1. Cardinality(Clients) \in Nat
    BY ImServerAssumption, FS_CardinalityType
  <1> QED
    BY <1>1 DEF Socks

-----------------------------------------------------------------------------
(* The vector: erase and push_back.                                        *)

Distinct(seq) == \A j, k \in 1 .. Len(seq) : seq[j] = seq[k] => j = k

\* Erasing one element of a vector without duplicates.
LEMMA Erased ==
  ASSUME NEW S, NEW seq \in Seq(S), Distinct(seq), NEW k \in 1 .. Len(seq)
  PROVE  /\ Without(seq, k) \in Seq(S)
         /\ Len(Without(seq, k)) = Len(seq) - 1
         /\ \A n \in 1 .. Len(seq) - 1 :
              Without(seq, k)[n] = IF n < k THEN seq[n] ELSE seq[n + 1]
         /\ Range(Without(seq, k)) = Range(seq) \ {seq[k]}
         /\ Distinct(Without(seq, k))
  <1> DEFINE rest == Without(seq, k)
  <1>1. Len(seq) \in Nat /\ Len(seq) - 1 \in Nat /\ DOMAIN seq = 1 .. Len(seq)
    OBVIOUS
  <1>2. rest \in Seq(S) /\ Len(rest) = Len(seq) - 1
    <2>1. rest \in [1 .. Len(seq) - 1 -> S]
      BY DEF Without
    <2> HIDE DEF rest
    <2>2. rest \in Seq(S)
      BY <1>1, <2>1, SeqDef
    <2>3. Len(rest) \in Nat /\ 1 .. Len(rest) = 1 .. Len(seq) - 1
      BY <1>1, <2>1, <2>2, LenProperties
    <2>4. \A m, n \in Nat : 1 .. m = 1 .. n => m = n
      <3> SUFFICES ASSUME NEW m \in Nat, NEW n \in Nat, 1 .. m = 1 .. n, m < n PROVE FALSE
        OBVIOUS
      <3> QED
        BY n \in 1 .. n, n \notin 1 .. m
    <2> QED
      BY <1>1, <2>2, <2>3, <2>4
  <1>3. \A n \in 1 .. Len(seq) - 1 : rest[n] = IF n < k THEN seq[n] ELSE seq[n + 1]
    BY DEF Without
  <1>4. Range(rest) = Range(seq) \ {seq[k]}
    <2>1. ASSUME NEW n \in 1 .. Len(seq) - 1
          PROVE  rest[n] \in Range(seq) \ {seq[k]}
      BY <1>1, <1>3 DEF Distinct, Range
    <2>2. ASSUME NEW n \in 1 .. Len(seq), n # k
          PROVE  \E m \in 1 .. Len(seq) - 1 : rest[m] = seq[n]
      <3>1. CASE n < k
        <4>1. n \in 1 .. Len(seq) - 1 /\ rest[n] = seq[n]
          BY <3>1, <1>3
        <4> QED
          BY <4>1
      <3>2. CASE n > k
        <4>1. n - 1 \in 1 .. Len(seq) - 1 /\ ~(n - 1 < k) /\ (n - 1) + 1 = n
          BY <3>2
        <4>2. rest[n - 1] = seq[n]
          BY <4>1, <1>3
        <4> QED
          BY <4>1, <4>2
      <3> QED
        BY <2>2, <3>1, <3>2
    <2>3. DOMAIN rest = 1 .. Len(seq) - 1
      BY DEF Without
    <2> HIDE DEF rest
    <2>4. ASSUME NEW x \in Range(rest) PROVE x \in Range(seq) \ {seq[k]}
      BY <2>1, <2>3 DEF Range
    <2>5. ASSUME NEW x \in Range(seq) \ {seq[k]} PROVE x \in Range(rest)
      <3>1. PICK n \in 1 .. Len(seq) : x = seq[n]
        BY <1>1 DEF Range
      <3> QED
        BY <3>1, <2>2, <2>3 DEF Range
    <2> QED
      BY <2>4, <2>5
  <1>5. Distinct(rest)
    <2> HIDE DEF rest
    <2> SUFFICES ASSUME NEW m \in 1 .. Len(seq) - 1, NEW n \in 1 .. Len(seq) - 1,
                        rest[m] = rest[n]
                 PROVE  m = n
      BY <1>2 DEF Distinct
    <2>1. CASE m < k /\ n < k
      BY <2>1, <1>3 DEF Distinct
    <2>2. CASE m < k /\ ~(n < k)
      BY <2>2, <1>3 DEF Distinct
    <2>3. CASE ~(m < k) /\ n < k
      BY <2>3, <1>3 DEF Distinct
    <2>4. CASE ~(m < k) /\ ~(n < k)
      BY <2>4, <1>3 DEF Distinct
    <2> QED
      BY <2>1, <2>2, <2>3, <2>4
  <1> QED
    BY <1>2, <1>3, <1>4, <1>5

\* Appending an element that is not in the vector.
LEMMA PushedBack ==
  ASSUME NEW S, NEW seq \in Seq(S), Distinct(seq), NEW c \in S, c \notin Range(seq)
  PROVE  /\ Append(seq, c) \in Seq(S)
         /\ Len(Append(seq, c)) = Len(seq) + 1
         /\ Range(Append(seq, c)) = Range(seq) \cup {c}
         /\ Distinct(Append(seq, c))
  <1> DEFINE longer == Append(seq, c)
  <1>1. /\ Len(seq) \in Nat /\ DOMAIN seq = 1 .. Len(seq)
        /\ longer \in Seq(S) /\ Len(longer) = Len(seq) + 1
        /\ DOMAIN longer = 1 .. Len(seq) + 1
        /\ longer[Len(seq) + 1] = c
        /\ \A n \in 1 .. Len(seq) : longer[n] = seq[n]
    OBVIOUS
  <1> HIDE DEF longer
  <1>2. \A n \in 1 .. Len(seq) + 1 : n \in 1 .. Len(seq) \/ n = Len(seq) + 1
    BY <1>1
  <1>3. Range(longer) = Range(seq) \cup {c}
    BY <1>1, <1>2 DEF Range
  <1>4. Distinct(longer)
    BY <1>1, <1>2 DEF Distinct, Range
  <1> QED
    BY <1>1, <1>3, <1>4 DEF longer

-----------------------------------------------------------------------------
(* The inductive invariant.                                                *)

\* What the objects of clients online have, and what the others do not.
ObjectsInv ==
    \A c \in Clients :
        /\ c \in Online => client[c].sock \in Socks /\ peer[c] # "absent"
        /\ c \notin Online => client[c] = Freed /\ ~superseded[c] /\ silence[c] = 0
        /\ c \in backlog => c \notin Online /\ peer[c] # "absent"
        /\ superseded[c] => client[c].userid # NoUser

\* A login that is in the map although it was replaced is marked.
ReplacedInv ==
    \A u \in Users \ strayed : id_map_client[u] # NoClient /\ superseded[id_map_client[u]]
                                  => client[id_map_client[u]].dead

\* The maintenance leaves nobody behind who is marked.
MaintainedInv ==
    /\ pc = "maintain" => \A j \in 1 .. i - 1 : ~client[online_clients[j]].dead
    /\ pc \in {"select", "accept"} => \A c \in Online : ~client[c].dead

\* What the timer of a client lacks is what has passed since the last maintenance, or
\* what this one has still to charge.
TimersInv ==
    /\ pc = "maintain" =>
         /\ elapsed = 0
         /\ \A j \in 1 .. Len(online_clients) :
              LET c == online_clients[j]
              IN  Later(client[c].timer, IF j < i THEN 0 ELSE delta_time) >= silence[c]
    /\ TimerCoversSilence

IndInv == /\ TypeOK /\ ContainersAgree /\ ObjectsInv
          /\ ReplacedInv /\ MaintainedInv /\ TimersInv

\* What the types say, in the form the steps use it.
LEMMA Typed ==
  ASSUME TypeOK
  PROVE  /\ Len(online_clients) \in Nat
         /\ \A n \in 1 .. Len(online_clients) :
              online_clients[n] \in Clients /\ online_clients[n] \in Online
         /\ \A c \in Online : c \in Clients
         /\ \A c \in Online : \E n \in 1 .. Len(online_clients) : online_clients[n] = c
         /\ \A c \in Clients : client[c] \in OnlineClient
         /\ \A c \in Clients : /\ client[c].timer \in 0 .. TIMEOUT - 1
                               /\ client[c].userid \in Users \cup {NoUser}
                               /\ client[c].sock \in Socks \cup {0}
                               /\ silence[c] \in 0 .. TIMEOUT
         /\ \A u \in Users : id_map_client[u] \in Clients \cup {NoClient}
         /\ \A s \in Socks : sock_map_client[s] \in Clients \cup {NoClient}
         /\ elapsed \in 0 .. TIMEOUT /\ delta_time \in 0 .. TIMEOUT
         /\ i \in 1 .. Len(online_clients) + 1
  <1>1. client \in [Clients -> OnlineClient]
    BY DEF TypeOK
  <1>2. \A c \in Clients : client[c] \in OnlineClient
    BY <1>1
  <1>3. \A c \in Clients : /\ client[c].timer \in 0 .. TIMEOUT - 1
                           /\ client[c].userid \in Users \cup {NoUser}
                           /\ client[c].sock \in Socks \cup {0}
    BY <1>2 DEF OnlineClient
  <1>4. online_clients \in Seq(Clients)
    BY DEF TypeOK
  <1>5. /\ Len(online_clients) \in Nat
        /\ DOMAIN online_clients = 1 .. Len(online_clients)
        /\ \A n \in 1 .. Len(online_clients) : online_clients[n] \in Clients
    BY <1>4
  <1>6. /\ \A n \in 1 .. Len(online_clients) : online_clients[n] \in Online
        /\ \A c \in Online : \E n \in 1 .. Len(online_clients) : online_clients[n] = c
    BY <1>5 DEF Online, Range
  <1>7. \A c \in Online : c \in Clients
    BY <1>5, <1>6
  <1>8. /\ \A c \in Clients : silence[c] \in 0 .. TIMEOUT
        /\ \A u \in Users : id_map_client[u] \in Clients \cup {NoClient}
        /\ \A s \in Socks : sock_map_client[s] \in Clients \cup {NoClient}
        /\ elapsed \in 0 .. TIMEOUT /\ delta_time \in 0 .. TIMEOUT
        /\ i \in 1 .. Len(online_clients) + 1
    BY DEF TypeOK
  <1> QED
    BY <1>2, <1>3, <1>5, <1>6, <1>7, <1>8

LEMMA FreedType == Freed \in OnlineClient
  BY ImServerAssumption DEF Freed, OnlineClient

\* Setting one field of an object.
LEMMA FieldSet ==
  ASSUME NEW o \in OnlineClient, NEW t \in 0 .. TIMEOUT - 1
  PROVE  /\ [o EXCEPT !.timer = t] \in OnlineClient
         /\ [o EXCEPT !.timer = t].sock = o.sock
         /\ [o EXCEPT !.timer = t].userid = o.userid
         /\ [o EXCEPT !.timer = t].dead = o.dead
         /\ [o EXCEPT !.timer = t].timer = t
         /\ [o EXCEPT !.dead = TRUE] \in OnlineClient
         /\ [o EXCEPT !.dead = TRUE].sock = o.sock
         /\ [o EXCEPT !.dead = TRUE].userid = o.userid
         /\ [o EXCEPT !.dead = TRUE].dead
         /\ [o EXCEPT !.dead = TRUE].timer = o.timer
  BY DEF OnlineClient

LEMMA SockSet ==
  ASSUME NEW o \in OnlineClient, NEW s \in Socks
  PROVE  /\ [o EXCEPT !.sock = s] \in OnlineClient
         /\ [o EXCEPT !.sock = s].sock = s
         /\ [o EXCEPT !.sock = s].userid = o.userid
         /\ [o EXCEPT !.sock = s].dead = o.dead
         /\ [o EXCEPT !.sock = s].timer = o.timer
  BY DEF OnlineClient

LEMMA Refreshed ==
  ASSUME NEW o \in OnlineClient
  PROVE  /\ [o EXCEPT !.timer = 0] \in OnlineClient
         /\ [o EXCEPT !.timer = 0].sock = o.sock
         /\ [o EXCEPT !.timer = 0].userid = o.userid
         /\ [o EXCEPT !.timer = 0].dead = o.dead
  BY ImServerAssumption DEF OnlineClient

\* Time adds up, and what is charged in two parts is not less than the whole.
LEMMA LaterFacts ==
  ASSUME NEW t \in 0 .. TIMEOUT, NEW d \in 0 .. TIMEOUT
  PROVE  /\ Later(t, d) \in 0 .. TIMEOUT
         /\ Later(t, 0) = t
         /\ Later(t, d) >= t
         /\ Later(t, Later(d, 1)) = Later(Later(t, d), 1)
         /\ Later(d, 1) \in 0 .. TIMEOUT
  BY ImServerAssumption DEF Later

LEMMA InitInv == Init => IndInv
  <1> SUFFICES ASSUME Init PROVE IndInv
    OBVIOUS
  <1> USE ImServerAssumption DEF Init
  <1>1. Online = {} /\ Len(online_clients) = 0
    BY DEF Online, Range
  <1>2. TypeOK
    BY <1>1, FreedType DEF TypeOK
  <1>3. ContainersAgree
    BY <1>1 DEF ContainersAgree
  <1>4. ObjectsInv /\ ReplacedInv
    BY <1>1 DEF ObjectsInv, ReplacedInv
  <1>5. MaintainedInv /\ TimersInv
    BY <1>1 DEF MaintainedInv, TimersInv, TimerCoversSilence
  <1> QED
    BY <1>2, <1>3, <1>4, <1>5 DEF IndInv

-----------------------------------------------------------------------------
(* The maintenance.                                                        *)

\* quit_client leaves no trace of the client, and the rest as it was.
LEMMA Removal ==
  ASSUME IndInv, NEW c \in Clients, pc = "maintain", AtClient(c), QuitClient(c, i),
         UNCHANGED <<loopVars, elapsed, backlog>>
  PROVE  IndInv'
  <1> USE ImServerAssumption
  <1>1. TypeOK /\ ContainersAgree /\ ObjectsInv /\ ReplacedInv /\ MaintainedInv /\ TimersInv
    BY DEF IndInv
  <1>2. /\ i \in 1 .. Len(online_clients) /\ online_clients[i] = c
        /\ online_clients \in Seq(Clients) /\ Distinct(online_clients)
        /\ UNCHANGED <<pc, i, rfd, delta_time, elapsed, backlog>>
    BY <1>1 DEF AtClient, TypeOK, ContainersAgree, Distinct, loopVars
  <1>3. online_clients' = Without(online_clients, i)
    BY DEF QuitClient
  <1>4. /\ online_clients' \in Seq(Clients)
        /\ Len(online_clients') = Len(online_clients) - 1
        /\ \A n \in 1 .. Len(online_clients) - 1 :
             online_clients'[n] = IF n < i THEN online_clients[n] ELSE online_clients[n + 1]
        /\ Range(online_clients') = Range(online_clients) \ {c}
        /\ Distinct(online_clients')
    <2>1. /\ Without(online_clients, i) \in Seq(Clients)
          /\ Len(Without(online_clients, i)) = Len(online_clients) - 1
          /\ \A n \in 1 .. Len(online_clients) - 1 :
               Without(online_clients, i)[n] =
                 IF n < i THEN online_clients[n] ELSE online_clients[n + 1]
          /\ Range(Without(online_clients, i)) = Range(online_clients) \ {online_clients[i]}
          /\ Distinct(Without(online_clients, i))
      <3>1. /\ online_clients \in Seq(Clients) /\ Distinct(online_clients)
            /\ i \in 1 .. Len(online_clients)
        BY <1>2
      <3> QED
        BY ONLY <3>1, Erased
    <2>2. online_clients[i] = c
      BY <1>2
    <2> QED
      BY ONLY <1>3, <2>1, <2>2
  <1>5. Len(online_clients) \in Nat /\ c \in Online /\ Online' = Online \ {c}
    BY <1>1, <1>2, <1>4, Typed DEF Online
  <1>6. /\ client' = [client EXCEPT ![c] = Freed]
        /\ peer' = [peer EXCEPT ![c] = "absent"]
        /\ inbox' = [inbox EXCEPT ![c] = "empty"]
        /\ silence' = [silence EXCEPT ![c] = 0]
        /\ superseded' = [superseded EXCEPT ![c] = FALSE]
        /\ strayed' = strayed \ {client[c].userid} /\ strayed \subseteq Users
    BY <1>1 DEF QuitClient, TypeOK
  <1>7. /\ client \in [Clients -> OnlineClient]
        /\ peer \in [Clients -> {"absent", "open", "closed", "reset"}]
        /\ inbox \in [Clients -> {"empty", "packet", "stuck"}]
        /\ silence \in [Clients -> 0 .. TIMEOUT]
        /\ superseded \in [Clients -> BOOLEAN]
    BY <1>1 DEF TypeOK
  <1>8. /\ client'[c] = Freed /\ peer'[c] = "absent"
        /\ silence'[c] = 0 /\ superseded'[c] = FALSE
        /\ \A d \in Clients \ {c} :
             /\ client'[d] = client[d] /\ peer'[d] = peer[d]
             /\ silence'[d] = silence[d] /\ superseded'[d] = superseded[d]
    BY <1>6, <1>7
  <1>9. /\ sock_map_client' \in [Socks -> Clients \cup {NoClient}]
        /\ id_map_client' \in [Users -> Clients \cup {NoClient}]
        /\ \A s \in Socks : sock_map_client'[s] = IF s = client[c].sock THEN NoClient
                                                   ELSE sock_map_client[s]
        /\ \A u \in Users : id_map_client'[u] = IF u = client[c].userid THEN NoClient
                                                 ELSE id_map_client[u]
    BY <1>1 DEF QuitClient, Erase, TypeOK
  <1>10. TypeOK'
    <2>1. /\ client' \in [Clients -> OnlineClient]
          /\ peer' \in [Clients -> {"absent", "open", "closed", "reset"}]
          /\ inbox' \in [Clients -> {"empty", "packet", "stuck"}]
          /\ silence' \in [Clients -> 0 .. TIMEOUT]
          /\ superseded' \in [Clients -> BOOLEAN]
      BY <1>6, <1>7, FreedType
    <2>2. i \in 1 .. Len(online_clients') + 1
      BY <1>2, <1>4, <1>5
    <2> QED
      BY <1>1, <1>2, <1>4, <1>6, <1>9, <2>1, <2>2 DEF TypeOK
  <1>11. ContainersAgree'
    <2>1. \A s \in Socks, d \in Clients :
            sock_map_client'[s] = d <=> d \in Online' /\ client'[d].sock = s
      BY <1>1, <1>5, <1>8, <1>9 DEF ContainersAgree, ObjectsInv
    <2>2. ASSUME NEW u \in Users \ strayed', id_map_client'[u] # NoClient
          PROVE  id_map_client'[u] \in Online' /\ client'[id_map_client'[u]].userid = u
      <3>1. id_map_client'[u] = id_map_client[u] /\ u # client[c].userid
        BY <1>9, <2>2
      <3>2. u \in Users \ strayed /\ id_map_client[u] \in Clients
        BY <1>1, <1>6, <2>2, <3>1, Typed
      <3>3. id_map_client[u] \in Online /\ client[id_map_client[u]].userid = u
        BY <1>1, <2>2, <3>1, <3>2 DEF ContainersAgree
      <3>4. id_map_client[u] # c
        BY <3>1, <3>3
      <3> QED
        BY <1>5, <1>8, <3>1, <3>2, <3>3, <3>4
    <2> QED
      BY <1>4, <2>1, <2>2 DEF ContainersAgree, Distinct
  <1>12. ObjectsInv'
    <2>1. ASSUME NEW d \in Clients \ {c}
          PROVE  /\ d \in Online' => client'[d].sock \in Socks /\ peer'[d] # "absent"
                 /\ d \notin Online' => client'[d] = Freed /\ ~superseded'[d] /\ silence'[d] = 0
                 /\ d \in backlog' => d \notin Online' /\ peer'[d] # "absent"
                 /\ superseded'[d] => client'[d].userid # NoUser
      BY <1>1, <1>2, <1>5, <1>8 DEF ObjectsInv
    <2>2. c \notin backlog' /\ c \notin Online'
      BY <1>1, <1>2, <1>5 DEF ObjectsInv
    <2> QED
      BY <1>8, <2>1, <2>2 DEF ObjectsInv
  <1>13. ReplacedInv'
    <2> SUFFICES ASSUME NEW u \in Users \ strayed', id_map_client'[u] # NoClient,
                        superseded'[id_map_client'[u]]
                 PROVE  client'[id_map_client'[u]].dead
      BY DEF ReplacedInv
    <2>1. id_map_client'[u] = id_map_client[u] /\ u # client[c].userid
      BY <1>9
    <2>2. id_map_client[u] \in Clients /\ u \in Users \ strayed
      BY <1>1, <1>6, <2>1, Typed
    <2>3. client[id_map_client[u]].userid = u
      BY <1>1, <2>1, <2>2 DEF ContainersAgree
    <2>4. id_map_client[u] # c
      BY <2>1, <2>3
    <2> QED
      BY <1>1, <1>8, <2>1, <2>2, <2>4 DEF ReplacedInv
  <1>14. \A n \in 1 .. Len(online_clients') :
           /\ online_clients'[n] \in Clients
           /\ client'[online_clients'[n]] = client[online_clients'[n]]
           /\ silence'[online_clients'[n]] = silence[online_clients'[n]]
    <2> SUFFICES ASSUME NEW n \in 1 .. Len(online_clients')
                 PROVE  online_clients'[n] \in Clients \ {c}
      BY <1>8
    <2>1. DOMAIN online_clients' = 1 .. Len(online_clients')
      BY <1>4, LenProperties
    <2>2. online_clients'[n] \in Online'
      BY <2>1 DEF Online, Range
    <2> QED
      BY <1>1, <1>5, <2>2, Typed
  <1>15. MaintainedInv'
    BY <1>1, <1>2, <1>4, <1>5, <1>14 DEF MaintainedInv
  <1>16. TimersInv'
    <2>1. ASSUME NEW n \in 1 .. Len(online_clients')
          PROVE  Later(client'[online_clients'[n]].timer,
                       IF n < i' THEN 0 ELSE delta_time') >= silence'[online_clients'[n]]
      <3>1. CASE n < i
        BY <1>1, <1>2, <1>4, <1>5, <1>14, <3>1 DEF TimersInv
      <3>2. CASE ~(n < i)
        <4>1. n + 1 \in 1 .. Len(online_clients) /\ ~(n + 1 < i)
          BY <1>2, <1>4, <1>5, <3>2
        <4> QED
          BY <1>1, <1>2, <1>4, <1>5, <1>14, <3>2, <4>1 DEF TimersInv
      <3> QED
        BY <3>1, <3>2
    <2> QED
      BY <1>1, <1>2, <2>1 DEF TimersInv, TimerCoversSilence
  <1> QED
    BY <1>10, <1>11, <1>12, <1>13, <1>15, <1>16 DEF IndInv

\* A client that stays pays for the time of the round.
LEMMA Charged ==
  ASSUME IndInv, NEW c \in Clients, UpdateTimer(c)
  PROVE  IndInv'
  <1> USE ImServerAssumption
  <1>1. TypeOK /\ ContainersAgree /\ ObjectsInv /\ ReplacedInv /\ MaintainedInv /\ TimersInv
    BY DEF IndInv
  <1>2. /\ pc = "maintain" /\ i \in 1 .. Len(online_clients) /\ online_clients[i] = c
        /\ ~client[c].dead /\ ~(Later(client[c].timer, delta_time) >= TIMEOUT)
        /\ client' = [client EXCEPT ![c].timer = Later(@, delta_time)]
        /\ i' = i + 1
        /\ UNCHANGED <<pc, rfd, delta_time, elapsed, online_clients, sock_map_client,
                       id_map_client, backlog, peer, inbox, silence, superseded, strayed>>
        /\ Online' = Online
    BY DEF UpdateTimer, AtClient, TimedOut, mapVars, loginVars, netVars, Online
  <1>3. /\ Len(online_clients) \in Nat /\ c \in Online
        /\ client[c].timer \in 0 .. TIMEOUT /\ delta_time \in 0 .. TIMEOUT
        /\ Later(client[c].timer, delta_time) \in 0 .. TIMEOUT - 1
    <2>1. client[c].timer \in 0 .. TIMEOUT - 1 /\ delta_time \in 0 .. TIMEOUT
      BY <1>1, Typed
    <2>2. client[c].timer \in 0 .. TIMEOUT
      BY <2>1
    <2>3. Later(client[c].timer, delta_time) \in 0 .. TIMEOUT
      BY <2>1, <2>2, LaterFacts
    <2>4. Later(client[c].timer, delta_time) \in 0 .. TIMEOUT - 1
      BY <1>2, <2>3
    <2> QED
      BY <1>1, <1>2, <2>1, <2>2, <2>4, Typed
  <1>4. client \in [Clients -> OnlineClient]
    BY <1>1 DEF TypeOK
  <1>5. /\ client' \in [Clients -> OnlineClient]
        /\ \A d \in Clients : /\ client'[d].sock = client[d].sock
                              /\ client'[d].userid = client[d].userid
                              /\ client'[d].dead = client[d].dead
                              /\ d # c => client'[d] = client[d]
        /\ client'[c].timer = Later(client[c].timer, delta_time)
    <2> DEFINE t == Later(client[c].timer, delta_time)
    <2>1. client' = [client EXCEPT ![c] = [client[c] EXCEPT !.timer = t]]
      BY <1>2
    <2>2. client[c] \in OnlineClient /\ t \in 0 .. TIMEOUT - 1
      BY <1>3, <1>4
    <2> HIDE DEF t
    <2>3. client'[c] = [client[c] EXCEPT !.timer = t]
      BY <1>4, <2>1
    <2>4. \A d \in Clients : d # c => client'[d] = client[d]
      BY <1>4, <2>1
    <2>5. client' \in [Clients -> OnlineClient]
      BY <1>4, <2>1, <2>2, FieldSet
    <2>6. /\ client'[c].sock = client[c].sock /\ client'[c].userid = client[c].userid
          /\ client'[c].dead = client[c].dead /\ client'[c].timer = t
      BY <2>2, <2>3, FieldSet
    <2> QED
      BY <2>4, <2>5, <2>6 DEF t
  <1>6. TypeOK'
    <2>1. i' \in 1 .. Len(online_clients) + 1
      BY <1>2, <1>3
    <2> QED
      BY <1>1, <1>2, <1>5, <2>1 DEF TypeOK
  <1>7. ContainersAgree'
    BY <1>1, <1>2, <1>5, Typed DEF ContainersAgree
  <1>8. ObjectsInv'
    BY <1>1, <1>2, <1>3, <1>5 DEF ObjectsInv
  <1>9. ReplacedInv'
    BY <1>1, <1>2, <1>5, Typed DEF ReplacedInv
  <1>10. \A n \in 1 .. Len(online_clients) :
          online_clients[n] \in Clients /\ (n # i => online_clients[n] # c)
    BY <1>1, <1>2, Typed DEF ContainersAgree
  <1>11. MaintainedInv'
    BY <1>1, <1>2, <1>3, <1>5, <1>10 DEF MaintainedInv
  <1>12. TimersInv'
    <2>1. Later(client'[c].timer, 0) >= silence[c]
      <3>1. Later(client[c].timer, delta_time) >= silence[c]
        BY <1>1, <1>2 DEF TimersInv
      <3>2. Later(client'[c].timer, 0) = client'[c].timer
        BY <1>3, <1>5 DEF Later
      <3> QED
        BY <1>5, <3>1, <3>2
    <2>2. ASSUME NEW n \in 1 .. Len(online_clients), n # i
          PROVE  Later(client'[online_clients[n]].timer, IF n < i + 1 THEN 0 ELSE delta_time)
                   >= silence[online_clients[n]]
      <3>1. online_clients[n] \in Clients /\ online_clients[n] # c
        BY <1>10, <2>2
      <3>2. client'[online_clients[n]] = client[online_clients[n]]
        <4>1. \A d \in Clients : d # c => client'[d] = client[d]
          BY <1>5
        <4> QED
          BY <3>1, <4>1
      <3>3. n < i + 1 <=> n < i
        BY <1>2, <1>3, <2>2
      <3> QED
        BY <1>1, <1>2, <3>2, <3>3 DEF TimersInv
    <2>3. ASSUME NEW n \in 1 .. Len(online_clients)
          PROVE  Later(client'[online_clients[n]].timer, IF n < i + 1 THEN 0 ELSE delta_time)
                   >= silence[online_clients[n]]
      BY <1>2, <1>3, <2>1, <2>2
    <2> QED
      BY <1>1, <1>2, <2>3 DEF TimersInv, TimerCoversSilence
  <1> QED
    BY <1>6, <1>7, <1>8, <1>9, <1>11, <1>12 DEF IndInv

\* Everyone was looked at: nobody is marked, everyone has paid.
LEMMA Maintained ==
  ASSUME IndInv, EndMaintain
  PROVE  IndInv'
  <1> USE ImServerAssumption
  <1>1. TypeOK /\ ContainersAgree /\ ObjectsInv /\ ReplacedInv /\ MaintainedInv /\ TimersInv
    BY DEF IndInv
  <1>2. /\ pc = "maintain" /\ i > Len(online_clients)
        /\ pc' = "select" /\ i' = 1 /\ delta_time' = 0
        /\ UNCHANGED <<rfd, elapsed, online_clients, sock_map_client, id_map_client,
                       client, backlog, peer, inbox, silence, superseded, strayed>>
        /\ Online' = Online
    BY DEF EndMaintain, mapVars, loginVars, netVars, Online
  <1>3. Len(online_clients) \in Nat /\ i = Len(online_clients) + 1
    BY <1>1, <1>2, Typed
  <1>4. TypeOK'
    BY <1>1, <1>2, <1>3 DEF TypeOK
  <1>5. ContainersAgree' /\ ObjectsInv' /\ ReplacedInv'
    BY <1>1, <1>2 DEF ContainersAgree, ObjectsInv, ReplacedInv
  <1>6. ASSUME NEW c \in Online
        PROVE  ~client[c].dead /\ Later(client[c].timer, 0) >= silence[c]
    <2>1. PICK n \in 1 .. Len(online_clients) : online_clients[n] = c
      BY <1>1, Typed
    <2>2. n \in 1 .. i - 1 /\ n < i
      BY <1>3
    <2> QED
      BY <1>1, <1>2, <2>1, <2>2 DEF MaintainedInv, TimersInv
  <1>7. MaintainedInv' /\ TimersInv'
    BY <1>1, <1>2, <1>6 DEF MaintainedInv, TimersInv, TimerCoversSilence
  <1> QED
    BY <1>4, <1>5, <1>7 DEF IndInv

\* What has passed since the last round becomes what this one charges.
LEMMA Restarted ==
  ASSUME IndInv, NextRound
  PROVE  IndInv'
  <1> USE ImServerAssumption
  <1>1. TypeOK /\ ContainersAgree /\ ObjectsInv /\ ReplacedInv /\ MaintainedInv /\ TimersInv
    BY DEF IndInv
  <1>2. /\ pc = "serve" /\ pc' = "maintain" /\ i' = 1 /\ rfd' = {}
        /\ delta_time' = elapsed /\ elapsed' = 0
        /\ UNCHANGED <<online_clients, sock_map_client, id_map_client,
                       client, backlog, peer, inbox, silence, superseded, strayed>>
        /\ Online' = Online
    BY DEF NextRound, mapVars, loginVars, netVars, Online
  <1>3. Len(online_clients) \in Nat
    BY <1>1, Typed
  <1>4. TypeOK'
    BY <1>1, <1>2, <1>3 DEF TypeOK
  <1>5. ContainersAgree' /\ ObjectsInv' /\ ReplacedInv'
    BY <1>1, <1>2 DEF ContainersAgree, ObjectsInv, ReplacedInv
  <1>6. MaintainedInv'
    BY <1>2 DEF MaintainedInv
  <1>7. TimersInv'
    <2>1. \A n \in 1 .. Len(online_clients) : ~(n < 1) /\ online_clients[n] \in Online
      BY <1>1, <1>3, Typed
    <2> QED
      BY <1>1, <1>2, <2>1 DEF TimersInv, TimerCoversSilence
  <1> QED
    BY <1>4, <1>5, <1>6, <1>7 DEF IndInv

-----------------------------------------------------------------------------
(* select() and accept().                                                  *)

LEMMA Selected ==
  ASSUME IndInv, Select \/ SelectForWfd \/ SelectFails
  PROVE  IndInv'
  <1> USE ImServerAssumption
  <1>1. TypeOK /\ ContainersAgree /\ ObjectsInv /\ ReplacedInv /\ MaintainedInv /\ TimersInv
    BY DEF IndInv
  <1>2. /\ pc = "select" /\ pc' \in {"accept", "serve"}
        /\ rfd' \in {rfd, {client[c].sock : c \in {d \in Online : Readable(d)}}}
        /\ i' \in {i, Len(online_clients) + 1}
        /\ UNCHANGED <<delta_time, elapsed, online_clients, sock_map_client,
                       id_map_client, client, backlog, peer, inbox, silence, superseded,
                       strayed>>
        /\ Online' = Online
    BY DEF Select, SelectForWfd, SelectFails, mapVars, loginVars, netVars, Online
  <1>3. {client[c].sock : c \in {d \in Online : Readable(d)}} \subseteq Socks
    BY <1>1, Typed DEF ObjectsInv
  <1>4. TypeOK'
    <2>1. rfd' \subseteq Socks
      BY <1>1, <1>2, <1>3 DEF TypeOK
    <2>2. i' \in 1 .. Len(online_clients) + 1
      BY <1>1, <1>2, Typed
    <2> QED
      BY <1>1, <1>2, <2>1, <2>2 DEF TypeOK
  <1>5. ContainersAgree' /\ ObjectsInv' /\ ReplacedInv'
    BY <1>1, <1>2 DEF ContainersAgree, ObjectsInv, ReplacedInv
  <1>6. MaintainedInv' /\ TimersInv'
    BY <1>1, <1>2 DEF MaintainedInv, TimersInv, TimerCoversSilence
  <1> QED
    BY <1>4, <1>5, <1>6 DEF IndInv

\* A new client gets a socket that no container knows.
LEMMA Accepted ==
  ASSUME IndInv, NEW c \in Clients, AcceptNewClient(c)
  PROVE  IndInv'
  <1> USE ImServerAssumption
  <1>1. TypeOK /\ ContainersAgree /\ ObjectsInv /\ ReplacedInv /\ MaintainedInv /\ TimersInv
    BY DEF IndInv
  <1>2. PICK s \in Socks : /\ \A d \in Online : client[d].sock # s
                           /\ rfd' = rfd \cup {s}
                           /\ sock_map_client' = Insert(sock_map_client, s, c)
                           /\ client' = [client EXCEPT ![c] = [Freed EXCEPT !.sock = s]]
    BY DEF AcceptNewClient
  <1>3. /\ pc = "accept" /\ c \in backlog /\ pc' = "serve"
        /\ online_clients' = Append(online_clients, c)
        /\ backlog' = backlog \ {c}
        /\ UNCHANGED <<i, delta_time, elapsed, id_map_client, peer, inbox, silence,
                       superseded, strayed>>
    BY DEF AcceptNewClient, loginVars
  <1>4. c \notin Online /\ peer[c] # "absent" /\ silence[c] = 0 /\ ~superseded[c]
    BY <1>1, <1>3 DEF ObjectsInv
  <1>5. /\ online_clients' \in Seq(Clients)
        /\ Len(online_clients') = Len(online_clients) + 1
        /\ Online' = Online \cup {c}
        /\ Distinct(online_clients')
    BY <1>1, <1>3, <1>4, PushedBack DEF TypeOK, ContainersAgree, Distinct, Online
  <1>6. Len(online_clients) \in Nat /\ i \in 1 .. Len(online_clients) + 1
    BY <1>1, Typed
  <1>7. sock_map_client[s] = NoClient
    <2>1. sock_map_client[s] \in Clients \cup {NoClient}
      BY <1>1, Typed
    <2>2. sock_map_client[s] \notin Clients
      BY <1>1, <1>2 DEF ContainersAgree
    <2> QED
      BY <2>1, <2>2
  <1>8. /\ sock_map_client' \in [Socks -> Clients \cup {NoClient}]
        /\ sock_map_client'[s] = c
        /\ \A t \in Socks : t # s => sock_map_client'[t] = sock_map_client[t]
    BY <1>1, <1>2, <1>7 DEF Insert, TypeOK
  <1>9. [Freed EXCEPT !.sock = s] \in OnlineClient
    BY FreedType, SockSet
  <1>10. /\ client' \in [Clients -> OnlineClient]
         /\ client'[c].sock = s /\ client'[c].userid = NoUser
         /\ ~client'[c].dead /\ client'[c].timer = 0
         /\ \A d \in Clients : d # c => client'[d] = client[d]
    <2>1. client \in [Clients -> OnlineClient]
      BY <1>1 DEF TypeOK
    <2>2. client'[c] = [Freed EXCEPT !.sock = s]
      BY <1>2, <2>1
    <2> QED
      BY <1>2, <1>9, <2>1, <2>2 DEF Freed
  <1>11. TypeOK'
    <2>1. i \in 1 .. Len(online_clients') + 1
      BY <1>5, <1>6
    <2> QED
      BY <1>1, <1>2, <1>3, <1>5, <1>8, <1>10, <2>1 DEF TypeOK
  <1>12. ContainersAgree'
    <2>1. \A t \in Socks, d \in Clients :
            sock_map_client'[t] = d <=> d \in Online' /\ client'[d].sock = t
      BY <1>1, <1>2, <1>4, <1>5, <1>7, <1>8, <1>10 DEF ContainersAgree
    <2>2. \A u \in Users \ strayed' : id_map_client'[u] # NoClient =>
            id_map_client'[u] \in Online' /\ client'[id_map_client'[u]].userid = u
      <3>1. \A u \in Users \ strayed : id_map_client[u] # NoClient =>
              /\ id_map_client[u] \in Clients /\ id_map_client[u] # c
              /\ id_map_client[u] \in Online /\ client[id_map_client[u]].userid = u
        BY <1>1, <1>4, Typed DEF ContainersAgree
      <3> QED
        BY <1>3, <1>5, <1>10, <3>1
    <2> QED
      BY <1>5, <2>1, <2>2 DEF ContainersAgree, Distinct
  <1>13. ObjectsInv'
    <2>1. \A d \in Clients : d # c => (d \in Online' <=> d \in Online)
      BY <1>5
    <2> QED
      BY <1>1, <1>3, <1>4, <1>5, <1>10, <2>1 DEF ObjectsInv
  <1>14. ReplacedInv'
    BY <1>1, <1>3, <1>4, <1>10, Typed DEF ReplacedInv, ContainersAgree
  <1>15. MaintainedInv'
    BY <1>3 DEF MaintainedInv
  <1>16. TimersInv'
    <2>1. Later(0, elapsed) >= 0
      BY <1>1, Typed DEF Later
    <2> QED
      BY <1>1, <1>3, <1>4, <1>5, <1>10, <2>1, Typed DEF TimersInv, TimerCoversSilence
  <1> QED
    BY <1>11, <1>12, <1>13, <1>14, <1>15, <1>16 DEF IndInv

LEMMA NotAccepted ==
  ASSUME IndInv, NEW c \in Clients, AcceptFails(c)
  PROVE  IndInv'
  <1> USE ImServerAssumption
  <1>1. TypeOK /\ ContainersAgree /\ ObjectsInv /\ ReplacedInv /\ MaintainedInv /\ TimersInv
    BY DEF IndInv
  <1>2. /\ pc = "accept" /\ c \in backlog /\ pc' = "serve"
        /\ backlog' = backlog \ {c}
        /\ peer' = [peer EXCEPT ![c] = "absent"]
        /\ inbox' = [inbox EXCEPT ![c] = "empty"]
        /\ UNCHANGED <<i, rfd, delta_time, elapsed, online_clients, sock_map_client,
                       id_map_client, client, silence, superseded, strayed>>
        /\ Online' = Online
    BY DEF AcceptFails, mapVars, loginVars, Online
  <1>3. TypeOK'
    BY <1>1, <1>2 DEF TypeOK
  <1>4. ContainersAgree' /\ ReplacedInv'
    BY <1>1, <1>2 DEF ContainersAgree, ReplacedInv
  <1>5. ObjectsInv'
    <2>1. \A d \in Clients : d # c => peer'[d] = peer[d]
      BY <1>1, <1>2 DEF TypeOK
    <2> QED
      BY <1>1, <1>2, <2>1 DEF ObjectsInv
  <1>6. MaintainedInv' /\ TimersInv'
    BY <1>1, <1>2 DEF MaintainedInv, TimersInv, TimerCoversSilence
  <1> QED
    BY <1>3, <1>4, <1>5, <1>6 DEF IndInv

-----------------------------------------------------------------------------
(* The clients that are served.                                            *)

\* What every handler does to the loop and, by its sends, to the connections.
Handled ==
    /\ pc = "serve" /\ pc' \in {"serve", "ended"}
    /\ i' \in 1 .. Len(online_clients) + 1
    /\ UNCHANGED <<rfd, delta_time, elapsed, online_clients, sock_map_client, backlog>>
    /\ peer' \in [Clients -> {"absent", "open", "closed", "reset"}]
    /\ \A d \in Clients : peer[d] # "absent" => peer'[d] # "absent"
    /\ inbox' \in [Clients -> {"empty", "packet", "stuck"}]

LEMMA HandledBy ==
  ASSUME TypeOK, NEW c \in Clients, Serve(c)
  PROVE  Handled
  <1> USE DEF Handled, AtPacket, AtReadable, AtClient, Sends, SendsForEver, Advance, Take,
              mapVars, netVars
  <1>1. /\ peer \in [Clients -> {"absent", "open", "closed", "reset"}]
        /\ inbox \in [Clients -> {"empty", "packet", "stuck"}]
        /\ Len(online_clients) \in Nat
    BY Typed DEF TypeOK
  <1>2. CASE NotInRfd(c)
    BY <1>1, <1>2 DEF NotInRfd
  <1>3. CASE PeerGone(c)
    BY <1>1, <1>3 DEF PeerGone
  <1>4. CASE AliveConfirm(c)
    BY <1>1, <1>4 DEF AliveConfirm
  <1>5. CASE \E u \in Users : UserLogin(c, u)
    <2>1. PICK u \in Users : UserLogin(c, u)
      BY <1>5
    <2>2. PICK m : Sends(To(c, 1), m)
      BY <2>1 DEF UserLogin
    <2>3. /\ AtPacket(c) /\ Take(c)
          /\ UNCHANGED <<elapsed, online_clients, sock_map_client, backlog>>
      BY <2>1 DEF UserLogin
    <2> QED
      BY <1>1, <2>2, <2>3
  <1>6. CASE LoginFails(c)
    BY <1>1, <1>6 DEF LoginFails
  <1>7. CASE ChangePassword(c)
    BY <1>1, <1>7 DEF ChangePassword
  <1>8. CASE \E u \in Users : TransferTo(c, u)
    BY <1>1, <1>8 DEF TransferTo
  <1>9. CASE TransferToAll(c)
    <2>1. /\ AtPacket(c) /\ Take(c)
          /\ (\E copies : Sends(copies, Nothing)) \/ SendsForEver
          /\ UNCHANGED <<elapsed, mapVars, client, backlog, silence, loginVars>>
      BY <1>9, Zenon DEF TransferToAll
    <2> QED
      BY <1>1, <2>1
  <1>10. CASE HistoryReq(c)
    BY <1>1, <1>10 DEF HistoryReq
  <1>11. CASE NotReceived(c)
    BY <1>1, <1>11 DEF NotReceived
  <1>12. CASE QuitMessage(c)
    BY <1>1, <1>12 DEF QuitMessage
  <1> QED
    BY <1>2, <1>3, <1>4, <1>5, <1>6, <1>7, <1>8, <1>9, <1>10, <1>11, <1>12 DEF Serve

\* A client is at most marked dead, or its timer and its silence begin again.
Marked ==
    /\ client' \in [Clients -> OnlineClient]
    /\ silence' \in [Clients -> 0 .. TIMEOUT]
    /\ \A d \in Clients :
         /\ client'[d].sock = client[d].sock /\ client'[d].userid = client[d].userid
         /\ client[d].dead => client'[d].dead
         /\ d \notin Online => client'[d] = client[d] /\ silence'[d] = silence[d]
         /\ \/ client'[d].timer = client[d].timer /\ silence'[d] = silence[d]
            \/ silence'[d] = 0

LEMMA ServedKeeps ==
  ASSUME IndInv, Handled, Marked, UNCHANGED <<id_map_client, superseded, strayed>>
  PROVE  IndInv'
  <1> USE ImServerAssumption
  <1>1. TypeOK /\ ContainersAgree /\ ObjectsInv /\ ReplacedInv /\ MaintainedInv /\ TimersInv
    BY DEF IndInv
  <1>2. Online' = Online
    BY DEF Handled, Online
  <1>3. TypeOK'
    BY <1>1 DEF TypeOK, Handled, Marked
  <1>4. ContainersAgree'
    <2>1. \A s \in Socks, d \in Clients :
            sock_map_client'[s] = d <=> d \in Online' /\ client'[d].sock = s
      BY <1>1, <1>2 DEF ContainersAgree, Handled, Marked
    <2>2. \A u \in Users \ strayed' : id_map_client'[u] # NoClient =>
            id_map_client'[u] \in Online' /\ client'[id_map_client'[u]].userid = u
      BY <1>1, <1>2, Typed DEF ContainersAgree, Marked
    <2> QED
      BY <1>1, <2>1, <2>2 DEF ContainersAgree, Handled
  <1>5. ObjectsInv'
    BY <1>1, <1>2 DEF ObjectsInv, Handled, Marked
  <1>6. ReplacedInv'
    BY <1>1, Typed DEF ReplacedInv, Marked
  <1>7. MaintainedInv'
    BY DEF MaintainedInv, Handled
  <1>8. TimersInv'
    <2> SUFFICES ASSUME NEW c \in Online, pc' = "serve"
                 PROVE  Later(client'[c].timer, elapsed) >= silence'[c]
      BY <1>2 DEF TimersInv, TimerCoversSilence, Handled
    <2>1. c \in Clients
      BY <1>1, Typed
    <2>2. CASE client'[c].timer = client[c].timer /\ silence'[c] = silence[c]
      BY <1>1, <2>2 DEF TimersInv, TimerCoversSilence, Handled
    <2>3. CASE silence'[c] = 0
      <3>1. client'[c] \in OnlineClient /\ elapsed \in 0 .. TIMEOUT
        BY <1>1, <2>1, Typed DEF Marked
      <3>2. client'[c].timer \in 0 .. TIMEOUT - 1
        BY <3>1 DEF OnlineClient
      <3> QED
        BY <2>3, <3>1, <3>2 DEF Later
    <2> QED
      BY <2>1, <2>2, <2>3 DEF Marked
  <1> QED
    BY <1>3, <1>4, <1>5, <1>6, <1>7, <1>8 DEF IndInv

\* Marking the client that is served, which is online.
LEMMA MarksOne ==
  ASSUME IndInv, NEW c \in Clients, AtClient(c),
         client' = [client EXCEPT ![c].dead = TRUE], UNCHANGED silence
  PROVE  Marked
  <1> USE ImServerAssumption
  <1>1. /\ client \in [Clients -> OnlineClient] /\ silence \in [Clients -> 0 .. TIMEOUT]
        /\ client[c] \in OnlineClient /\ c \in Online
        /\ 0 \in 0 .. TIMEOUT - 1
    BY Typed DEF IndInv, TypeOK, AtClient
  <1>2. client'[c] = [client[c] EXCEPT !.dead = TRUE]
    BY <1>1
  <1>3. \A d \in Clients : d # c => client'[d] = client[d]
    BY <1>1
  <1>4. /\ client'[c] \in OnlineClient /\ client'[c].sock = client[c].sock
        /\ client'[c].userid = client[c].userid /\ client'[c].dead
        /\ client'[c].timer = client[c].timer
    BY <1>1, <1>2, FieldSet
  <1>5. client' \in [Clients -> OnlineClient]
    BY <1>1, <1>2, <1>4
  <1> QED
    BY <1>1, <1>3, <1>4, <1>5 DEF Marked

-----------------------------------------------------------------------------
(* The login, the other handlers, and the rest of the world.               *)

\* A login: an earlier one of the user is marked, the entry of the user that the client
\* was before is left behind.
LEMMA LoggedIn ==
  ASSUME IndInv, NEW c \in Clients, NEW u \in Users, UserLogin(c, u), Handled
  PROVE  IndInv'
  <1> USE ImServerAssumption
  <1>1. TypeOK /\ ContainersAgree /\ ObjectsInv /\ ReplacedInv /\ MaintainedInv /\ TimersInv
    BY DEF IndInv
  <1>2. PICK dead_client \in Reached(id_map_client[u]) :
          client' = [d \in Clients |-> [client[d] EXCEPT !.userid = IF d = c THEN u ELSE @,
                                                         !.dead = @ \/ d = dead_client]]
    BY DEF UserLogin
  <1>3. /\ AtClient(c)
        /\ id_map_client' = Insert(id_map_client, u, c)
        /\ superseded' = [d \in Clients |-> d # c /\ (superseded[d] \/ client[d].userid = u)]
        /\ strayed' = strayed \cup {v \in Users \ {u} : client[c].userid = v
                                                        /\ id_map_client[v] = c}
        /\ UNCHANGED silence
    BY DEF UserLogin, AtPacket, AtReadable
  <1>4. c \in Online /\ Online' = Online
    BY <1>1, <1>3, Typed DEF AtClient, Handled, Online
  <1>5. u # NoUser /\ NoUser \notin Users
    BY DEF NoUser
  <1>6. \A v \in Users \ strayed : id_map_client[v] # NoClient =>
          /\ id_map_client[v] \in Clients
          /\ id_map_client[v] \in Online /\ client[id_map_client[v]].userid = v
    BY <1>1, Typed DEF ContainersAgree
  <1>7. /\ dead_client \in Online \cup {NoClient}
        /\ u \notin strayed => dead_client = id_map_client[u]
    <2>1. dead_client \in Online \cup {NoClient}
      BY <1>2 DEF Reached, Gone
    <2>2. u \notin strayed => ~Gone(id_map_client[u])
      BY <1>6 DEF Gone
    <2> QED
      BY <1>2, <2>1, <2>2 DEF Reached
  <1>8. ASSUME NEW d \in Clients
        PROVE  /\ client'[d] \in OnlineClient
               /\ client'[d].sock = client[d].sock /\ client'[d].timer = client[d].timer
               /\ client'[d].userid = IF d = c THEN u ELSE client[d].userid
               /\ client'[d].dead <=> client[d].dead \/ d = dead_client
               /\ d # c /\ d # dead_client => client'[d] = client[d]
    <2>1. client[d] \in OnlineClient
      BY <1>1, Typed
    <2>2. client'[d] = [client[d] EXCEPT !.userid = IF d = c THEN u ELSE @,
                                         !.dead = @ \/ d = dead_client]
      BY <1>2
    <2>3. (IF d = c THEN u ELSE client[d].userid) \in Users \cup {NoUser}
      BY <2>1 DEF OnlineClient
    <2> DEFINE was  == client[d]
               id   == IF d = c THEN u ELSE was.userid
               gone == was.dead \/ d = dead_client
    <2>4. client'[d] = [was EXCEPT !.userid = id, !.dead = gone]
      BY <2>2
    <2>5. was \in OnlineClient /\ id \in Users \cup {NoUser} /\ gone \in BOOLEAN
      BY <2>1, <2>3 DEF OnlineClient
    <2>6. d # c => id = was.userid
      OBVIOUS
    <2>7. d # dead_client => gone = was.dead
      BY <2>1 DEF OnlineClient
    <2> HIDE DEF was, id, gone
    <2>8. /\ client'[d] \in OnlineClient
          /\ client'[d].sock = was.sock /\ client'[d].timer = was.timer
          /\ client'[d].userid = id /\ client'[d].dead = gone
      BY <2>4, <2>5 DEF OnlineClient
    <2>9. d # c /\ d # dead_client => client'[d] = was
      BY <2>4, <2>5, <2>6, <2>7 DEF OnlineClient
    <2> QED
      BY <2>8, <2>9 DEF was, id, gone
  <1>9. client' \in [Clients -> OnlineClient]
    BY <1>2, <1>8
  <1>10. /\ id_map_client' \in [Users -> Clients \cup {NoClient}]
         /\ id_map_client'[u] = IF id_map_client[u] = NoClient THEN c ELSE id_map_client[u]
         /\ \A v \in Users : v # u => id_map_client'[v] = id_map_client[v]
    BY <1>1, <1>3 DEF TypeOK, Insert
  <1>11. /\ superseded' \in [Clients -> BOOLEAN] /\ strayed' \subseteq Users
         /\ \A d \in Clients :
              superseded'[d] <=> d # c /\ (superseded[d] \/ client[d].userid = u)
    BY <1>1, <1>3 DEF TypeOK
  \* An entry of another user that is not left behind is not this client's.
  <1>12. \A v \in Users \ strayed' :
           /\ v \in Users \ strayed
           /\ v # u /\ id_map_client[v] # NoClient => id_map_client[v] # c
    BY <1>3, <1>6
  <1>13. TypeOK'
    BY <1>1, <1>3, <1>9, <1>10, <1>11 DEF TypeOK, Handled
  <1>14. ContainersAgree'
    <2>1. \A s \in Socks, d \in Clients :
            sock_map_client'[s] = d <=> d \in Online' /\ client'[d].sock = s
      BY <1>1, <1>4, <1>8 DEF ContainersAgree, Handled
    <2>2. ASSUME NEW v \in Users \ strayed', id_map_client'[v] # NoClient
          PROVE  id_map_client'[v] \in Online' /\ client'[id_map_client'[v]].userid = v
      <3>1. CASE v # u
        BY <1>4, <1>6, <1>8, <1>10, <1>12, <2>2, <3>1
      <3>2. CASE v = u /\ id_map_client[u] = NoClient
        BY <1>4, <1>8, <1>10, <3>2
      <3>3. CASE v = u /\ id_map_client[u] # NoClient
        BY <1>4, <1>6, <1>8, <1>10, <1>12, <3>3
      <3> QED
        BY <3>1, <3>2, <3>3
    <2> QED
      BY <1>1, <2>1, <2>2 DEF ContainersAgree, Handled
  <1>15. ObjectsInv'
    <2> SUFFICES ASSUME NEW d \in Clients
                 PROVE  /\ d \in Online => client'[d].sock \in Socks /\ peer'[d] # "absent"
                        /\ d \notin Online => client'[d] = Freed /\ ~superseded'[d] /\ silence[d] = 0
                        /\ d \in backlog => d \notin Online /\ peer'[d] # "absent"
                        /\ superseded'[d] => client'[d].userid # NoUser
      BY <1>3, <1>4 DEF ObjectsInv, Handled
    <2>1. d \notin Online => d # c /\ d # dead_client /\ (client[d] = Freed => client[d].userid = NoUser)
      BY <1>4, <1>7 DEF Freed
    <2>2. superseded'[d] => client'[d].userid # NoUser
      BY <1>1, <1>5, <1>8, <1>11 DEF ObjectsInv
    <2> QED
      BY <1>1, <1>5, <1>8, <1>11, <2>1, <2>2 DEF ObjectsInv, Handled
  <1>16. ReplacedInv'
    <2> SUFFICES ASSUME NEW v \in Users \ strayed', id_map_client'[v] # NoClient,
                        superseded'[id_map_client'[v]]
                 PROVE  client'[id_map_client'[v]].dead
      BY DEF ReplacedInv
    <2>1. CASE v # u
      <3>1. /\ id_map_client'[v] = id_map_client[v] /\ id_map_client[v] \in Clients
            /\ client[id_map_client[v]].userid = v
        BY <1>6, <1>10, <1>12, <2>1
      <3>2. superseded[id_map_client[v]]
        BY <1>11, <2>1, <3>1
      <3> QED
        BY <1>1, <1>8, <1>12, <3>1, <3>2 DEF ReplacedInv
    <2>2. CASE v = u /\ id_map_client[u] # NoClient
      BY <1>6, <1>7, <1>8, <1>10, <1>12, <2>2
    <2>3. CASE v = u /\ id_map_client[u] = NoClient
      BY <1>10, <1>11, <2>3
    <2> QED
      BY <2>1, <2>2, <2>3
  <1>17. MaintainedInv'
    BY DEF MaintainedInv, Handled
  <1>18. TimersInv'
    <2> SUFFICES ASSUME NEW d \in Online
                 PROVE  Later(client'[d].timer, elapsed) >= silence[d]
      BY <1>3, <1>4 DEF TimersInv, TimerCoversSilence, Handled
    <2>1. client'[d].timer = client[d].timer
      BY <1>1, <1>8, Typed
    <2> QED
      BY <1>1, <2>1 DEF TimersInv, TimerCoversSilence, Handled
  <1> QED
    BY <1>13, <1>14, <1>15, <1>16, <1>17, <1>18 DEF IndInv

\* Every packet, and everything else select() reports of a client.
LEMMA Served ==
  ASSUME IndInv, NEW c \in Clients, Serve(c)
  PROVE  IndInv'
  <1> USE ImServerAssumption
  <1>1. TypeOK
    BY DEF IndInv
  <1>2. Handled
    BY <1>1, HandledBy
  <1>3. /\ client \in [Clients -> OnlineClient] /\ silence \in [Clients -> 0 .. TIMEOUT]
    BY <1>1 DEF TypeOK
  <1>4. UNCHANGED <<client, silence>> => Marked
    BY <1>3 DEF Marked
  <1>5. UNCHANGED <<client, silence, id_map_client, superseded, strayed>> => IndInv'
    BY <1>2, <1>4, ServedKeeps
  <1>6. CASE NotInRfd(c)
    BY <1>5, <1>6 DEF NotInRfd, mapVars, loginVars
  <1>7. CASE PeerGone(c)
    BY <1>2, <1>7, MarksOne, ServedKeeps DEF PeerGone, AtReadable, mapVars, loginVars
  <1>8. CASE AliveConfirm(c)
    <2>1. /\ AtClient(c)
          /\ client' = [client EXCEPT ![sock_map_client[client[c].sock]].timer = 0]
          /\ silence' = [silence EXCEPT ![c] = 0]
          /\ UNCHANGED <<id_map_client, superseded, strayed>>
      BY <1>8 DEF AliveConfirm, AtPacket, AtReadable, mapVars, loginVars
    <2>2. c \in Online
      BY <1>1, <2>1, Typed DEF AtClient
    <2>3. sock_map_client[client[c].sock] = c
      BY <2>2 DEF IndInv, ContainersAgree, ObjectsInv
    <2>4. client' = [client EXCEPT ![c] = [client[c] EXCEPT !.timer = 0]]
      BY <2>1, <2>3
    <2>5. client[c] \in OnlineClient /\ 0 \in 0 .. TIMEOUT - 1
      BY <1>3
    <2>6. /\ client'[c] = [client[c] EXCEPT !.timer = 0]
          /\ \A d \in Clients : d # c => client'[d] = client[d]
      BY <1>3, <2>4
    <2>7. /\ client'[c] \in OnlineClient /\ client'[c].sock = client[c].sock
          /\ client'[c].userid = client[c].userid /\ client'[c].dead = client[c].dead
      BY <2>5, <2>6, Refreshed
    <2>8. /\ silence' \in [Clients -> 0 .. TIMEOUT] /\ silence'[c] = 0
          /\ \A d \in Clients : d # c => silence'[d] = silence[d]
      BY <1>3, <2>1
    <2>9. client' \in [Clients -> OnlineClient]
      BY <1>3, <2>4, <2>6, <2>7
    <2>10. Marked
      BY <2>2, <2>6, <2>7, <2>8, <2>9 DEF Marked
    <2> QED
      BY <1>2, <2>1, <2>10, ServedKeeps
  <1>9. CASE \E u \in Users : UserLogin(c, u)
    BY <1>2, <1>9, LoggedIn
  <1>10. CASE LoginFails(c)
    BY <1>5, <1>10 DEF LoginFails, mapVars, loginVars
  <1>11. CASE ChangePassword(c)
    BY <1>5, <1>11 DEF ChangePassword, mapVars, loginVars
  <1>12. CASE \E u \in Users : TransferTo(c, u)
    BY <1>5, <1>12 DEF TransferTo, mapVars, loginVars
  <1>13. CASE TransferToAll(c)
    BY <1>5, <1>13 DEF TransferToAll, mapVars, loginVars
  <1>14. CASE HistoryReq(c)
    BY <1>5, <1>14 DEF HistoryReq, mapVars, loginVars
  <1>15. CASE NotReceived(c)
    BY <1>5, <1>15 DEF NotReceived, mapVars, loginVars
  <1>16. CASE QuitMessage(c)
    BY <1>2, <1>16, MarksOne, ServedKeeps DEF QuitMessage, AtPacket, AtReadable, mapVars, loginVars
  <1> QED
    BY <1>6, <1>7, <1>8, <1>9, <1>10, <1>11, <1>12, <1>13, <1>14, <1>15, <1>16 DEF Serve

LEMMA Outside ==
  ASSUME IndInv, NEW c \in Clients, Connect(c) \/ Send(c) \/ Close(c)
  PROVE  IndInv'
  <1> USE ImServerAssumption
  <1>1. TypeOK /\ ContainersAgree /\ ObjectsInv /\ ReplacedInv /\ MaintainedInv /\ TimersInv
    BY DEF IndInv
  <1>2. /\ UNCHANGED <<pc, i, rfd, delta_time, elapsed, online_clients, sock_map_client,
                       id_map_client, client, silence, superseded, strayed>>
        /\ Online' = Online
    BY DEF Connect, Send, Close, envVars, loopVars, mapVars, loginVars, Online
  <1>3. /\ peer' \in [Clients -> {"absent", "open", "closed", "reset"}]
        /\ inbox' \in [Clients -> {"empty", "packet", "stuck"}]
        /\ backlog' \subseteq Clients
    BY <1>1 DEF TypeOK, Connect, Send, Close
  <1>4. TypeOK'
    BY <1>1, <1>2, <1>3 DEF TypeOK
  <1>5. ContainersAgree' /\ ReplacedInv'
    BY <1>1, <1>2 DEF ContainersAgree, ReplacedInv
  <1>6. ObjectsInv'
    <2>1. /\ \A d \in Clients : peer[d] # "absent" => peer'[d] # "absent"
          /\ \A d \in backlog' : d \notin Online /\ peer'[d] # "absent"
      <3> peer \in [Clients -> {"absent", "open", "closed", "reset"}]
        BY <1>1 DEF TypeOK
      <3>1. CASE Connect(c)
        BY <1>1, <3>1 DEF Connect, ObjectsInv, TypeOK
      <3>2. CASE Send(c)
        BY <1>1, <3>2 DEF Send, ObjectsInv, TypeOK
      <3>3. CASE Close(c)
        BY <1>1, <3>3 DEF Close, ObjectsInv, TypeOK
      <3> QED
        BY <3>1, <3>2, <3>3
    <2> QED
      BY <1>1, <1>2, <2>1 DEF ObjectsInv
  <1>7. MaintainedInv' /\ TimersInv'
    BY <1>1, <1>2 DEF MaintainedInv, TimersInv, TimerCoversSilence
  <1> QED
    BY <1>4, <1>5, <1>6, <1>7 DEF IndInv

LEMMA Ticked ==
  ASSUME IndInv, Tick
  PROVE  IndInv'
  <1> USE ImServerAssumption
  <1>1. TypeOK /\ ContainersAgree /\ ObjectsInv /\ ReplacedInv /\ MaintainedInv /\ TimersInv
    BY DEF IndInv
  <1>2. /\ UNCHANGED <<pc, i, rfd, delta_time, online_clients, sock_map_client,
                       id_map_client, client, backlog, peer, inbox, superseded, strayed>>
        /\ elapsed' = Later(elapsed, 1)
        /\ silence' = [c \in Clients |-> IF c \in Online THEN Later(silence[c], 1) ELSE 0]
        /\ pc \in {"select", "serve"}
        /\ Online' = Online
    BY DEF Tick, Attentive, envVars, netVars, loopVars, mapVars, loginVars, Online
  <1>3. /\ elapsed \in 0 .. TIMEOUT /\ elapsed' \in 0 .. TIMEOUT
        /\ \A c \in Clients : silence[c] \in 0 .. TIMEOUT /\ Later(silence[c], 1) \in 0 .. TIMEOUT
    BY <1>1, <1>2, Typed DEF Later
  <1>4. TypeOK'
    BY <1>1, <1>2, <1>3 DEF TypeOK
  <1>5. ContainersAgree' /\ ReplacedInv'
    BY <1>1, <1>2 DEF ContainersAgree, ReplacedInv
  <1>6. ObjectsInv'
    BY <1>1, <1>2 DEF ObjectsInv
  <1>7. MaintainedInv'
    BY <1>1, <1>2 DEF MaintainedInv
  <1>8. TimersInv'
    <2> SUFFICES ASSUME NEW c \in Online
                 PROVE  Later(client[c].timer, elapsed') >= silence'[c]
      BY <1>2 DEF TimersInv, TimerCoversSilence
    <2>1. /\ c \in Clients /\ client[c].timer \in 0 .. TIMEOUT - 1
          /\ silence'[c] = Later(silence[c], 1)
      BY <1>1, <1>2, Typed
    <2>2. Later(client[c].timer, elapsed) >= silence[c]
      BY <1>1, <1>2 DEF TimersInv, TimerCoversSilence
    <2> QED
      BY <1>2, <1>3, <2>1, <2>2 DEF Later
  <1> QED
    BY <1>4, <1>5, <1>6, <1>7, <1>8 DEF IndInv

-----------------------------------------------------------------------------
(* The theorems.                                                           *)

LEMMA StepInv == IndInv /\ [Next]_vars => IndInv'
  <1> SUFFICES ASSUME IndInv, [Next]_vars PROVE IndInv'
    OBVIOUS
  <1>1. CASE EndMaintain
    BY <1>1, Maintained
  <1>2. CASE Select \/ SelectForWfd \/ SelectFails
    BY <1>2, Selected
  <1>3. CASE NextRound
    BY <1>3, Restarted
  <1>4. ASSUME NEW c \in Clients, Maintain(c)
        PROVE  IndInv'
    <2>1. CASE RemoveDead(c)
      BY <2>1, Removal DEF RemoveDead
    <2>2. CASE RemoveTimedOut(c)
      BY <2>2, Removal DEF RemoveTimedOut
    <2>3. CASE UpdateTimer(c)
      BY <2>3, Charged
    <2> QED
      BY <1>4, <2>1, <2>2, <2>3 DEF Maintain
  <1>5. ASSUME NEW c \in Clients, Serve(c)
        PROVE  IndInv'
    BY <1>5, Served
  <1>6. ASSUME NEW c \in Clients, AcceptNewClient(c) \/ AcceptFails(c)
        PROVE  IndInv'
    BY <1>6, Accepted, NotAccepted
  <1>7. ASSUME NEW c \in Clients, Connect(c) \/ Send(c) \/ Close(c)
        PROVE  IndInv'
    BY <1>7, Outside
  <1>8. CASE Tick
    BY <1>8, Ticked
  <1>9. CASE UNCHANGED vars
    BY <1>9 DEF vars, loopVars, mapVars, loginVars, netVars, IndInv, TypeOK, ContainersAgree,
                ObjectsInv, ReplacedInv, MaintainedInv, TimersInv, TimerCoversSilence, Online
  <1> QED
    BY <1>1, <1>2, <1>3, <1>4, <1>5, <1>6, <1>7, <1>8, <1>9 DEF Next, Server

\* The inductive invariant holds, for any number of connections and users.
THEOREM Inductive == Spec => []IndInv
  <1> QED
    BY InitInv, StepInv, PTL DEF Spec

\* The variables keep their types; in particular no timer that was settled has reached
\* TIMEOUT.
THEOREM TypeCorrect == Spec => []TypeOK
  <1>1. IndInv => TypeOK
    BY DEF IndInv
  <1> QED
    BY <1>1, Inductive, PTL

\* online_clients, sock_map_client and id_map_client never disagree, and hold no client
\* that was freed.
THEOREM Agreement == Spec => []ContainersAgree
  <1>1. IndInv => ContainersAgree
    BY DEF IndInv
  <1> QED
    BY <1>1, Inductive, PTL

\* When the server waits, id_map_client has no login that another one replaced.
THEOREM LatestLogin == Spec => []EntryIsLatestLogin
  <1>1. IndInv => EntryIsLatestLogin
    <2> SUFFICES ASSUME IndInv, pc = "select", NEW u \in Users \ strayed,
                        id_map_client[u] # NoClient
                 PROVE  ~superseded[id_map_client[u]]
      BY DEF EntryIsLatestLogin
    <2>1. id_map_client[u] \in Online
      BY DEF IndInv, ContainersAgree
    <2> QED
      BY <2>1 DEF IndInv, ReplacedInv, MaintainedInv
  <1> QED
    BY <1>1, Inductive, PTL

\* The timer of a client is never behind its silence: whoever is silent for TIMEOUT
\* when a round begins is removed in it.
THEOREM NoSilentClients == Spec => []TimerCoversSilence
  <1>1. IndInv => TimerCoversSilence
    BY DEF IndInv, TimersInv
  <1> QED
    BY <1>1, Inductive, PTL
=============================================================================
