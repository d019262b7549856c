----------------------- MODULE DaemonLifecycleProofs -----------------------
(***************************************************************************)
(* Proofs about DaemonLifecycle for every number of daemons, clients,      *)
(* names, ports and attempts.                                              *)
(***************************************************************************)
EXTENDS DaemonLifecycle, TLAPS

-----------------------------------------------------------------------------
(* What makes the properties inductive *)

\* A client past its question has a name; one that waits for an answer has a
\* connection; one that was answered has a port.
LocalsSet(c) ==
    /\ client[c].pc # "idle" => client[c].name \in Names
    /\ client[c].pc \in {"info reply", "create reply"} => client[c].conn \in Daemons
    /\ client[c].pc \in {"setup", "create", "create reply"} => client[c].port \in Ports

TypeInv ==
    /\ TypeOK
    /\ \A d \in Running : daemon[d].port \in Ports
    /\ \A c \in Clients : LocalsSet(c)

\* Daemons are up within the time that clients give them: what giving up for
\* cause and serving rest on.
Timely == "slow" \notin Faults

\* The path of the socket is where the control task of the daemon has left it.
SocketOwned(d) ==
    /\ daemon[d].ctl \in {"check", "remove", "bind", "chmod", "accept"}
    /\ daemon[d].ctl = "remove" => sock # None
    /\ daemon[d].ctl = "bind" => sock = None
    /\ daemon[d].ctl \in {"chmod", "accept"} => sock = d

\* A daemon beside which no other ran is the only one, and has the socket.
LoneOwner ==
    \A d \in alone \cap Running : SocketOwned(d) /\ \A e \in Running : e = d

\* The daemon that gave its port still runs, with that port, and serves it by
\* the time the policy is sent.
AskedServes(c) ==
    client[c].asked # None =>
        /\ client[c].asked \in Running
        /\ daemon[client[c].asked].port = client[c].port
        /\ Timely /\ client[c].pc \in {"create", "create reply"} =>
            daemon[client[c].asked].dns = "serve"

\* The daemon that a client started ends, if no other ran beside it and nobody
\* killed it, only for want of its port, and the client talks to no other.
MineRuns(c) ==
    client[c].mine # None =>
        /\ client[c].mine \in Running => daemon[client[c].mine].port = DefaultPort
        /\ client[c].mine \in alone /\ DefaultPort \notin foreign => client[c].mine \in Running
        /\ client[c].pc = "info reply" /\ client[c].mine \in alone \cap Running =>
            client[c].conn = client[c].mine /\ client[c].mine \in Listening

ClientInv(c) == AskedServes(c) /\ MineRuns(c)

\* Policies are dropped from the history with the daemon that has them.
PromisesRun == \A n \in Names : prepared[n] # None => prepared[n].daemon \in Running

IInv ==
    /\ TypeInv
    /\ LoneOwner
    /\ \A c \in Clients : ClientInv(c)
    /\ PromisesRun
    /\ Timely => PolicyServed
-----------------------------------------------------------------------------
(* The operators *)

\* A process that is started was none of those anybody refers to.
LEMMA NewIsFresh == Fresh # {} => new \in Fresh
  BY DEF new

\* The local variables a client starts with and goes on with.
LEMMA LocalsBuilt ==
    /\ Idle \in Locals /\ Idle.pc = "idle" /\ Idle.asked = None /\ Idle.mine = None
    /\ \A n \in Names :
        LET l == [Idle EXCEPT !.pc = "info", !.name = n]
        IN  /\ l \in Locals /\ l.pc = "info" /\ l.name = n
            /\ l.asked = None /\ l.mine = None
    /\ \A k \in Locals : k.polls \in 1 .. MaxPolls - 1 =>
        LET l == [k EXCEPT !.pc = "info", !.conn = None, !.polls = @ + 1]
        IN  /\ l \in Locals /\ l.pc = "info" /\ l.name = k.name /\ l.port = k.port
            /\ l.asked = k.asked /\ l.mine = k.mine
<1> USE DaemonAssumption DEF Locals
<1>1. 0 \in 0 .. MaxPolls
  OBVIOUS
<1>2. \A i \in 1 .. MaxPolls - 1 : i + 1 \in 0 .. MaxPolls
  OBVIOUS
<1>3. Idle \in Locals /\ Idle.pc = "idle" /\ Idle.asked = None /\ Idle.mine = None
  BY <1>1 DEF Idle
<1>4. ASSUME NEW n \in Names
      PROVE  LET l == [Idle EXCEPT !.pc = "info", !.name = n]
             IN  /\ l \in Locals /\ l.pc = "info" /\ l.name = n
                 /\ l.asked = None /\ l.mine = None
  BY <1>1 DEF Idle
<1>5. ASSUME NEW k \in Locals, k.polls \in 1 .. MaxPolls - 1
      PROVE  LET l == [k EXCEPT !.pc = "info", !.conn = None, !.polls = @ + 1]
             IN  /\ l \in Locals /\ l.pc = "info" /\ l.name = k.name /\ l.port = k.port
                 /\ l.asked = k.asked /\ l.mine = k.mine
  BY <1>2, <1>5
<1> QED BY <1>3, <1>4, <1>5

\* A client forgets a daemon that ended, and nothing else.
LEMMA Forgets ==
    ASSUME NEW k \in Locals, NEW d \in Daemons,
           NEW l \in {WithoutAsked(k, d), WithoutMine(WithoutAsked(k, d), d)}
    PROVE  /\ l \in Locals
           /\ l.pc = k.pc /\ l.name = k.name /\ l.conn = k.conn /\ l.port = k.port
           /\ l.asked = IF k.asked = d THEN None ELSE k.asked
           /\ l.mine = k.mine \/ l.mine = None
           /\ l = WithoutAsked(k, d) => l.mine = k.mine
           /\ l = WithoutMine(WithoutAsked(k, d), d) => l.mine # d
<1> USE DaemonAssumption DEF Locals
<1> DEFINE a == WithoutAsked(k, d)
<1>1. /\ a \in Locals
      /\ a.pc = k.pc /\ a.name = k.name /\ a.conn = k.conn /\ a.port = k.port /\ a.mine = k.mine
      /\ a.asked = IF k.asked = d THEN None ELSE k.asked
  BY DEF WithoutAsked
<1> HIDE DEF a
<1>2. LET b == WithoutMine(a, d)
      IN  /\ b \in Locals
          /\ b.pc = a.pc /\ b.name = a.name /\ b.conn = a.conn /\ b.port = a.port
          /\ b.asked = a.asked /\ b.mine = IF a.mine = d THEN None ELSE a.mine
  <2>1. WithoutMine(a, d) = [a EXCEPT !.mine = IF a.mine = d THEN None ELSE a.mine]
    BY <1>1 DEF WithoutMine
  <2>2. (IF a.mine = d THEN None ELSE a.mine) \in Daemons \cup {None}
    BY <1>1
  <2> QED BY <1>1, <2>1, <2>2
<1>3. None # d
  OBVIOUS
<1>4. l = a \/ l = WithoutMine(a, d)
  BY DEF a
<1>5. WithoutMine(a, d).mine # d
  BY <1>2, <1>3
<1> HIDE DEF Locals
<1> QED BY <1>1, <1>2, <1>4, <1>5 DEF a

\* The three outcomes of an attempt that failed.
LEMMA InfoFailedCases ==
    ASSUME NEW c \in Clients, TypeOK, info_failed(c)
    PROVE  \/ /\ client[c].polls \in 1 .. MaxPolls - 1
              /\ goto(c, [client[c] EXCEPT !.pc = "info", !.conn = None, !.polls = @ + 1])
           \/ /\ client[c].polls = 0 /\ RuntimeOf[c] = "podman"
              /\ goto(c, [client[c] EXCEPT !.pc = "spawn", !.conn = None])
           \/ /\ client[c].polls = MaxPolls \/ RuntimeOf[c] # "podman"
              /\ goto(c, Idle)
<1>0. client[c].polls \in 0 .. MaxPolls /\ MaxPolls \in Nat \ {0}
  BY DaemonAssumption DEF TypeOK, Locals
<1>1. CASE client[c].polls \in 1 .. MaxPolls - 1
  BY <1>1, <1>0 DEF info_failed
<1>2. CASE client[c].polls = 0 /\ RuntimeOf[c] = "podman"
  BY <1>2, <1>0 DEF info_failed
<1>3. CASE /\ ~(client[c].polls \in 1 .. MaxPolls - 1)
           /\ ~(client[c].polls = 0 /\ RuntimeOf[c] = "podman")
  <2>1. client[c].polls = MaxPolls \/ RuntimeOf[c] # "podman"
    BY <1>0, <1>3
  <2> QED BY <1>3, <2>1 DEF info_failed, fails
<1> QED BY <1>1, <1>2, <1>3

\* Running daemons are those that are not Off, and a listening one runs.
LEMMA RunningDaemons ==
    ASSUME TypeOK
    PROVE  /\ \A d \in Daemons : d \in Running <=> daemon[d] # Off
           /\ \A d \in Daemons : daemon[d].ctl # "off" => d \in Running
           /\ Listening \subseteq Running
  BY DEF TypeOK, Running, Listening, Off

-----------------------------------------------------------------------------
(* Types *)

\* Initially no process runs.
LEMMA InitType == Init => TypeInv
<1> SUFFICES ASSUME Init PROVE TypeInv
  OBVIOUS
<1> USE DaemonAssumption DEF Init
<1>1. Off \in Process /\ Off.dns = "off"
  BY DEF Off, Process
<1>2. Idle \in Locals /\ Idle.pc = "idle"
  BY LocalsBuilt
<1>3. TypeOK
  BY <1>1, <1>2 DEF TypeOK
<1> QED BY <1>1, <1>2, <1>3 DEF TypeInv, Running, LocalsSet

\* What a client may put in its local variables.
LEMMA GotoType ==
    ASSUME TypeInv, NEW c \in Clients, NEW local \in Locals, goto(c, local),
           local.pc # "idle" => local.name \in Names,
           local.pc \in {"info reply", "create reply"} => local.conn \in Daemons,
           local.pc \in {"setup", "create", "create reply"} => local.port \in Ports
    PROVE  client' \in [Clients -> Locals] /\ \A e \in Clients : LocalsSet(e)'
<1>1. client' = [client EXCEPT ![c] = local] /\ client \in [Clients -> Locals]
  BY DEF goto, TypeInv, TypeOK
<1>2. client'[c] = local /\ \A e \in Clients \ {c} : client'[e] = client[e]
  BY <1>1
<1>3. client' \in [Clients -> Locals]
  BY <1>1
<1>4. LocalsSet(c)'
  BY <1>2 DEF LocalsSet
<1>5. \A e \in Clients \ {c} : LocalsSet(e)'
  BY <1>2 DEF LocalsSet, TypeInv
<1> QED BY <1>3, <1>4, <1>5

\* The steps of a daemon.
LEMMA DaemonStepType ==
    ASSUME TypeInv, NEW d \in Daemons, run_control_server(d) \/ run_dns_proxy(d) \/ killed(d)
    PROVE  TypeInv'
<1> USE DaemonAssumption DEF TypeInv
<1>1. CASE run_control_server(d)
  <2>1. PICK ctl \in {"remove", "bind", "chmod", "accept", "lost"} :
            daemon' = [daemon EXCEPT ![d].ctl = ctl]
    BY <1>1 DEF run_control_server, socket_exists, control
  <2>2. daemon[d].ctl # "off" /\ sock' \in Daemons \cup {None}
        /\ UNCHANGED <<client, foreign, prepared, alone, started, byhand>>
    BY <1>1 DEF run_control_server, TypeOK
  <2>3. daemon'[d] = [daemon[d] EXCEPT !.ctl = ctl] /\ daemon[d].dns # "off" /\ daemon'[d] # Off
        /\ \A e \in Daemons \ {d} : daemon'[e] = daemon[e]
    BY <2>1, <2>2 DEF TypeOK, Process, Off
  <2>4. daemon' \in [Daemons -> Process]
    BY <2>1 DEF TypeOK, Process
  <2>5. \A e \in Daemons : daemon'[e].dns = daemon[e].dns /\ daemon'[e].port = daemon[e].port
    BY <2>3 DEF TypeOK, Process
  <2>6. \A e \in Daemons : daemon'[e].dns = "off" <=> daemon'[e] = Off
    BY <2>3, <2>5 DEF TypeOK, Off
  <2>7. \A e \in Running' : daemon'[e].port \in Ports
    BY <2>5 DEF Running
  <2> QED BY <2>2, <2>4, <2>6, <2>7 DEF TypeOK, LocalsSet
<1>2. ASSUME NEW p \in Process, p.dns = "off" <=> p = Off, p.dns # "off" => p.port \in Ports,
             daemon' = [daemon EXCEPT ![d] = p],
             UNCHANGED <<sock, foreign, alone, started, byhand>>,
             prepared' \in [Names -> Promise \cup {None}],
             client' \in [Clients -> Locals], \A c \in Clients : LocalsSet(c)'
      PROVE  TypeInv'
  BY <1>2 DEF TypeOK, Running
<1>3. Off \in Process /\ Off.dns = "off"
  BY DEF Off, Process
<1>4. ASSUME ended(d) PROVE prepared' \in [Names -> Promise \cup {None}]
  BY <1>4 DEF ended, TypeOK
<1>5. ASSUME \/ client' = [c \in Clients |-> WithoutAsked(client[c], d)]
             \/ client' = [c \in Clients |-> WithoutMine(WithoutAsked(client[c], d), d)]
      PROVE  client' \in [Clients -> Locals] /\ \A c \in Clients : LocalsSet(c)'
  <2>1. ASSUME NEW c \in Clients
        PROVE  /\ client'[c] \in Locals
               /\ client'[c].pc = client[c].pc /\ client'[c].name = client[c].name
               /\ client'[c].conn = client[c].conn /\ client'[c].port = client[c].port
    <3>1. client[c] \in Locals
      BY DEF TypeOK
    <3>2. client'[c] \in {WithoutAsked(client[c], d), WithoutMine(WithoutAsked(client[c], d), d)}
      BY <1>5
    <3> QED BY <3>1, <3>2, Forgets
  <2>2. client' \in [Clients -> Locals]
    BY <1>5, <2>1
  <2>3. \A c \in Clients : LocalsSet(c)'
    BY <2>1 DEF LocalsSet
  <2> QED BY <2>2, <2>3
<1>6. CASE run_dns_proxy(d)
  <2>1. CASE owned(daemon[d].port)
    BY <1>2, <1>3, <1>4, <1>5, <1>6, <2>1 DEF run_dns_proxy, after_bind_failure
  <2>2. CASE ~owned(daemon[d].port)
    <3> DEFINE p == [daemon[d] EXCEPT !.dns = "serve"]
    <3>1. daemon' = [daemon EXCEPT ![d] = p] /\ daemon[d].dns = "bind"
          /\ UNCHANGED <<sock, client, foreign, prepared, alone, started, byhand>>
      BY <1>6, <2>2 DEF run_dns_proxy, TypeOK
    <3>2. p \in Process /\ p.dns = "serve" /\ p # Off /\ p.port \in Ports
      BY <3>1 DEF TypeOK, Process, Off, Running
    <3> HIDE DEF p
    <3>3. client' \in [Clients -> Locals] /\ \A c \in Clients : LocalsSet(c)'
      BY <3>1 DEF TypeOK, LocalsSet
    <3>4. prepared' \in [Names -> Promise \cup {None}]
      BY <3>1 DEF TypeOK
    <3> QED BY <1>2, <3>1, <3>2, <3>3, <3>4
  <2> QED BY <2>1, <2>2
<1>7. CASE killed(d)
  BY <1>2, <1>3, <1>4, <1>5, <1>7 DEF killed
<1> QED BY <1>1, <1>6, <1>7

\* The process that is started has a port.
LEMMA StartType ==
    ASSUME TypeInv, NEW port \in Ports, starts(port)
    PROVE  /\ daemon' \in [Daemons -> Process]
           /\ \A d \in Daemons : daemon'[d].dns = "off" <=> daemon'[d] = Off
           /\ \A d \in Running' : daemon'[d].port \in Ports
           /\ alone' \subseteq Daemons /\ new \in Daemons
<1>0. Fresh # {} /\ daemon' = [daemon EXCEPT ![new] = run_daemon(port)]
  BY DEF starts
<1>1. new \in Daemons
  BY <1>0, NewIsFresh DEF Fresh
<1>2. run_daemon(port) \in Process /\ run_daemon(port).dns # "off" /\ run_daemon(port).port = port
      /\ run_daemon(port) # Off
  BY DEF run_daemon, Process, Off
<1>3. daemon'[new] = run_daemon(port) /\ \A d \in Daemons \ {new} : daemon'[d] = daemon[d]
  BY <1>0, <1>1 DEF TypeInv, TypeOK
<1>4. daemon' \in [Daemons -> Process]
  BY <1>0, <1>2 DEF TypeInv, TypeOK
<1>5. alone' \subseteq Daemons
  BY <1>1 DEF starts, TypeInv, TypeOK
<1> QED BY <1>1, <1>2, <1>3, <1>4, <1>5 DEF TypeInv, TypeOK, Running

\* A command changes the table of a daemon that answers.
LEMMA CommandType ==
    ASSUME TypeInv, NEW d \in Daemons, daemon[d].ctl = "accept",
           NEW command \in {"CREATE", "REMOVE"}, NEW n \in Names,
           daemon' = [daemon EXCEPT ![d].table = handle_control_connection(command, n, @)]
    PROVE  /\ daemon' \in [Daemons -> Process]
           /\ \A e \in Daemons : daemon'[e].dns = "off" <=> daemon'[e] = Off
           /\ \A e \in Running' : daemon'[e].port \in Ports
           /\ \A e \in Daemons : /\ daemon'[e].ctl = daemon[e].ctl
                                 /\ daemon'[e].dns = daemon[e].dns
                                 /\ daemon'[e].port = daemon[e].port
                                 /\ daemon[e].table \ {n} \subseteq daemon'[e].table
           /\ command = "CREATE" => \A e \in Daemons : daemon[e].table \subseteq daemon'[e].table
           /\ command = "CREATE" => n \in daemon'[d].table
<1>1. daemon[d] \in Process /\ daemon[d].dns # "off"
  BY DEF TypeInv, TypeOK, Off
<1>2. PICK T \in SUBSET Names : /\ daemon' = [daemon EXCEPT ![d].table = T]
                                /\ daemon[d].table \ {n} \subseteq T
                                /\ command = "CREATE" => n \in T /\ daemon[d].table \subseteq T
  <2> daemon[d].table \in SUBSET Names
    BY <1>1 DEF Process
  <2>1. CASE command = "CREATE"
    <3>1. daemon' = [daemon EXCEPT ![d].table = daemon[d].table \cup {n}]
      BY <2>1 DEF handle_control_connection
    <3> WITNESS daemon[d].table \cup {n} \in SUBSET Names
    <3> QED BY <3>1
  <2>2. CASE command = "REMOVE"
    <3>1. daemon' = [daemon EXCEPT ![d].table = daemon[d].table \ {n}]
      BY <2>2 DEF handle_control_connection
    <3> WITNESS daemon[d].table \ {n} \in SUBSET Names
    <3> QED BY <2>2, <3>1
  <2> QED BY <2>1, <2>2
<1>3. /\ daemon'[d] \in Process /\ daemon'[d].dns = daemon[d].dns /\ daemon'[d].ctl = "accept"
      /\ daemon'[d].port = daemon[d].port /\ daemon'[d].table = T
      /\ \A e \in Daemons \ {d} : daemon'[e] = daemon[e]
  BY <1>1, <1>2 DEF Process, TypeInv, TypeOK
<1>4. daemon' \in [Daemons -> Process]
  BY <1>2, <1>3 DEF TypeInv, TypeOK
<1>5. \A e \in Daemons : daemon'[e].dns = "off" <=> daemon'[e] = Off
  <2>1. daemon'[d].dns # "off" /\ daemon'[d] # Off
    BY <1>1, <1>3 DEF Off
  <2> QED BY <1>3, <2>1 DEF TypeInv, TypeOK
<1>6. \A e \in Running' : daemon'[e].port \in Ports
  BY <1>1, <1>3 DEF TypeInv, Running
<1>7. \A e \in Daemons : /\ daemon'[e].ctl = daemon[e].ctl
                         /\ daemon'[e].dns = daemon[e].dns
                         /\ daemon'[e].port = daemon[e].port
                         /\ daemon[e].table \ {n} \subseteq daemon'[e].table
                         /\ command = "CREATE" => daemon[e].table \subseteq daemon'[e].table
  BY <1>2, <1>3
<1> QED BY <1>2, <1>3, <1>4, <1>5, <1>6, <1>7

\* What a user does: a daemon by hand, a command, a preparation.
LEMMA UserStepType ==
    ASSUME TypeInv,
           \/ \E port \in Ports : start_by_hand(port)
           \/ \E n \in Names : \/ ipset("CREATE", n) \/ ipset("REMOVE", n)
                               \/ \E c \in Clients : prepare_network(c, n)
    PROVE  TypeInv'
<1> USE DaemonAssumption
<1>1. ASSUME NEW port \in Ports, start_by_hand(port)
      PROVE  TypeInv'
  <2>1. starts(port) /\ UNCHANGED <<sock, client, foreign, prepared, started>>
    BY <1>1 DEF start_by_hand
  <2>2. byhand' \in 0 .. MaxByHand
    <3>1. byhand \in 0 .. MaxByHand /\ byhand < MaxByHand /\ byhand' = byhand + 1
      BY <1>1 DEF start_by_hand, TypeInv, TypeOK
    <3> QED BY <3>1
  <2>3. /\ daemon' \in [Daemons -> Process]
        /\ \A d \in Daemons : daemon'[d].dns = "off" <=> daemon'[d] = Off
        /\ \A d \in Running' : daemon'[d].port \in Ports
        /\ alone' \subseteq Daemons
    BY <2>1, StartType
  <2> QED BY <2>1, <2>2, <2>3 DEF TypeInv, TypeOK, LocalsSet
<1>2. ASSUME NEW n \in Names, NEW command \in {"CREATE", "REMOVE"}, ipset(command, n)
      PROVE  TypeInv'
  <2>1. sock \in Daemons /\ daemon[sock].ctl = "accept"
    BY <1>2 DEF ipset, Listening
  <2>2. prepared' \in [Names -> Promise \cup {None}]
    BY <1>2 DEF ipset, TypeInv, TypeOK
  <2>3. UNCHANGED <<sock, client, foreign, alone, started, byhand>>
        /\ daemon' = [daemon EXCEPT ![sock].table = handle_control_connection(command, n, @)]
    BY <1>2 DEF ipset
  <2>4. /\ daemon' \in [Daemons -> Process]
        /\ \A e \in Daemons : daemon'[e].dns = "off" <=> daemon'[e] = Off
        /\ \A e \in Running' : daemon'[e].port \in Ports
    BY <2>1, <2>3, CommandType
  <2> QED BY <2>2, <2>3, <2>4 DEF TypeInv, TypeOK, LocalsSet
<1>3. ASSUME NEW n \in Names, NEW c \in Clients, prepare_network(c, n)
      PROVE  TypeInv'
  <2> DEFINE local == [Idle EXCEPT !.pc = "info", !.name = n]
  <2>1. local \in Locals /\ local.pc = "info" /\ local.name = n
    BY LocalsBuilt
  <2>2. goto(c, local) /\ UNCHANGED <<daemon, sock, foreign, prepared, alone, byhand>>
    BY <1>3 DEF prepare_network
  <2>3. started' \in 0 .. MaxPreparations
    <3>1. started \in 0 .. MaxPreparations /\ started < MaxPreparations /\ started' = started + 1
      BY <1>3 DEF prepare_network, TypeInv, TypeOK
    <3> QED BY <3>1
  <2> HIDE DEF local
  <2>4. client' \in [Clients -> Locals] /\ \A e \in Clients : LocalsSet(e)'
    BY <2>1, <2>2, GotoType
  <2> QED BY <2>2, <2>3, <2>4 DEF TypeInv, TypeOK, Running
<1> QED BY <1>1, <1>2, <1>3

\* A failed attempt leaves a client that asks again, starts a daemon or ends.
LEMMA InfoFailedType ==
    ASSUME TypeInv, NEW c \in Clients, client[c].pc \in {"info", "info reply"}, info_failed(c)
    PROVE  client' \in [Clients -> Locals] /\ \A e \in Clients : LocalsSet(e)'
<1>0. TypeOK /\ client[c] \in Locals /\ client[c].name \in Names
  BY DEF TypeInv, TypeOK, LocalsSet
<1> USE DaemonAssumption
<1>1. ASSUME client[c].polls \in 1 .. MaxPolls - 1,
             goto(c, [client[c] EXCEPT !.pc = "info", !.conn = None, !.polls = @ + 1])
      PROVE  client' \in [Clients -> Locals] /\ \A e \in Clients : LocalsSet(e)'
  <2> DEFINE local == [client[c] EXCEPT !.pc = "info", !.conn = None, !.polls = @ + 1]
  <2>1. local \in Locals /\ local.pc = "info" /\ local.name \in Names
    BY <1>0, <1>1, LocalsBuilt
  <2>2. goto(c, local)
    BY <1>1
  <2> HIDE DEF local
  <2> QED BY <2>1, <2>2, GotoType
<1>2. ASSUME goto(c, [client[c] EXCEPT !.pc = "spawn", !.conn = None])
      PROVE  client' \in [Clients -> Locals] /\ \A e \in Clients : LocalsSet(e)'
  <2> DEFINE local == [client[c] EXCEPT !.pc = "spawn", !.conn = None]
  <2>1. local \in Locals /\ local.pc = "spawn" /\ local.name \in Names
    BY <1>0 DEF Locals
  <2>2. goto(c, local)
    BY <1>2
  <2> HIDE DEF local
  <2> QED BY <2>1, <2>2, GotoType
<1>3. ASSUME goto(c, Idle)
      PROVE  client' \in [Clients -> Locals] /\ \A e \in Clients : LocalsSet(e)'
  <2>1. Idle \in Locals /\ Idle.pc = "idle"
    BY LocalsBuilt
  <2> QED BY <1>3, <2>1, GotoType
<1> QED BY <1>0, <1>1, <1>2, <1>3, InfoFailedCases

\* The steps of a preparation.
LEMMA ClientStepType ==
    ASSUME TypeInv, NEW c \in Clients, ClientStep(c)
    PROVE  TypeInv'
<1> USE DaemonAssumption
<1>0. client[c] \in Locals /\ LocalsSet(c) /\ Idle \in Locals /\ Idle.pc = "idle"
  BY LocalsBuilt DEF TypeInv, TypeOK
<1>1. ASSUME UNCHANGED <<daemon, sock, foreign, prepared, alone, started, byhand>>,
             client' \in [Clients -> Locals], \A e \in Clients : LocalsSet(e)'
      PROVE  TypeInv'
  BY <1>1 DEF TypeInv, TypeOK, Running
<1>2. ASSUME NEW local \in Locals, goto(c, local), local.name = client[c].name,
             client[c].pc # "idle",
             local.pc \in {"info reply", "create reply"} => local.conn \in Daemons,
             local.pc \in {"setup", "create", "create reply"} => local.port \in Ports
      PROVE  client' \in [Clients -> Locals] /\ \A e \in Clients : LocalsSet(e)'
  BY <1>0, <1>2, GotoType DEF LocalsSet
<1>3. ASSUME goto(c, Idle)
      PROVE  client' \in [Clients -> Locals] /\ \A e \in Clients : LocalsSet(e)'
  BY <1>0, <1>3, GotoType
<1>4. CASE get_dns_port(c)
  <2>1. CASE sock \in Listening
    <3> DEFINE local == [client[c] EXCEPT !.pc = "info reply", !.conn = sock]
    <3>1. local \in Locals /\ local.pc = "info reply" /\ local.conn \in Daemons
          /\ local.name = client[c].name
      BY <1>0, <2>1 DEF Locals, Listening
    <3>2. goto(c, local) /\ client[c].pc = "info"
      BY <1>4, <2>1 DEF get_dns_port
    <3> HIDE DEF local
    <3> QED BY <1>1, <1>2, <1>4, <3>1, <3>2 DEF get_dns_port
  <2>2. CASE sock \notin Listening
    BY <1>1, <1>4, <2>2, InfoFailedType DEF get_dns_port
  <2> QED BY <2>1, <2>2
<1>5. CASE get_dns_port_reply(c)
  <2>1. CASE info_failed(c)
    BY <1>1, <1>5, <2>1, InfoFailedType DEF get_dns_port_reply
  <2>2. CASE ~info_failed(c)
    <3> DEFINE d == client[c].conn
               local == [client[c] EXCEPT !.pc = "setup", !.conn = None,
                                         !.port = daemon[d].port, !.asked = d]
    <3>1. daemon[d].ctl = "accept" /\ goto(c, local) /\ client[c].pc = "info reply"
      BY <1>5, <2>2 DEF get_dns_port_reply
    <3>2. d \in Daemons /\ daemon[d].port \in Ports
      <4>1. d \in Daemons
        BY <1>0, <3>1 DEF LocalsSet
      <4> QED BY <3>1, <4>1, RunningDaemons DEF TypeInv
    <3>3. local \in Locals /\ local.pc = "setup" /\ local.port \in Ports
          /\ local.name = client[c].name
      BY <1>0, <3>2 DEF Locals
    <3> HIDE DEF local
    <3> QED BY <1>1, <1>2, <1>5, <3>1, <3>3 DEF get_dns_port_reply
  <2> QED BY <2>1, <2>2
<1>6. CASE ensure_rootless_dns_daemon(c)
  <2> DEFINE local == [client[c] EXCEPT !.pc = "info", !.polls = 1, !.mine = new]
  <2>1. goto(c, local) /\ client[c].pc = "spawn" /\ starts(DefaultPort)
        /\ UNCHANGED <<sock, foreign, prepared, started, byhand>>
    BY <1>6 DEF ensure_rootless_dns_daemon
  <2>2. /\ daemon' \in [Daemons -> Process]
        /\ \A d \in Daemons : daemon'[d].dns = "off" <=> daemon'[d] = Off
        /\ \A d \in Running' : daemon'[d].port \in Ports
        /\ alone' \subseteq Daemons /\ new \in Daemons
    BY <2>1, StartType
  <2>3. local \in Locals /\ local.pc = "info" /\ local.name = client[c].name
    <3>1. 1 \in 0 .. MaxPolls
      OBVIOUS
    <3> QED BY <1>0, <2>2, <3>1 DEF Locals
  <2> HIDE DEF local
  <2>4. client' \in [Clients -> Locals] /\ \A e \in Clients : LocalsSet(e)'
    BY <1>2, <2>1, <2>3
  <2> QED BY <2>1, <2>2, <2>4 DEF TypeInv, TypeOK
<1>7. CASE setup_resources(c)
  <2>1. CASE goto(c, Idle)
    BY <1>1, <1>3, <1>7, <2>1 DEF setup_resources
  <2>2. CASE ~goto(c, Idle)
    <3> DEFINE local == [client[c] EXCEPT !.pc = "create"]
    <3>1. goto(c, local) /\ client[c].pc = "setup"
      BY <1>7, <2>2 DEF setup_resources, fails
    <3>2. local \in Locals /\ local.pc = "create" /\ local.name = client[c].name
          /\ local.port \in Ports
      BY <1>0, <3>1 DEF Locals, LocalsSet
    <3> HIDE DEF local
    <3> QED BY <1>1, <1>2, <1>7, <3>1, <3>2 DEF setup_resources
  <2> QED BY <2>1, <2>2
<1>8. CASE send_control_command(c)
  <2>1. CASE sock \notin Listening
    BY <1>1, <1>3, <1>8, <2>1 DEF send_control_command, fails
  <2>2. CASE sock \in Listening
    <3> DEFINE local == [client[c] EXCEPT !.pc = "create reply", !.conn = sock]
    <3>1. goto(c, local) /\ client[c].pc = "create"
      BY <1>8, <2>2 DEF send_control_command
    <3>2. local \in Locals /\ local.pc = "create reply" /\ local.name = client[c].name
          /\ local.port \in Ports /\ local.conn \in Daemons
      BY <1>0, <2>2, <3>1 DEF Locals, LocalsSet, Listening
    <3> HIDE DEF local
    <3> QED BY <1>1, <1>2, <1>8, <3>1, <3>2 DEF send_control_command
  <2> QED BY <2>1, <2>2
<1>9. CASE send_control_command_reply(c)
  <2> DEFINE d == client[c].conn
             n == client[c].name
  <2>1. d \in Daemons /\ n \in Names /\ client[c].port \in Ports
    BY <1>0, <1>9 DEF send_control_command_reply, LocalsSet
  <2>2. client' \in [Clients -> Locals] /\ \A e \in Clients : LocalsSet(e)'
    BY <1>3, <1>9 DEF send_control_command_reply
  <2>3. UNCHANGED <<sock, foreign, alone, started, byhand>>
    BY <1>9 DEF send_control_command_reply
  <2>4. CASE UNCHANGED <<daemon, prepared>>
    BY <1>1, <2>2, <2>3, <2>4
  <2>5. CASE ~UNCHANGED <<daemon, prepared>>
    <3>1. /\ daemon[d].ctl = "accept"
          /\ daemon' = [daemon EXCEPT ![d].table = handle_control_connection("CREATE", n, @)]
          /\ prepared' = [prepared EXCEPT ![n] =
                IF client[c].asked # None THEN [daemon |-> d, port |-> client[c].port] ELSE None]
      BY <1>9, <2>5 DEF send_control_command_reply
    <3>2. /\ daemon' \in [Daemons -> Process]
          /\ \A e \in Daemons : daemon'[e].dns = "off" <=> daemon'[e] = Off
          /\ \A e \in Running' : daemon'[e].port \in Ports
      BY <2>1, <3>1, CommandType
    <3>3. prepared' \in [Names -> Promise \cup {None}]
      BY <2>1, <3>1 DEF TypeInv, TypeOK, Promise
    <3> QED BY <2>2, <2>3, <3>2, <3>3 DEF TypeInv, TypeOK
  <2> QED BY <2>4, <2>5
<1> QED BY <1>4, <1>5, <1>6, <1>7, <1>8, <1>9 DEF ClientStep

\* Stuttering.
LEMMA StutterType == TypeInv /\ UNCHANGED vars => TypeInv'
  BY DEF TypeInv, TypeOK, vars, Running, LocalsSet

\* Every variable keeps its type, whatever is killed and however slow.
THEOREM LifecycleTypes == Spec => []TypeOK
<1>1. Init => TypeInv
  BY InitType
<1>2. TypeInv /\ [Next]_vars => TypeInv'
  BY DaemonStepType, UserStepType, ClientStepType, StutterType DEF Next
<1>3. TypeInv => TypeOK
  BY DEF TypeInv
<1> QED BY <1>1, <1>2, <1>3, PTL DEF Spec
-----------------------------------------------------------------------------
(* Daemons that go on *)

\* Initially there is none.
LEMMA InitInv == Init => IInv
<1> SUFFICES ASSUME Init PROVE IInv
  OBVIOUS
<1>1. TypeInv
  BY InitType
<1>2. Running = {}
  BY DEF Init, Running, Off
<1>3. \A c \in Clients : client[c].asked = None /\ client[c].mine = None
  BY LocalsBuilt DEF Init
<1>4. \A c \in Clients : ClientInv(c)
  BY <1>3 DEF ClientInv, AskedServes, MineRuns
<1>5. PolicyServed /\ PromisesRun
  BY DEF Init, PolicyServed, PromisesRun
<1> QED BY <1>1, <1>2, <1>4, <1>5 DEF IInv, LoneOwner

\* A step in which no daemon ends or turns to another port, none becomes one
\* that was always alone, and a lone one does not lose its listener.
GoOn ==
    /\ foreign' = foreign /\ Running \subseteq Running'
    /\ \A d \in Running : /\ daemon'[d].port = daemon[d].port
                          /\ daemon[d].dns = "serve" => daemon'[d].dns = "serve"
                          /\ d \in alone' => d \in alone
                          /\ d \in alone /\ d \in Listening => d \in Listening'

\* A client that does not move has nothing to fear from such a step, unless
\* its daemon is the one that is started.
LEMMA ClientKept ==
    ASSUME GoOn, NEW e \in Clients, ClientInv(e), client'[e] = client[e],
           client[e].mine \in Running' => client[e].mine \in Running,
           client[e].mine \in alone' => client[e].mine \in alone
    PROVE  ClientInv(e)'
<1>1. AskedServes(e)'
  BY DEF GoOn, ClientInv, AskedServes, Timely
<1>2. MineRuns(e)'
  BY DEF GoOn, ClientInv, MineRuns
<1> QED BY <1>1, <1>2 DEF ClientInv

\* Nor has a policy, if the tables do not shrink.
LEMMA PromisesKept ==
    ASSUME IInv, GoOn, prepared' = prepared,
           \A d \in Running : daemon[d].table \subseteq daemon'[d].table
    PROVE  PromisesRun' /\ (Timely => PolicyServed')
<1>1. PromisesRun'
  BY DEF IInv, GoOn, PromisesRun
<1>2. ASSUME Timely PROVE PolicyServed'
  <2>1. \A n \in Names : prepared[n] # None => prepared[n].daemon \in Running
    BY DEF IInv, PromisesRun
  <2>2. PolicyServed
    BY <1>2 DEF IInv
  <2> QED BY <2>1, <2>2 DEF GoOn, PolicyServed
<1> QED BY <1>1, <1>2

\* A step of one client that touches no daemon has to be looked at for that
\* client only.
LEMMA ClientOnly ==
    ASSUME IInv, TypeInv', NEW c \in Clients, NEW local, goto(c, local),
           UNCHANGED <<daemon, sock, foreign, prepared, alone>>, ClientInv(c)'
    PROVE  IInv'
<1>1. Running' = Running /\ Listening' = Listening
  BY DEF Running, Listening
<1>2. GoOn
  BY <1>1 DEF GoOn
<1>3. LoneOwner'
  BY <1>1 DEF IInv, LoneOwner, SocketOwned
<1>4. PromisesRun' /\ (Timely => PolicyServed')
  BY <1>2, PromisesKept
<1>5. ASSUME NEW e \in Clients \ {c} PROVE ClientInv(e)'
  <2>1. client'[e] = client[e]
    BY DEF goto, IInv, TypeInv, TypeOK
  <2> QED BY <1>1, <1>2, <2>1, ClientKept DEF IInv
<1> QED BY <1>3, <1>4, <1>5 DEF IInv, Timely

\* The control task moves the path of the socket along.  With a lone daemon,
\* it is that one's.
LEMMA ControlInv ==
    ASSUME IInv, NEW d \in Daemons, run_control_server(d)
    PROVE  IInv'
<1> USE DEF IInv
<1>1. TypeInv'
  BY DaemonStepType
<1>2. d \in Running /\ d # None
  BY RunningDaemons, DaemonAssumption DEF run_control_server, TypeInv
<1>3. UNCHANGED <<client, foreign, prepared, alone>>
      /\ \E ctl : daemon' = [daemon EXCEPT ![d].ctl = ctl]
  BY DEF run_control_server, socket_exists, control
<1>4. \A e \in Daemons : /\ daemon'[e].dns = daemon[e].dns /\ daemon'[e].port = daemon[e].port
                         /\ daemon'[e].table = daemon[e].table
  BY <1>3 DEF TypeInv, TypeOK, Process
<1>5. Running' = Running
  BY <1>4 DEF Running
<1>6. ASSUME d \in alone PROVE SocketOwned(d)' /\ (d \in Listening => d \in Listening')
  <2>0. daemon[d] \in Process /\ SocketOwned(d)
    BY <1>2, <1>6 DEF TypeInv, TypeOK, LoneOwner
  <2>1. CASE daemon[d].ctl = "check"
    <3>1. daemon'[d].ctl = (IF sock = None THEN "bind" ELSE "remove") /\ sock' = sock
      BY <2>0, <2>1 DEF run_control_server, socket_exists, control, TypeInv, TypeOK, Process
    <3> QED BY <2>1, <3>1 DEF SocketOwned, Listening
  <2>2. CASE daemon[d].ctl = "remove"
    <3>1. daemon'[d].ctl = "bind" /\ sock' = None
      BY <2>0, <2>2 DEF run_control_server, control, TypeInv, TypeOK, Process, SocketOwned
    <3> QED BY <2>2, <3>1 DEF SocketOwned, Listening
  <2>3. CASE daemon[d].ctl = "bind"
    <3>1. daemon'[d].ctl = "chmod" /\ sock' = d
      BY <2>0, <2>3 DEF run_control_server, control, TypeInv, TypeOK, Process, SocketOwned
    <3> QED BY <2>3, <3>1 DEF SocketOwned, Listening
  <2>4. CASE daemon[d].ctl = "chmod"
    <3>1. daemon'[d].ctl = "accept" /\ sock' = sock
      BY <1>2, <2>0, <2>4 DEF run_control_server, control, TypeInv, TypeOK, Process, SocketOwned
    <3> QED BY <2>0, <2>4, <3>1 DEF SocketOwned, Listening
  <2> QED BY <2>1, <2>2, <2>3, <2>4 DEF run_control_server
<1>7. \A e \in alone \cap Running : e = d
  BY <1>2 DEF LoneOwner
<1>8. LoneOwner'
  BY <1>3, <1>5, <1>6, <1>7 DEF LoneOwner
<1>9. GoOn
  BY <1>3, <1>4, <1>5, <1>6, <1>7 DEF GoOn, Running
<1>10. PromisesRun' /\ (Timely => PolicyServed')
  BY <1>3, <1>4, <1>9, PromisesKept DEF Running
<1>11. \A c \in Clients : ClientInv(c)'
  BY <1>3, <1>5, <1>9, ClientKept
<1> QED BY <1>1, <1>8, <1>10, <1>11 DEF Timely

-----------------------------------------------------------------------------
(* Daemons that end and start *)

\* With a daemon end the policies it has; clients forget that they asked it,
\* and nobody waits for it who has no cause to give up.
LEMMA EndedInv ==
    ASSUME IInv, TypeInv', NEW d \in Running, daemon' = [daemon EXCEPT ![d] = Off], ended(d),
           UNCHANGED <<sock, foreign, alone>>,
           \A c \in Clients :
               /\ client'[c] \in {WithoutAsked(client[c], d), WithoutMine(WithoutAsked(client[c], d), d)}
               /\ client'[c].mine = d /\ d \in alone => DefaultPort \in foreign
    PROVE  IInv'
<1> USE DEF IInv
<1>1. d \in Daemons /\ daemon'[d] = Off /\ \A e \in Daemons \ {d} : daemon'[e] = daemon[e]
  BY DEF Running, TypeInv, TypeOK
<1>2. Running' = Running \ {d} /\ \A e \in Daemons \ {d} : e \in Listening <=> e \in Listening'
  BY <1>1 DEF Running, Listening, Off
<1>3. LoneOwner'
  BY <1>1, <1>2 DEF LoneOwner, SocketOwned, Running
<1>4. \A n \in Names : prepared'[n] # None => prepared'[n] = prepared[n] /\ prepared[n].daemon # d
  BY DEF ended
<1>5. PromisesRun'
  BY <1>2, <1>4 DEF PromisesRun
<1>6. ASSUME Timely PROVE PolicyServed'
  <2>1. \A n \in Names : prepared'[n] # None =>
            daemon'[prepared'[n].daemon] = daemon[prepared[n].daemon]
    BY <1>1, <1>4 DEF PromisesRun, Running
  <2> QED BY <1>4, <1>6, <2>1 DEF PolicyServed
<1>7. ASSUME NEW c \in Clients PROVE ClientInv(c)'
  <2>1. /\ client'[c].pc = client[c].pc /\ client'[c].conn = client[c].conn
        /\ client'[c].port = client[c].port
        /\ client'[c].asked = IF client[c].asked = d THEN None ELSE client[c].asked
        /\ client'[c].mine = client[c].mine \/ client'[c].mine = None
    <3>1. client[c] \in Locals
      BY DEF TypeInv, TypeOK
    <3>2. client'[c] \in {WithoutAsked(client[c], d), WithoutMine(WithoutAsked(client[c], d), d)}
      OBVIOUS
    <3> QED BY <1>1, <3>1, <3>2, Forgets
  <2>2. ClientInv(c)
    OBVIOUS
  <2>3. AskedServes(c)'
    <3> SUFFICES ASSUME client'[c].asked # None
                 PROVE  /\ client'[c].asked \in Running'
                        /\ daemon'[client'[c].asked].port = client'[c].port
                        /\ Timely /\ client'[c].pc \in {"create", "create reply"} =>
                            daemon'[client'[c].asked].dns = "serve"
      BY DEF AskedServes, Timely
    <3>1. client'[c].asked = client[c].asked /\ client[c].asked # d /\ client[c].asked # None
      BY <2>1
    <3>2. client[c].asked \in Running /\ client[c].asked \in Daemons \ {d}
      BY <2>2, <3>1 DEF ClientInv, AskedServes, Running
    <3> QED BY <1>1, <1>2, <2>1, <2>2, <3>1, <3>2 DEF ClientInv, AskedServes
  <2>4. MineRuns(c)'
    <3> SUFFICES ASSUME client'[c].mine # None
                 PROVE  MineRuns(c)'
      BY DEF MineRuns
    <3>1. client'[c].mine = client[c].mine /\ client[c].mine # None /\ MineRuns(c)
      BY <2>1, <2>2 DEF ClientInv
    <3>2. client[c].mine \in Running' =>
            client[c].mine \in Running /\ client[c].mine \in Daemons \ {d}
      BY <1>2 DEF Running
    <3>3. client[c].mine \in Running' => daemon'[client[c].mine].port = DefaultPort
      BY <1>1, <3>1, <3>2 DEF MineRuns
    <3>4. client[c].mine \in alone' /\ DefaultPort \notin foreign' => client[c].mine \in Running'
      BY <1>2, <3>1 DEF MineRuns
    <3>5. client[c].pc = "info reply" /\ client[c].mine \in alone' \cap Running' =>
            client[c].conn = client[c].mine /\ client[c].mine \in Listening'
      BY <1>2, <3>1, <3>2 DEF MineRuns
    <3> QED BY <2>1, <3>1, <3>3, <3>4, <3>5 DEF MineRuns
  <2> QED BY <2>3, <2>4 DEF ClientInv
<1> QED BY <1>3, <1>5, <1>6, <1>7 DEF Timely

\* The DNS task binds its port, or takes the process with it.  A lone daemon
\* finds its port taken by another program only.
LEMMA DnsInv ==
    ASSUME IInv, NEW d \in Daemons, run_dns_proxy(d)
    PROVE  IInv'
<1> USE DEF IInv
<1>1. TypeInv'
  BY DaemonStepType
<1>2. daemon[d].dns = "bind" /\ d \in Running /\ UNCHANGED <<sock, foreign, alone>>
  BY DEF run_dns_proxy, Running
<1>3. CASE owned(daemon[d].port)
  <2>1. /\ daemon' = [daemon EXCEPT ![d] = Off] /\ ended(d)
        /\ \A c \in Clients : client'[c] = WithoutAsked(client[c], d)
    BY <1>3 DEF run_dns_proxy, after_bind_failure
  <2>2. ASSUME NEW c \in Clients, client'[c].mine = d, d \in alone
        PROVE  DefaultPort \in foreign
    <3>1. client[c].mine = d /\ d # None
      <4>1. client[c] \in Locals /\ client'[c] = WithoutAsked(client[c], d)
        BY <2>1 DEF TypeInv, TypeOK
      <4>2. client'[c].mine = client[c].mine
        BY <4>1, Forgets
      <4> QED BY <2>2, <4>2, DaemonAssumption
    <3>2. daemon[d].port = DefaultPort
      BY <1>2, <3>1 DEF ClientInv, MineRuns
    <3>3. \A e \in Running : e = d
      BY <1>2, <2>2 DEF LoneOwner
    <3>4. \A e \in Daemons : daemon[e].dns # "serve"
      BY <1>2, <3>3 DEF Running
    <3> QED BY <1>3, <3>2, <3>4 DEF owned
  <2> QED BY <1>1, <1>2, <2>1, <2>2, EndedInv
<1>4. CASE ~owned(daemon[d].port)
  <2>1. daemon'[d] = [daemon[d] EXCEPT !.dns = "serve"] /\ UNCHANGED <<client, prepared>>
        /\ \A e \in Daemons \ {d} : daemon'[e] = daemon[e]
    BY <1>4 DEF run_dns_proxy, TypeInv, TypeOK
  <2>2. /\ daemon'[d].dns = "serve" /\ daemon'[d].port = daemon[d].port
        /\ daemon'[d].ctl = daemon[d].ctl /\ daemon'[d].table = daemon[d].table
    BY <2>1 DEF TypeInv, TypeOK, Process
  <2>3. Running' = Running /\ Listening' = Listening
    <3>1. \A e \in Daemons : /\ daemon'[e].ctl = daemon[e].ctl
                             /\ daemon'[e].dns = "off" <=> daemon[e].dns = "off"
      BY <1>2, <2>1, <2>2
    <3> QED BY <3>1 DEF Running, Listening
  <2>4. GoOn
    BY <1>2, <2>1, <2>2, <2>3 DEF GoOn, Running
  <2>5. LoneOwner'
    <3>1. \A e \in Running : daemon'[e].ctl = daemon[e].ctl
      BY <2>1, <2>2 DEF Running
    <3> QED BY <1>2, <2>3, <3>1 DEF LoneOwner, SocketOwned
  <2>6. PromisesRun' /\ (Timely => PolicyServed')
    BY <2>1, <2>2, <2>4, PromisesKept DEF Running
  <2>7. \A c \in Clients : ClientInv(c)'
    BY <1>2, <2>1, <2>3, <2>4, ClientKept
  <2> QED BY <1>1, <2>5, <2>6, <2>7 DEF Timely
<1> QED BY <1>3, <1>4

\* A client that started the daemon that is killed knows.
LEMMA KilledInv ==
    ASSUME IInv, NEW d \in Daemons, killed(d)
    PROVE  IInv'
<1>1. TypeInv'
  BY DaemonStepType DEF IInv
<1>2. /\ d \in Running /\ daemon' = [daemon EXCEPT ![d] = Off] /\ ended(d)
      /\ UNCHANGED <<sock, foreign, alone>>
      /\ \A c \in Clients : client'[c] = WithoutMine(WithoutAsked(client[c], d), d)
  BY DEF killed
<1>3. ASSUME NEW c \in Clients PROVE client'[c].mine # d
  <2>1. client[c] \in Locals /\ client'[c] = WithoutMine(WithoutAsked(client[c], d), d)
    BY <1>2 DEF IInv, TypeInv, TypeOK
  <2> QED BY <2>1, Forgets
<1> QED BY <1>1, <1>2, <1>3, EndedInv

\* Whoever starts a daemon: it is alone, or nobody is.
LEMMA StartInv ==
    ASSUME IInv, NEW port \in Ports, starts(port), UNCHANGED <<sock, foreign, prepared>>
    PROVE  /\ GoOn /\ LoneOwner' /\ PromisesRun' /\ (Timely => PolicyServed')
           /\ new \in Running' /\ daemon'[new].port = port
           /\ \A e \in Clients : /\ client[e].mine \in Running' => client[e].mine \in Running
                                 /\ client[e].mine \in alone' => client[e].mine \in alone
<1>1. new \in Daemons \ Running /\ \A e \in Clients : client[e].mine # new
  BY NewIsFresh DEF starts, Fresh
<1>2. daemon'[new] = run_daemon(port) /\ \A d \in Daemons \ {new} : daemon'[d] = daemon[d]
  BY <1>1 DEF starts, IInv, TypeInv, TypeOK
<1>3. daemon'[new].ctl = "check" /\ daemon'[new].dns = "bind" /\ daemon'[new].port = port
  BY <1>2 DEF run_daemon
<1>4. Running' = Running \cup {new}
  BY <1>1, <1>2, <1>3 DEF Running
<1>5. alone' = IF Running = {} THEN alone \cup {new} ELSE alone \ (Running \cup {new})
  BY DEF starts
<1>6. GoOn
  BY <1>1, <1>2, <1>4, <1>5 DEF GoOn, Running, Listening
<1>7. LoneOwner'
  <2>1. CASE Running = {}
    BY <1>3, <1>4, <2>1 DEF LoneOwner, SocketOwned
  <2>2. CASE Running # {}
    BY <1>4, <1>5, <2>2 DEF LoneOwner
  <2> QED BY <2>1, <2>2
<1>8. \A d \in Running : daemon'[d] = daemon[d]
  BY <1>1, <1>2 DEF Running
<1>9. PromisesRun' /\ (Timely => PolicyServed')
  BY <1>6, <1>8, PromisesKept
<1> QED BY <1>1, <1>3, <1>4, <1>5, <1>6, <1>7, <1>9

\* A daemon by hand, whoever runs and whatever is under way.
LEMMA ByHandInv ==
    ASSUME IInv, NEW port \in Ports, start_by_hand(port)
    PROVE  IInv'
<1>1. TypeInv'
  BY UserStepType DEF IInv
<1>2. starts(port) /\ UNCHANGED <<sock, client, foreign, prepared>>
  BY DEF start_by_hand
<1>3. /\ GoOn /\ LoneOwner' /\ PromisesRun' /\ (Timely => PolicyServed')
      /\ \A e \in Clients : /\ client[e].mine \in Running' => client[e].mine \in Running
                            /\ client[e].mine \in alone' => client[e].mine \in alone
  BY <1>2, StartInv
<1>4. \A e \in Clients : ClientInv(e)'
  BY <1>2, <1>3, ClientKept DEF IInv
<1> QED BY <1>1, <1>3, <1>4 DEF IInv, Timely

\* Podman's preparation has a daemon of its own.
LEMMA SpawnInv ==
    ASSUME IInv, NEW c \in Clients, ensure_rootless_dns_daemon(c)
    PROVE  IInv'
<1> DEFINE local == [client[c] EXCEPT !.pc = "info", !.polls = 1, !.mine = new]
<1>0. TypeInv' /\ client[c] \in Locals /\ client \in [Clients -> Locals] /\ ClientInv(c)
  BY ClientStepType DEF ClientStep, IInv, TypeInv, TypeOK
<1>1. starts(DefaultPort) /\ goto(c, local) /\ UNCHANGED <<sock, foreign, prepared>>
  BY DEF ensure_rootless_dns_daemon
<1>2. /\ GoOn /\ LoneOwner' /\ PromisesRun' /\ (Timely => PolicyServed')
      /\ new \in Running' /\ daemon'[new].port = DefaultPort
      /\ \A e \in Clients : /\ client[e].mine \in Running' => client[e].mine \in Running
                            /\ client[e].mine \in alone' => client[e].mine \in alone
  BY <1>1, StartInv, DaemonAssumption
<1>3. local.pc = "info" /\ local.port = client[c].port
      /\ local.asked = client[c].asked /\ local.mine = new
  BY <1>0 DEF Locals
<1> HIDE DEF local
<1>4. client'[c] = local /\ \A e \in Clients \ {c} : client'[e] = client[e]
  BY <1>0, <1>1 DEF goto
<1>5. AskedServes(c)'
  BY <1>0, <1>2, <1>3, <1>4 DEF ClientInv, AskedServes, GoOn
<1>6. MineRuns(c)'
  BY <1>2, <1>3, <1>4 DEF MineRuns
<1>7. \A e \in Clients \ {c} : ClientInv(e)'
  BY <1>2, <1>4, ClientKept DEF IInv
<1> QED BY <1>0, <1>2, <1>5, <1>6, <1>7 DEF IInv, ClientInv, Timely
-----------------------------------------------------------------------------
(* Commands and preparations *)

\* A command changes one table; what it takes away is promised no more.
LEMMA IpsetInv ==
    ASSUME IInv, NEW n \in Names, NEW command \in {"CREATE", "REMOVE"}, ipset(command, n)
    PROVE  IInv'
<1> USE DEF IInv
<1>1. TypeInv'
  BY UserStepType
<1>2. sock \in Daemons /\ daemon[sock].ctl = "accept"
      /\ daemon' = [daemon EXCEPT ![sock].table = handle_control_connection(command, n, @)]
      /\ UNCHANGED <<sock, client, foreign, alone>>
  BY DEF ipset, Listening
<1>3. /\ \A e \in Daemons : /\ daemon'[e].ctl = daemon[e].ctl
                            /\ daemon'[e].dns = daemon[e].dns
                            /\ daemon'[e].port = daemon[e].port
                            /\ daemon[e].table \ {n} \subseteq daemon'[e].table
      /\ command = "CREATE" => \A e \in Daemons : daemon[e].table \subseteq daemon'[e].table
  BY <1>2, CommandType
<1>4. Running' = Running /\ Listening' = Listening
  BY <1>3 DEF Running, Listening
<1>5. GoOn
  BY <1>2, <1>3, <1>4 DEF GoOn, Running
<1>6. LoneOwner'
  BY <1>2, <1>3, <1>4 DEF LoneOwner, SocketOwned, Running
<1>7. \A c \in Clients : ClientInv(c)'
  BY <1>2, <1>4, <1>5, ClientKept
<1>8. \A m \in Names : prepared'[m] # None =>
        prepared'[m] = prepared[m] /\ (m = n => command = "CREATE")
  BY DEF ipset, TypeInv, TypeOK
<1>9. PromisesRun'
  BY <1>4, <1>8 DEF PromisesRun
<1>10. ASSUME Timely PROVE PolicyServed'
  <2> SUFFICES ASSUME NEW m \in Names, prepared'[m] # None
               PROVE  LET d == daemon'[prepared'[m].daemon]
                      IN  /\ m \in d.table
                          /\ prepared'[m].daemon \in alone' => d.dns = "serve" /\ d.port = prepared'[m].port
    BY DEF PolicyServed
  <2>1. prepared'[m] = prepared[m] /\ (m = n => command = "CREATE")
    BY <1>8
  <2>2. prepared[m].daemon \in Daemons
    BY <2>1 DEF PromisesRun, Running
  <2> QED BY <1>2, <1>3, <1>10, <2>1, <2>2 DEF PolicyServed
<1> QED BY <1>1, <1>6, <1>7, <1>9, <1>10 DEF Timely

\* A client that gave up, or was done, is as before it began.
LEMMA IdleInv ==
    ASSUME NEW c \in Clients, client'[c] = Idle
    PROVE  ClientInv(c)'
  BY LocalsBuilt DEF ClientInv, AskedServes, MineRuns

\* A preparation begins.
LEMMA PrepareInv ==
    ASSUME IInv, NEW n \in Names, NEW c \in Clients, prepare_network(c, n)
    PROVE  IInv'
<1> DEFINE local == [Idle EXCEPT !.pc = "info", !.name = n]
<1>1. TypeInv'
  BY UserStepType DEF IInv
<1>2. goto(c, local) /\ UNCHANGED <<daemon, sock, foreign, prepared, alone>>
  BY DEF prepare_network
<1>3. local.asked = None /\ local.mine = None
  BY LocalsBuilt
<1> HIDE DEF local
<1>4. client'[c] = local
  BY <1>2 DEF goto, IInv, TypeInv, TypeOK
<1>5. ClientInv(c)'
  BY <1>3, <1>4 DEF ClientInv, AskedServes, MineRuns
<1> QED BY <1>1, <1>2, <1>5, ClientOnly

\* A client that goes on with the same daemons, and waits for no answer.
LEMMA SameDaemons ==
    ASSUME NEW c \in Clients, ClientInv(c), NEW pc \in {"info", "spawn"},
           UNCHANGED <<daemon, foreign, alone>>, client'[c].pc = pc,
           client'[c].port = client[c].port,
           client'[c].asked = client[c].asked, client'[c].mine = client[c].mine
    PROVE  ClientInv(c)'
<1>1. Running' = Running /\ pc # "info reply" /\ pc \notin {"create", "create reply"}
  BY DEF Running
<1> QED BY <1>1 DEF ClientInv, AskedServes, MineRuns

\* A failed attempt.
LEMMA InfoFailedInv ==
    ASSUME IInv, NEW c \in Clients, client[c].pc \in {"info", "info reply"}, info_failed(c),
           UNCHANGED <<daemon, foreign, alone>>
    PROVE  ClientInv(c)'
<1>0. TypeOK /\ client[c] \in Locals /\ ClientInv(c) /\ client \in [Clients -> Locals]
  BY DEF IInv, TypeInv, TypeOK
<1>1. ASSUME client[c].polls \in 1 .. MaxPolls - 1,
             goto(c, [client[c] EXCEPT !.pc = "info", !.conn = None, !.polls = @ + 1])
      PROVE  ClientInv(c)'
  <2> DEFINE local == [client[c] EXCEPT !.pc = "info", !.conn = None, !.polls = @ + 1]
  <2>1. /\ local.pc = "info" /\ local.port = client[c].port
        /\ local.asked = client[c].asked /\ local.mine = client[c].mine
    BY <1>0, <1>1, LocalsBuilt
  <2>2. client'[c] = local
    BY <1>0, <1>1 DEF goto
  <2> HIDE DEF local
  <2> QED BY <1>0, <2>1, <2>2, SameDaemons
<1>2. ASSUME goto(c, [client[c] EXCEPT !.pc = "spawn", !.conn = None])
      PROVE  ClientInv(c)'
  <2>1. /\ client'[c].pc = "spawn" /\ client'[c].port = client[c].port
        /\ client'[c].asked = client[c].asked /\ client'[c].mine = client[c].mine
    BY <1>0, <1>2 DEF goto, Locals
  <2> QED BY <1>0, <2>1, SameDaemons
<1>3. ASSUME goto(c, Idle) PROVE ClientInv(c)'
  BY <1>0, <1>3, IdleInv DEF goto
<1> QED BY <1>0, <1>1, <1>2, <1>3, InfoFailedCases

\* The question for the port.
LEMMA PortQuestionInv ==
    ASSUME IInv, NEW c \in Clients, get_dns_port(c) \/ get_dns_port_reply(c)
    PROVE  IInv'
<1>0. /\ TypeInv' /\ TypeOK /\ client[c] \in Locals /\ ClientInv(c) /\ LocalsSet(c)
      /\ client \in [Clients -> Locals]
  BY ClientStepType DEF ClientStep, IInv, TypeInv, TypeOK
<1>1. UNCHANGED <<daemon, sock, foreign, prepared, alone>> /\ \E local : goto(c, local)
  BY <1>0, InfoFailedCases DEF get_dns_port, get_dns_port_reply
<1>2. Running' = Running /\ Listening' = Listening
  BY <1>1 DEF Running, Listening
<1>3. SUFFICES ClientInv(c)'
  BY <1>0, <1>1, ClientOnly
<1>4. client[c].pc \in {"info", "info reply"}
  BY DEF get_dns_port, get_dns_port_reply
<1>5. CASE info_failed(c)
  BY <1>1, <1>4, <1>5, InfoFailedInv
<1>6. CASE ~info_failed(c) /\ get_dns_port(c)
  <2> DEFINE local == [client[c] EXCEPT !.pc = "info reply", !.conn = sock]
  <2>1. /\ local.pc = "info reply" /\ local.conn = sock /\ local.port = client[c].port
        /\ local.asked = client[c].asked /\ local.mine = client[c].mine
    BY <1>0 DEF Locals
  <2>2. client'[c] = local /\ client[c].pc = "info" /\ sock \in Listening
    BY <1>0, <1>6 DEF get_dns_port, goto
  <2> HIDE DEF local
  <2>3. \A d \in alone \cap Running : sock = d
    BY <1>0, <2>2, RunningDaemons DEF IInv, LoneOwner
  <2>4. AskedServes(c)'
    BY <1>0, <1>1, <1>2, <2>1, <2>2 DEF ClientInv, AskedServes
  <2>5. MineRuns(c)'
    BY <1>0, <1>1, <1>2, <2>1, <2>2, <2>3 DEF ClientInv, MineRuns
  <2> QED BY <2>4, <2>5 DEF ClientInv
<1>7. CASE ~info_failed(c) /\ get_dns_port_reply(c)
  <2> DEFINE d == client[c].conn
             local == [client[c] EXCEPT !.pc = "setup", !.conn = None,
                                        !.port = daemon[d].port, !.asked = d]
  <2>1. daemon[d].ctl = "accept" /\ goto(c, local) /\ client[c].pc = "info reply"
    BY <1>7 DEF get_dns_port_reply
  <2>2. d \in Running
    BY <1>0, <2>1, RunningDaemons DEF LocalsSet
  <2>3. /\ local.pc = "setup" /\ local.port = daemon[d].port
        /\ local.asked = d /\ local.mine = client[c].mine
    BY <1>0 DEF Locals
  <2>4. client'[c] = local
    BY <1>0, <2>1 DEF goto
  <2> HIDE DEF local, d
  <2>5. AskedServes(c)'
    BY <1>1, <1>2, <2>2, <2>3, <2>4 DEF AskedServes
  <2>6. MineRuns(c)'
    BY <1>0, <1>1, <1>2, <2>3, <2>4 DEF ClientInv, MineRuns
  <2> QED BY <2>5, <2>6 DEF ClientInv
<1> QED BY <1>5, <1>6, <1>7

\* By the time the resources are set up the daemon that gave the port serves
\* it, or is gone.
LEMMA SetupInv ==
    ASSUME IInv, NEW c \in Clients, setup_resources(c) \/ send_control_command(c)
    PROVE  IInv'
<1>0. /\ TypeInv' /\ TypeOK /\ client[c] \in Locals /\ client \in [Clients -> Locals] /\ ClientInv(c)
  BY ClientStepType DEF ClientStep, IInv, TypeInv, TypeOK
<1>1. UNCHANGED <<daemon, sock, foreign, prepared, alone>> /\ \E local : goto(c, local)
  BY DEF setup_resources, send_control_command, fails
<1>2. Running' = Running
  BY <1>1 DEF Running
<1>3. SUFFICES ClientInv(c)'
  BY <1>0, <1>1, ClientOnly
<1>4. CASE goto(c, Idle)
  BY <1>0, <1>4, IdleInv DEF goto
<1>5. CASE ~goto(c, Idle)
  <2>1. /\ client[c].pc \in {"setup", "create"}
        /\ client'[c].pc \in {"create", "create reply"}
        /\ client'[c].port = client[c].port
        /\ client'[c].asked = client[c].asked /\ client'[c].mine = client[c].mine
    <3>1. CASE setup_resources(c)
      <4>1. client[c].pc = "setup" /\ client' = [client EXCEPT ![c] = [client[c] EXCEPT !.pc = "create"]]
        BY <1>5, <3>1 DEF setup_resources, fails, goto
      <4> QED BY <1>0, <4>1 DEF Locals
    <3>2. CASE send_control_command(c)
      <4>1. /\ client[c].pc = "create"
            /\ client' = [client EXCEPT ![c] =
                            [client[c] EXCEPT !.pc = "create reply", !.conn = sock]]
        BY <1>5, <3>2 DEF send_control_command, fails, goto
      <4> QED BY <1>0, <4>1 DEF Locals
    <3> QED BY <3>1, <3>2
  <2>2. ASSUME Timely, client[c].asked # None PROVE daemon[client[c].asked].dns = "serve"
    <3>1. client[c].asked \in Running
      BY <1>0, <2>2 DEF ClientInv, AskedServes
    <3>2. CASE client[c].pc = "setup"
      <4>1. daemon[client[c].asked].dns # "bind"
        BY <2>2, <3>2 DEF setup_resources, send_control_command, Timely
      <4> QED BY <1>0, <3>1, <4>1 DEF Running, TypeOK, Process
    <3>3. CASE client[c].pc = "create"
      BY <1>0, <2>2, <3>3 DEF ClientInv, AskedServes
    <3> QED BY <2>1, <3>2, <3>3
  <2>3. AskedServes(c)'
    BY <1>0, <1>1, <1>2, <2>1, <2>2 DEF ClientInv, AskedServes, Timely
  <2>4. MineRuns(c)'
    BY <1>0, <1>1, <1>2, <2>1 DEF ClientInv, MineRuns
  <2> QED BY <2>3, <2>4 DEF ClientInv
<1> QED BY <1>4, <1>5

\* The daemon that takes the policy, if it is a lone one, is the one that gave
\* the port.
LEMMA CreateReplyInv ==
    ASSUME IInv, NEW c \in Clients, send_control_command_reply(c)
    PROVE  IInv'
<1> DEFINE d == client[c].conn
           n == client[c].name
<1>0. /\ TypeInv' /\ TypeOK /\ client[c] \in Locals /\ client \in [Clients -> Locals]
      /\ ClientInv(c) /\ LocalsSet(c)
  BY ClientStepType DEF ClientStep, IInv, TypeInv, TypeOK
<1>1. client[c].pc = "create reply" /\ goto(c, Idle) /\ UNCHANGED <<sock, foreign, alone>>
      /\ d \in Daemons /\ n \in Names
  BY <1>0 DEF send_control_command_reply, LocalsSet
<1>2. ClientInv(c)' /\ \A e \in Clients \ {c} : client'[e] = client[e]
  BY <1>0, <1>1, IdleInv DEF goto
<1>3. CASE UNCHANGED <<daemon, prepared>>
  BY <1>0, <1>1, <1>2, <1>3, ClientOnly
<1>4. CASE ~UNCHANGED <<daemon, prepared>>
  <2>1. /\ daemon[d].ctl = "accept"
        /\ daemon' = [daemon EXCEPT ![d].table = handle_control_connection("CREATE", n, @)]
        /\ prepared' = [prepared EXCEPT ![n] =
              IF client[c].asked # None THEN [daemon |-> d, port |-> client[c].port] ELSE None]
    BY <1>4 DEF send_control_command_reply
  <2>2. /\ \A e \in Daemons : /\ daemon'[e].ctl = daemon[e].ctl
                              /\ daemon'[e].dns = daemon[e].dns
                              /\ daemon'[e].port = daemon[e].port
                              /\ daemon[e].table \subseteq daemon'[e].table
        /\ n \in daemon'[d].table
    BY <1>1, <2>1, CommandType DEF IInv
  <2>3. d \in Running
    BY <1>0, <1>1, <2>1, RunningDaemons
  <2> HIDE DEF d, n
  <2>4. Running' = Running /\ Listening' = Listening
    BY <2>2 DEF Running, Listening
  <2>5. GoOn
    BY <1>1, <2>2, <2>4 DEF GoOn, Running
  <2>6. LoneOwner'
    BY <1>1, <2>2, <2>4 DEF IInv, LoneOwner, SocketOwned, Running
  <2>7. \A e \in Clients \ {c} : ClientInv(e)'
    BY <1>1, <1>2, <2>4, <2>5, ClientKept DEF IInv
  <2>8. \A m \in Names : prepared'[m] # None =>
            IF m = n THEN client[c].asked # None /\ prepared'[m].daemon = d
                          /\ prepared'[m].port = client[c].port
                     ELSE prepared'[m] = prepared[m]
    <3> SUFFICES ASSUME NEW m \in Names, prepared'[m] # None
                 PROVE  IF m = n THEN client[c].asked # None /\ prepared'[m].daemon = d
                                      /\ prepared'[m].port = client[c].port
                                 ELSE prepared'[m] = prepared[m]
      OBVIOUS
    <3>1. CASE m = n
      <4>1. client[c].asked # None /\ prepared'[m] = [daemon |-> d, port |-> client[c].port]
        BY <1>0, <2>1, <3>1 DEF TypeOK
      <4> QED BY <3>1, <4>1
    <3>2. CASE m # n
      BY <1>0, <2>1, <3>2 DEF TypeOK
    <3> QED BY <3>1, <3>2
  <2>9. PromisesRun'
    BY <2>3, <2>4, <2>8 DEF IInv, PromisesRun
  <2>10. ASSUME Timely PROVE PolicyServed'
    <3> SUFFICES ASSUME NEW m \in Names, prepared'[m] # None
                 PROVE  LET p == daemon'[prepared'[m].daemon]
                        IN  /\ m \in p.table
                            /\ prepared'[m].daemon \in alone' =>
                                 p.dns = "serve" /\ p.port = prepared'[m].port
      BY DEF PolicyServed
    <3>1. CASE m = n
      <4>1. client[c].asked # None /\ prepared'[m].daemon = d /\ prepared'[m].port = client[c].port
        BY <2>8, <3>1
      <4>2. ASSUME d \in alone PROVE daemon[d].dns = "serve" /\ daemon[d].port = client[c].port
        <5>1. client[c].asked \in Running
          BY <1>0, <4>1 DEF ClientInv, AskedServes
        <5>2. client[c].asked = d
          BY <2>3, <4>2, <5>1 DEF IInv, LoneOwner
        <5> QED BY <1>0, <1>1, <2>10, <4>1, <5>2 DEF ClientInv, AskedServes
      <4>3. d \in Daemons
        BY <2>3 DEF Running
      <4>4. m \in daemon'[prepared'[m].daemon].table
        BY <2>2, <3>1, <4>1
      <4>5. ASSUME prepared'[m].daemon \in alone'
            PROVE  /\ daemon'[prepared'[m].daemon].dns = "serve"
                   /\ daemon'[prepared'[m].daemon].port = prepared'[m].port
        BY <1>1, <2>2, <4>1, <4>2, <4>3, <4>5
      <4> QED BY <4>4, <4>5
    <3>2. CASE m # n
      <4>1. prepared'[m] = prepared[m] /\ prepared[m].daemon \in Daemons
        BY <2>8, <3>2 DEF IInv, PromisesRun, Running
      <4>2. PolicyServed
        BY <2>10 DEF IInv
      <4>3. LET p == daemon[prepared[m].daemon]
            IN  /\ m \in p.table
                /\ prepared[m].daemon \in alone => p.dns = "serve" /\ p.port = prepared[m].port
        BY <4>1, <4>2 DEF PolicyServed
      <4>4. alone' = alone
        BY <1>1
      <4> QED BY <2>2, <4>1, <4>3, <4>4
    <3> QED BY <3>1, <3>2
  <2> QED BY <1>0, <1>2, <2>6, <2>7, <2>9, <2>10 DEF IInv, Timely
<1> QED BY <1>3, <1>4

-----------------------------------------------------------------------------
(* Theorems *)

\* The strengthened invariant, for any number of daemons, however started, and
\* of preparations at the same time, with daemons killed at any point.
THEOREM LifecycleInvariance == Spec => []IInv
<1>1. Init => IInv
  BY InitInv
<1>2. IInv /\ [Next]_vars => IInv'
  <2>1. ASSUME IInv, UNCHANGED vars PROVE IInv'
    <3>1. TypeInv' /\ Running' = Running /\ Listening' = Listening
      BY <2>1, StutterType DEF IInv, vars, Running, Listening
    <3>2. GoOn
      BY <2>1, <3>1 DEF GoOn, vars
    <3>3. \A c \in Clients : ClientInv(c)'
      BY <2>1, <3>1, <3>2, ClientKept DEF IInv, vars
    <3>4. PromisesRun' /\ (Timely => PolicyServed')
      BY <2>1, <3>2, PromisesKept DEF vars
    <3>5. LoneOwner'
      BY <2>1, <3>1 DEF IInv, vars, LoneOwner, SocketOwned
    <3> QED BY <3>1, <3>3, <3>4, <3>5 DEF IInv, Timely
  <2>2. ASSUME IInv, NEW c \in Clients, ClientStep(c) PROVE IInv'
    BY <2>2, PortQuestionInv, SpawnInv, SetupInv, CreateReplyInv DEF ClientStep
  <2> QED BY <2>1, <2>2, ControlInv, DnsInv, KilledInv, ByHandInv, IpsetInv, PrepareInv DEF Next
<1> QED BY <1>1, <1>2, PTL DEF Spec

\* A daemon beside which no other ran has the socket once it is up, whatever
\* files others left behind.
LEMMA UpIsReachable == IInv => LoneDaemonReachable
  BY DEF LoneDaemonReachable, IInv, LoneOwner, SocketOwned, Starting, Running, TypeInv, TypeOK, Process

\* The same of every reachable state.
THEOREM ServingDaemonReachable == Spec => []LoneDaemonReachable
  BY UpIsReachable, LifecycleInvariance, PTL

\* A daemon that took a policy has it, and if no other ran beside it, serves
\* the port that the firewall leads to, provided that it had the time to bind
\* the port while the network was set up.
THEOREM PreparedPolicyServed ==
    ASSUME Timely
    PROVE  Spec => []PolicyServed
<1>1. IInv => PolicyServed
  BY Timely DEF IInv
<1> QED BY <1>1, LifecycleInvariance, PTL

\* Podman's preparation gives up only if its daemon was killed, had another
\* one beside it, or found the port taken by another program, provided that a
\* daemon is up within the time of all attempts.
THEOREM GivesUpOnlyForCause ==
    ASSUME Timely
    PROVE  Spec => GivesUpForCause
<1> DEFINE ForCause ==
        \A c \in Clients :
            /\ RuntimeOf[c] = "podman"
            /\ client[c].pc \in {"info", "info reply"} /\ client'[c].pc = "idle"
            => client[c].mine = None \/ client[c].mine \notin alone \/ DefaultPort \in foreign
<1>1. ASSUME IInv, Next PROVE ForCause
  <2> SUFFICES ASSUME NEW c \in Clients, RuntimeOf[c] = "podman",
                      client[c].pc \in {"info", "info reply"}, client'[c].pc = "idle",
                      client[c].mine # None, client[c].mine \in alone, DefaultPort \notin foreign
               PROVE  FALSE
    OBVIOUS
  <2>0. TypeOK /\ client[c] \in Locals /\ client \in [Clients -> Locals] /\ ClientInv(c)
    BY <1>1 DEF IInv, TypeInv, TypeOK
  <2>1. (get_dns_port(c) \/ get_dns_port_reply(c)) /\ info_failed(c)
    <3>1. ASSUME NEW e \in Clients \ {c}, NEW local, goto(e, local) PROVE FALSE
      BY <2>0, <3>1 DEF goto
    <3>2. ~UNCHANGED client
      BY <2>0
    <3>3. ASSUME NEW d \in Daemons, run_dns_proxy(d) \/ killed(d) PROVE FALSE
      <4>1. client'[c] \in {WithoutAsked(client[c], d), WithoutMine(WithoutAsked(client[c], d), d)}
        BY <3>2, <3>3 DEF run_dns_proxy, killed
      <4>2. client[c] \in Locals
        BY <2>0
      <4>3. client'[c].pc = client[c].pc
        BY <4>1, <4>2, Forgets
      <4> QED BY <4>3
    <3>4. ASSUME NEW e \in Clients, NEW n \in Names, prepare_network(e, n) PROVE FALSE
      <4>1. e = c
        BY <3>1, <3>4 DEF prepare_network
      <4> QED BY <3>4, <4>1 DEF prepare_network
    <3>5. PICK e \in Clients : ClientStep(e)
      BY <1>1, <3>2, <3>3, <3>4 DEF Next, run_control_server, start_by_hand, ipset
    <3>6. e = c
      BY <3>1, <3>5, <2>0, InfoFailedCases DEF ClientStep, get_dns_port, get_dns_port_reply,
         ensure_rootless_dns_daemon, setup_resources, send_control_command,
         send_control_command_reply, fails
    <3>7. get_dns_port(c) \/ get_dns_port_reply(c)
      BY <3>5, <3>6 DEF ClientStep, ensure_rootless_dns_daemon, setup_resources,
         send_control_command, send_control_command_reply
    <3>8. info_failed(c)
      <4>1. ASSUME NEW pc \in {"setup", "info reply"}, NEW x, NEW y, NEW z,
                   goto(c, [client[c] EXCEPT !.pc = pc, !.conn = x])
                   \/ goto(c, [client[c] EXCEPT !.pc = pc, !.conn = x, !.port = y, !.asked = z])
            PROVE  FALSE
        <5>1. \/ client'[c] = [client[c] EXCEPT !.pc = pc, !.conn = x]
              \/ client'[c] = [client[c] EXCEPT !.pc = pc, !.conn = x, !.port = y, !.asked = z]
          BY <2>0, <4>1 DEF goto
        <5>2. /\ [client[c] EXCEPT !.pc = pc, !.conn = x].pc = pc
              /\ [client[c] EXCEPT !.pc = pc, !.conn = x, !.port = y, !.asked = z].pc = pc
          BY <2>0 DEF Locals
        <5> QED BY <5>1, <5>2
      <4> QED BY <3>7, <4>1 DEF get_dns_port, get_dns_port_reply
    <3> QED BY <3>7, <3>8
  <2>2. client[c].polls = MaxPolls
    <3>1. ASSUME NEW pc \in {"info", "spawn"}, NEW p,
                 goto(c, [client[c] EXCEPT !.pc = pc, !.conn = None])
                 \/ goto(c, [client[c] EXCEPT !.pc = pc, !.conn = None, !.polls = p])
          PROVE  FALSE
      <4>1. \/ client'[c] = [client[c] EXCEPT !.pc = pc, !.conn = None]
            \/ client'[c] = [client[c] EXCEPT !.pc = pc, !.conn = None, !.polls = p]
        BY <2>0, <3>1 DEF goto
      <4>2. /\ [client[c] EXCEPT !.pc = pc, !.conn = None].pc = pc
            /\ [client[c] EXCEPT !.pc = pc, !.conn = None, !.polls = p].pc = pc
        BY <2>0 DEF Locals
      <4> QED BY <4>1, <4>2
    <3> QED BY <2>0, <2>1, <3>1, InfoFailedCases
  <2>3. client[c].mine \in Running
    BY <2>0 DEF ClientInv, MineRuns
  <2>4. CASE get_dns_port(c) /\ client[c].pc = "info"
    <3>1. client[c].mine \notin Starting
      BY <2>2, <2>4, Timely DEF get_dns_port, Timely
    <3>2. sock \in Listening
      BY <1>1, <2>3, <3>1, UpIsReachable DEF LoneDaemonReachable, Listening, Running
    <3>3. client'[c] = [client[c] EXCEPT !.pc = "info reply", !.conn = sock]
      BY <2>0, <2>4, <3>2 DEF get_dns_port, goto
    <3>4. client'[c].pc = "info reply"
      BY <2>0, <3>3 DEF Locals
    <3> QED BY <3>4
  <2>5. CASE get_dns_port_reply(c) /\ client[c].pc = "info reply"
    <3>1. client[c].conn \in Listening
      BY <2>0, <2>3, <2>5 DEF ClientInv, MineRuns
    <3>2. client'[c] = [client[c] EXCEPT !.pc = "setup", !.conn = None,
                                         !.port = daemon[client[c].conn].port,
                                         !.asked = client[c].conn]
      BY <2>0, <2>5, <3>1, Timely DEF get_dns_port_reply, goto, Timely
    <3>3. client'[c].pc = "setup"
      BY <2>0, <3>2 DEF Locals
    <3> QED BY <3>3
  <2> QED BY <2>1, <2>4, <2>5 DEF get_dns_port, get_dns_port_reply
<1>2. IInv /\ [Next]_vars => [ForCause]_vars
  BY <1>1
<1> QED BY <1>2, LifecycleInvariance, PTL DEF Spec, GivesUpForCause
=============================================================================
