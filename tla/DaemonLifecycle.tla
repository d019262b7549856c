-------------------------- MODULE DaemonLifecycle --------------------------
(***************************************************************************)
(* The daemon processes, the control socket and the commands that use it.  *)
(* A daemon runs two tasks: one takes over the path of the socket and      *)
(* answers commands, the other binds the DNS port, without which the       *)
(* process ends.  prepare-network asks the daemon for its port, sets up    *)
(* the network (DockerPrepare, RootlessPrepare), and only then sends the   *)
(* policy, over a second connection; for Podman it starts a daemon when    *)
(* nobody answers.  The policy table is that of PolicyState, names only.   *)
(* The operating system (files, sockets, processes) is external.           *)
(***************************************************************************)
EXTENDS Naturals

CONSTANTS
    Daemons,        \* processes that can run the daemon
    Clients,        \* processes that run prepare-network
    RuntimeOf,      \* --runtime of each client: "docker" or "podman"
    Names,          \* names of networks and policies
    Ports,          \* DNS ports
    DefaultPort,    \* 5353, of a daemon that prepare-network starts
    MaxPolls,       \* 50 in the code
    None,
    MaxPreparations,    \* bound: how often prepare-network is run
    MaxByHand,      \* bound: how many daemons are started by hand
    Faults          \* subset of {"kill", "slow"}

VARIABLES
    daemon,     \* the tasks of each daemon, its DNS port and its policy table
    sock,       \* the daemon that bound /run/dockerwall.sock, alive or not, or None
    client,     \* where each client is, and its local variables
    foreign,    \* DNS ports that a program other than Dockerwall has bound
    prepared,   \* history: for each name, the daemon and the port of its last
                \* successful preparation, until that daemon ends
    alone,      \* history: the daemons beside which no other ever ran
    started,    \* history: how often prepare-network was run
    byhand      \* history: how many daemons were started by hand

vars == <<daemon, sock, client, foreign, prepared, alone, started, byhand>>

ASSUME DaemonAssumption ==
    /\ RuntimeOf \in [Clients -> {"docker", "podman"}]
    /\ DefaultPort \in Ports
    /\ MaxPolls \in Nat \ {0} /\ MaxPreparations \in Nat /\ MaxByHand \in Nat
    /\ None \notin Daemons \cup Names \cup Ports

Off  == [ctl |-> "off", dns |-> "off", port |-> None, table |-> {}]

\* Two of a client's locals are history: `mine`, the daemon it started, until
\* that is killed, and `asked`, the daemon whose port it has, until that ends.
Idle == [pc |-> "idle", name |-> None, polls |-> 0, conn |-> None, port |-> None,
         asked |-> None, mine |-> None]

Process == [ctl : {"off", "check", "remove", "bind", "chmod", "accept", "lost"},
            dns : {"off", "bind", "serve"}, port : Ports \cup {None}, table : SUBSET Names]
Locals  == [pc : {"idle", "info", "info reply", "spawn", "setup", "create", "create reply"},
            name : Names \cup {None}, polls : 0 .. MaxPolls, conn : Daemons \cup {None},
            port : Ports \cup {None}, asked : Daemons \cup {None}, mine : Daemons \cup {None}]
Promise == [daemon : Daemons, port : Ports]

TypeOK ==
    /\ daemon \in [Daemons -> Process]
    /\ \A d \in Daemons : daemon[d].dns = "off" <=> daemon[d] = Off
    /\ sock \in Daemons \cup {None}
    /\ client \in [Clients -> Locals]
    /\ foreign \subseteq Ports
    /\ prepared \in [Names -> Promise \cup {None}]
    /\ alone \subseteq Daemons
    /\ started \in 0 .. MaxPreparations
    /\ byhand \in 0 .. MaxByHand

Init ==
    /\ daemon = [d \in Daemons |-> Off]
    /\ sock = None
    /\ client = [c \in Clients |-> Idle]
    /\ foreign \in SUBSET {DefaultPort}
    /\ prepared = [n \in Names |-> None]
    /\ alone = {}
    /\ started = 0
    /\ byhand = 0

Running   == {d \in Daemons : daemon[d].dns # "off"}
\* Bound and not closed again: connections are queued, if not answered yet.
Listening == {d \in Daemons : daemon[d].ctl \in {"chmod", "accept"}}
Starting  == {d \in Daemons : \/ daemon[d].ctl \in {"check", "remove", "bind", "chmod"}
                              \/ daemon[d].dns = "bind"}

\* Processes nobody remembers, which can stand for a new one.
Fresh == {d \in Daemons \ Running :
            sock # d /\ \A c \in Clients : d \notin {client[c].conn, client[c].mine}}

new == CHOOSE d \in Fresh : TRUE
-----------------------------------------------------------------------------
(* The daemon: main, run_daemon *)

run_daemon(port) == [ctl |-> "check", dns |-> "bind", port |-> port, table |-> {}]

\* Nothing keeps a daemon from being started next to another one.
starts(port) ==
    /\ Fresh # {}
    /\ daemon' = [daemon EXCEPT ![new] = run_daemon(port)]
    /\ alone' = IF Running = {} THEN alone \cup {new} ELSE alone \ (Running \cup {new})

\* `dockerwall daemon`, at any time.
start_by_hand(port) ==
    /\ byhand < MaxByHand
    /\ byhand' = byhand + 1
    /\ starts(port)
    /\ UNCHANGED <<sock, client, foreign, prepared, started>>

control(d, ctl) == daemon' = [daemon EXCEPT ![d].ctl = ctl]

\* Variant with a fault: a file that is there is not removed.
socket_exists_Ignored(d) == control(d, "bind")

socket_exists(d) == control(d, IF sock = None THEN "bind" ELSE "remove")

\* An error ends the task, closes its listener and is noticed by nobody: the
\* other task never gets to the point where it would ask.
run_control_server(d) ==
    /\ \/ /\ daemon[d].ctl = "check"
          /\ socket_exists(d)
          /\ UNCHANGED sock
       \/ /\ daemon[d].ctl = "remove"
          /\ control(d, IF sock = None THEN "lost" ELSE "bind")
          /\ sock' = None
       \/ /\ daemon[d].ctl = "bind"
          /\ IF sock = None THEN control(d, "chmod") /\ sock' = d
                            ELSE control(d, "lost") /\ UNCHANGED sock
       \/ /\ daemon[d].ctl = "chmod"
          /\ control(d, IF sock = None THEN "lost" ELSE "accept")
          /\ UNCHANGED sock
    /\ UNCHANGED <<client, foreign, prepared, alone, started, byhand>>

\* Policies die with the daemon that has them, and clients may be left with
\* the port of a daemon that is not there any more.
ended(d) ==
    prepared' = [n \in Names |->
        IF prepared[n] # None /\ prepared[n].daemon = d THEN None ELSE prepared[n]]

WithoutAsked(local, d) == [local EXCEPT !.asked = IF @ = d THEN None ELSE @]
WithoutMine(local, d)  == [local EXCEPT !.mine = IF @ = d THEN None ELSE @]

owned(port) == port \in foreign \/ \E d \in Daemons : daemon[d].dns = "serve" /\ daemon[d].port = port

\* Variant with a fault: the control task goes on without a DNS socket.
after_bind_failure_GoesOn(d) == [daemon[d] EXCEPT !.dns = "off"]

\* The process ends, its table is gone, the file of its socket is not.
after_bind_failure(d) == Off

run_dns_proxy(d) ==
    /\ daemon[d].dns = "bind"
    /\ IF owned(daemon[d].port)
       THEN /\ daemon' = [daemon EXCEPT ![d] = after_bind_failure(d)]
            /\ ended(d)
            /\ client' = [c \in Clients |-> WithoutAsked(client[c], d)]
       ELSE daemon' = [daemon EXCEPT ![d].dns = "serve"] /\ UNCHANGED <<client, prepared>>
    /\ UNCHANGED <<sock, foreign, alone, started, byhand>>

killed(d) ==
    /\ "kill" \in Faults
    /\ d \in Running
    /\ daemon' = [daemon EXCEPT ![d] = Off]
    /\ ended(d)
    /\ client' = [c \in Clients |-> WithoutMine(WithoutAsked(client[c], d), d)]
    /\ UNCHANGED <<sock, foreign, alone, started, byhand>>
-----------------------------------------------------------------------------
(* Commands *)

\* What a command does to the table.  All others, among them those without a
\* name, which get an error for an answer, leave it alone.
handle_control_connection(command, n, table) ==
    CASE command = "CREATE" -> table \cup {n}
      [] command = "REMOVE" -> table \ {n}
      [] OTHER -> table

goto(c, local) == client' = [client EXCEPT ![c] = local]
fails(c) == goto(c, Idle)

\* `dockerwall ipset create` and `ipset remove`, which need a daemon.
ipset(command, n) ==
    /\ sock \in Listening /\ daemon[sock].ctl = "accept"
    /\ daemon' = [daemon EXCEPT ![sock].table = handle_control_connection(command, n, @)]
    /\ prepared' = [prepared EXCEPT ![n] = IF command = "REMOVE" THEN None ELSE @]
    /\ UNCHANGED <<sock, client, foreign, alone, started, byhand>>

prepare_network(c, n) ==
    /\ client[c].pc = "idle"
    /\ started < MaxPreparations
    /\ started' = started + 1
    /\ goto(c, [Idle EXCEPT !.pc = "info", !.name = n])
    /\ UNCHANGED <<daemon, sock, foreign, prepared, alone, byhand>>

\* Variant with a fault: the attempts are not counted.
info_failed_Again(c) ==
    CASE client[c].polls > 0 -> goto(c, [client[c] EXCEPT !.pc = "info", !.conn = None])
      [] RuntimeOf[c] = "podman" -> goto(c, [client[c] EXCEPT !.pc = "spawn", !.conn = None])
      [] OTHER -> fails(c)

\* The first failure makes Podman's preparation start a daemon, the next ones
\* make it wait and ask again.
info_failed(c) ==
    CASE client[c].polls \in 1 .. MaxPolls - 1 ->
            goto(c, [client[c] EXCEPT !.pc = "info", !.conn = None, !.polls = @ + 1])
      [] client[c].polls = 0 /\ RuntimeOf[c] = "podman" ->
            goto(c, [client[c] EXCEPT !.pc = "spawn", !.conn = None])
      [] OTHER -> fails(c)

\* It fails at once when nobody listens.  The last attempt comes five seconds
\* after the client started its daemon, which is up by then if it ever is.
get_dns_port(c) ==
    /\ client[c].pc = "info"
    /\ client[c].polls = MaxPolls /\ client[c].mine \in Starting => "slow" \in Faults
    /\ IF sock \in Listening
       THEN goto(c, [client[c] EXCEPT !.pc = "info reply", !.conn = sock])
       ELSE info_failed(c)
    /\ UNCHANGED <<daemon, sock, foreign, prepared, alone, started, byhand>>

\* A daemon that ends or loses its listener closes the connection.  A second
\* without an answer counts as a failure too.
get_dns_port_reply(c) ==
    LET d == client[c].conn IN
    /\ client[c].pc = "info reply"
    /\ \/ /\ daemon[d].ctl = "accept"
          /\ goto(c, [client[c] EXCEPT !.pc = "setup", !.conn = None,
                                         !.port = daemon[d].port, !.asked = d])
       \/ /\ d \notin Listening \/ "slow" \in Faults
          /\ info_failed(c)
    /\ UNCHANGED <<daemon, sock, foreign, prepared, alone, started, byhand>>

ensure_rootless_dns_daemon(c) ==
    /\ client[c].pc = "spawn"
    /\ starts(DefaultPort)
    /\ goto(c, [client[c] EXCEPT !.pc = "info", !.polls = 1, !.mine = new])
    /\ UNCHANGED <<sock, foreign, prepared, started, byhand>>

\* The resources are set up with the port, or that fails.  These dozens of
\* commands take longer than the daemon needs to try and bind the port.
setup_resources(c) ==
    /\ client[c].pc = "setup"
    /\ client[c].asked # None /\ daemon[client[c].asked].dns = "bind" => "slow" \in Faults
    /\ fails(c) \/ goto(c, [client[c] EXCEPT !.pc = "create"])
    /\ UNCHANGED <<daemon, sock, foreign, prepared, alone, started, byhand>>

\* To whoever has the socket by now.
send_control_command(c) ==
    /\ client[c].pc = "create"
    /\ IF sock \in Listening
       THEN goto(c, [client[c] EXCEPT !.pc = "create reply", !.conn = sock])
       ELSE fails(c)
    /\ UNCHANGED <<daemon, sock, foreign, prepared, alone, started, byhand>>

\* No timeout here: the answer comes, or the connection is closed.
send_control_command_reply(c) ==
    LET d == client[c].conn
        n == client[c].name
    IN  /\ client[c].pc = "create reply"
        /\ \/ /\ daemon[d].ctl = "accept"
              /\ daemon' = [daemon EXCEPT ![d].table = handle_control_connection("CREATE", n, @)]
              /\ prepared' = [prepared EXCEPT ![n] =
                    IF client[c].asked # None THEN [daemon |-> d, port |-> client[c].port] ELSE None]
           \/ /\ d \notin Listening
              /\ UNCHANGED <<daemon, prepared>>
        /\ goto(c, Idle)
        /\ UNCHANGED <<sock, foreign, alone, started, byhand>>
-----------------------------------------------------------------------------
ClientStep(c) ==
    \/ get_dns_port(c)
    \/ get_dns_port_reply(c)
    \/ ensure_rootless_dns_daemon(c)
    \/ setup_resources(c)
    \/ send_control_command(c)
    \/ send_control_command_reply(c)

Next ==
    \/ \E d \in Daemons :
        \/ run_control_server(d)
        \/ run_dns_proxy(d)
        \/ killed(d)
    \/ \E port \in Ports : start_by_hand(port)
    \/ \E n \in Names :
        \/ ipset("CREATE", n)
        \/ ipset("REMOVE", n)
        \/ \E c \in Clients : prepare_network(c, n)
    \/ \E c \in Clients : ClientStep(c)

\* Processes and tasks that can go on do.  Nobody has to start or kill one.
Fairness ==
    /\ \A d \in Daemons : WF_vars(run_control_server(d)) /\ WF_vars(run_dns_proxy(d))
    /\ \A c \in Clients : WF_vars(ClientStep(c))

Spec == Init /\ [][Next]_vars /\ Fairness
-----------------------------------------------------------------------------
(* Properties *)

\* The README's claim that the daemon listens for commands: when no daemon is
\* starting, the path of the socket leads to the one that runs.
DaemonReachable ==
    Starting = {} =>
        \A d \in Running : sock = d /\ daemon[d].ctl = "accept"

\* It is true of a daemon beside which no other ran: once up, it owns the path
\* of the socket, whatever files it found there of daemons that were killed or
\* ended for want of a DNS port.
LoneDaemonReachable ==
    \A d \in (Running \cap alone) \ Starting : sock = d /\ daemon[d].ctl = "accept"

\* After a successful preparation the daemon that took the policy has it, until
\* it ends or is told otherwise.  If no other ran beside it, it also serves the
\* DNS port that the firewall rules lead to, although it was asked for the port
\* over another connection, before it had bound that port, and maybe started
\* by the preparation itself.  Not so if the daemon that was asked ended before
\* the policy was sent: the next one may have another port.
PolicyServed ==
    \A n \in Names : prepared[n] # None =>
        LET d == daemon[prepared[n].daemon] IN
        /\ n \in d.table
        /\ prepared[n].daemon \in alone => d.dns = "serve" /\ d.port = prepared[n].port

\* A preparation for Podman gives up on the daemon it started only if that was
\* killed, or ran beside another one, or if the default port is somebody
\* else's.  Stale socket files, and daemons on their way out, are got over.  A
\* daemon that was just started, with `&`, and that the first question missed,
\* is not: it is the other one then, and the two fight over socket and port.
GivesUpForCause ==
    [][\A c \in Clients :
        /\ RuntimeOf[c] = "podman"
        /\ client[c].pc \in {"info", "info reply"} /\ client'[c].pc = "idle"
        => client[c].mine = None \/ client[c].mine \notin alone \/ DefaultPort \in foreign]_vars

\* Every prepare-network comes to an end, however daemons start, fail to
\* start and are killed.
PreparationEnds ==
    \A c \in Clients : client[c].pc # "idle" ~> client[c].pc = "idle"
=============================================================================
