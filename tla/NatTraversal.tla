---------------------------- MODULE NatTraversal ----------------------------
(* NAT traversal (network/nat): the port mappings of NATManager over the     *)
(* UPnP client and the gateway, hole punching with the coordinator that      *)
(* waits for the remote endpoint, and STUN bindings.  The three parts share  *)
(* no state, but the cleanup() of mappings ends by stopping the other two.   *)
EXTENDS Integers, FiniteSets, Functions

CONSTANTS Ports, Protocols,
          Calls,          \* callers of each part
          maxPunches,
          MaxCalls        \* calls in a behaviour (bound of the model)

VARIABLES found,          \* the UPnP client's _gateway is known
          listed,         \* NATManager's _mappings: port |-> protocol
          known,          \* the UPnP client's _mappings, <<port, protocol>>
          gateway,        \* what the gateway maps
          mapper,         \* what each call on mappings is waiting for
          calls,          \* calls made
          sockets,        \* state of the socket of each punch
          current,        \* HolePuncher's _socket: a punch, 0 for null
          isPunching, attempts,
          punch,          \* what each punchUDP() and coordinate() came to
          remoteInfo,     \* the coordinator knows the remote endpoint
          stun,           \* [running, open]: STUNClient and its sockets
          asks            \* what each getPublicIP() or detect() waits for

mapVars == <<found, listed, known, gateway, mapper>>
punchVars == <<sockets, current, isPunching, attempts, punch, remoteInfo>>
stunVars == <<stun, asks>>
vars == <<mapVars, punchVars, stunVars, calls>>

Idle == [op |-> "idle"]

Init ==
    /\ found = FALSE /\ listed = <<>> /\ known = {} /\ gateway = {}
    /\ mapper = [c \in Calls |-> Idle]
    /\ calls = 0
    /\ sockets = [c \in Calls |-> "none"] /\ current = 0
    /\ isPunching = FALSE /\ attempts = 0
    /\ punch = [c \in Calls |-> "idle"] /\ remoteInfo = FALSE
    /\ stun = [running |-> FALSE, current |-> 0, open |-> {}]
    /\ asks = [c \in Calls |-> "idle"]

Called == calls < MaxCalls /\ calls' = calls + 1

-----------------------------------------------------------------------------
(* Hole punching: one HolePuncher for all calls, with one _socket *)

\* punchUDP() replaces the socket of the punch before; "bound" follows later.
Punch(c) ==
    /\ punch' = [punch EXCEPT ![c] = "pending"]
    /\ sockets' = [sockets EXCEPT ![c] = "open"]
    /\ current' = c
    /\ UNCHANGED <<isPunching, attempts>>

punchUDP(c) == punch[c] = "idle" /\ Punch(c) /\ UNCHANGED remoteInfo

\* coordinate(): the remote endpoint is waited for unless it is known.
coordinate(c) ==
    /\ punch[c] = "idle"
    /\ IF remoteInfo THEN Punch(c)
       ELSE /\ punch' = [punch EXCEPT ![c] = "waiting"]
            /\ UNCHANGED <<sockets, current, isPunching, attempts>>
    /\ UNCHANGED remoteInfo

\* The endpoint arrives: calls that wait for it go on, each in its turn.
Endpoint ==
    /\ remoteInfo' = TRUE
    /\ UNCHANGED <<sockets, current, isPunching, attempts, punch>>

Resume(c) ==
    /\ remoteInfo /\ punch[c] = "waiting"
    /\ Punch(c) /\ UNCHANGED remoteInfo

EndpointTimesOut(c) ==
    /\ ~remoteInfo /\ punch[c] = "waiting"
    /\ punch' = [punch EXCEPT ![c] = "failed"]
    /\ UNCHANGED <<sockets, current, isPunching, attempts, remoteInfo>>

\* The bind callback starts the loop; each round sends one packet.
StartPunching(c) ==
    /\ punch[c] = "pending" /\ sockets[c] = "open"
    /\ sockets' = [sockets EXCEPT ![c] = "punching"]
    /\ isPunching' = TRUE /\ attempts' = 1
    /\ UNCHANGED <<current, punch, remoteInfo>>

PunchLoop ==
    /\ isPunching /\ attempts < maxPunches
    /\ attempts' = attempts + 1
    /\ UNCHANGED <<sockets, current, isPunching, punch, remoteInfo>>

\* A packet from the target, or an error of the socket.
Settles(c, how) ==
    /\ punch[c] = "pending" /\ sockets[c] \notin {"none", "closed"}
    /\ punch' = [punch EXCEPT ![c] = how]
    /\ isPunching' = FALSE
    /\ UNCHANGED <<sockets, current, attempts, remoteInfo>>

\* close() on _socket, which throws if that socket is closed.
ClosesTwice == current # 0 /\ sockets[current] = "closed"

CloseCurrent ==
    sockets' = IF current = 0 THEN sockets ELSE [sockets EXCEPT ![current] = "closed"]

\* The timeout of one punch closes the socket of the latest; if it throws, the
\* promise is left pending.
PunchTimesOut(c) ==
    /\ punch[c] = "pending"
    /\ isPunching' = FALSE
    /\ punch' = [punch EXCEPT ![c] = IF ClosesTwice THEN "thrown" ELSE "failed"]
    /\ CloseCurrent
    /\ UNCHANGED <<current, attempts, remoteInfo>>

stop ==
    /\ isPunching' = FALSE
    /\ CloseCurrent
    /\ current' = IF ClosesTwice THEN current ELSE 0
    /\ UNCHANGED <<attempts, punch, remoteInfo>>

PunchNext ==
    /\ \/ \E c \in Calls :
            \/ punchUDP(c) \/ coordinate(c) \/ Resume(c) \/ EndpointTimesOut(c)
            \/ StartPunching(c) \/ PunchTimesOut(c)
            \/ \E how \in {"connected", "failed"} : Settles(c, how)
       \/ PunchLoop \/ Endpoint \/ stop
    /\ UNCHANGED calls

-----------------------------------------------------------------------------
(* STUN: start(), one binding request, stop().  Requests are kept under the  *)
(* Buffer of their transaction and looked for under its hexadecimal text:    *)
(* no answer finds its request, which ends by its timeout or by a stop().    *)

Asks(c, s) == asks' = [asks EXCEPT ![c] = s]

start(c) ==
    /\ asks[c] = "idle" /\ Called
    /\ IF stun.running THEN Asks(c, "asking") /\ UNCHANGED stun
       ELSE /\ Asks(c, "starting")
            /\ stun' = [stun EXCEPT !.current = calls + 1, !.open = @ \cup {calls + 1}]

Started(c) ==
    /\ asks[c] = "starting"
    /\ Asks(c, "asking")
    /\ stun' = [stun EXCEPT !.running = TRUE]

\* stop(): every request is rejected, and the socket is closed; running until
\* the callback of close(), which throws if it is called again meanwhile.
StunCloses(callers) ==
    /\ asks' = [c \in Calls |-> IF c \in callers THEN "stopping"
                               ELSE IF asks[c] = "asking" THEN "rejected" ELSE asks[c]]
    /\ stun' = [stun EXCEPT !.open = @ \ {stun.current}]

\* The stop() in the finally of a call whose request has ended.
StunStop(c) ==
    /\ asks[c] \in {"asking", "rejected"}
    /\ IF stun.running THEN StunCloses({c}) ELSE Asks(c, "done") /\ UNCHANGED stun

StunClosed ==
    /\ stun.running /\ stun.current \notin stun.open
    /\ stun' = [stun EXCEPT !.running = FALSE]
    /\ asks' = [c \in Calls |-> IF asks[c] = "stopping" THEN "done" ELSE asks[c]]

StunNext == \/ StunClosed /\ UNCHANGED calls
            \/ \E c \in Calls : \/ start(c)
                                \/ (Started(c) \/ StunStop(c)) /\ UNCHANGED calls

-----------------------------------------------------------------------------
(* Mappings.  A call discovers the gateway unless it is known, sends one     *)
(* SOAP request, and the answer may be lost after the gateway has done it.   *)

Mapper(c, m) == mapper' = [mapper EXCEPT ![c] = m]

createMapping(c, port, protocol) ==
    /\ mapper[c] = Idle /\ Called
    /\ Mapper(c, [op |-> "add", key |-> <<port, protocol>>, rest |-> {}])
    /\ UNCHANGED <<found, listed, known, gateway>>

\* removeMapping(): the port decides, whichever protocol it is listed with.
removeMapping(c, port, protocol) ==
    /\ mapper[c] = Idle /\ Called
    /\ port \in DOMAIN listed
    /\ Mapper(c, [op |-> "delete", key |-> <<port, protocol>>, rest |-> {}])
    /\ UNCHANGED <<found, listed, known, gateway>>

\* The next mapping of cleanup(), which iterates over the live map.  After the
\* last one the puncher is stopped, and the STUN client if that did not throw.
Clean(c, left) ==
    IF left = <<>>
    THEN /\ Mapper(c, [op |-> "cleaned"])
         /\ stop
         /\ IF ~ClosesTwice /\ stun.running THEN StunCloses({})
            ELSE UNCHANGED stunVars
    ELSE /\ \E port \in DOMAIN left :
              Mapper(c, [op |-> "delete", key |-> <<port, left[port]>>, rest |-> {"clean"}])
         /\ UNCHANGED <<punchVars, stunVars>>

cleanup(c) ==
    /\ mapper[c] = Idle /\ Called
    /\ Clean(c, listed)
    /\ UNCHANGED <<found, listed, known, gateway>>

\* discoverGateway() times out, or the gateway refuses or is not reached:
\* cleanup() gives the rest up.
RequestFails(c) ==
    /\ mapper[c].op \in {"add", "delete"}
    /\ Mapper(c, Idle)
    /\ UNCHANGED <<listed, known, gateway>> /\ found' \in {found, TRUE}

GatewayActs(c) ==
    /\ mapper[c].op \in {"add", "delete"}
    /\ found' = TRUE
    /\ gateway' = IF mapper[c].op = "add" THEN gateway \cup {mapper[c].key}
                  ELSE gateway \ {mapper[c].key}
    /\ Mapper(c, [mapper[c] EXCEPT !.op = IF @ = "add" THEN "added" ELSE "deleted"])
    /\ UNCHANGED <<listed, known>>

AnswerIsLost(c) ==
    /\ mapper[c].op \in {"added", "deleted"}
    /\ Mapper(c, Idle)
    /\ UNCHANGED <<found, listed, known, gateway>>

\* Faulty variant: the entry of another protocol goes, its own stays.
UnlistedOther(key) ==
    Restrict(listed, {port \in DOMAIN listed : port # key[1] \/ listed[port] = key[2]})

Unlisted(key) == Restrict(listed, DOMAIN listed \ {key[1]})

Answered(c) ==
    LET key == mapper[c].key
    IN \/ /\ mapper[c].op = "added"
          /\ known' = known \cup {key}
          /\ listed' = [port \in DOMAIN listed \cup {key[1]} |->
                         IF port = key[1] THEN key[2] ELSE listed[port]]
          /\ Mapper(c, Idle)
          /\ UNCHANGED <<punchVars, stunVars>>
       \/ /\ mapper[c].op = "deleted"
          /\ known' = known \ {key}
          /\ listed' = Unlisted(key)
          /\ IF mapper[c].rest = {} THEN Mapper(c, Idle) /\ UNCHANGED <<punchVars, stunVars>>
             ELSE Clean(c, listed')
    /\ UNCHANGED <<found, gateway>>

\* Mappings are leased, and gateways restart.
GatewayForgets(key) ==
    /\ gateway' = gateway \ {key}
    /\ UNCHANGED <<found, listed, known, mapper>>

MapNext ==
    \/ \E c \in Calls :
         \/ cleanup(c)
         \/ Answered(c) /\ UNCHANGED calls
         \/ /\ \E port \in Ports, protocol \in Protocols :
                createMapping(c, port, protocol) \/ removeMapping(c, port, protocol)
            /\ UNCHANGED <<punchVars, stunVars>>
         \/ /\ RequestFails(c) \/ GatewayActs(c) \/ AnswerIsLost(c)
            /\ UNCHANGED <<punchVars, stunVars, calls>>
    \/ \E key \in gateway : GatewayForgets(key) /\ UNCHANGED <<punchVars, stunVars, calls>>

-----------------------------------------------------------------------------
Next == \/ MapNext
        \/ PunchNext /\ UNCHANGED <<mapVars, stunVars>>
        \/ StunNext /\ UNCHANGED <<mapVars, punchVars>>

Spec == Init /\ [][Next]_vars

TypeOK ==
    /\ DOMAIN listed \subseteq Ports /\ Range(listed) \subseteq Protocols
    /\ known \subseteq Ports \X Protocols /\ gateway \subseteq Ports \X Protocols
    /\ attempts \in 0..maxPunches
    /\ current \in Calls \cup {0} /\ current # 0 => sockets[current] # "none"
    /\ \A c \in Calls : punch[c] \in {"pending", "connected"} => sockets[c] # "none"

\* Whatever calls on mappings overlap and whatever requests and answers are
\* lost, a mapping the manager lists is one the UPnP client still knows, so
\* that it can be removed.
ListedIsKnown == \A port \in DOMAIN listed : <<port, listed[port]>> \in known

\* cleanup() is written to "Remove all mappings" (network/nat/index.js:254).
CleanupRemovesAll ==
    [][\A c \in Calls : mapper'[c].op = "cleaned" /\ mapper[c].op # "cleaned" => known' = {}]_vars

=============================================================================
