------------------------------- MODULE AgentBridge -------------------------------
(***************************************************************************)
(* The local channel between the desktop and an agent's MCP process: the   *)
(* listener and its connection threads (agent_bridge.rs), the client side  *)
(* with its reconnecting and pairing (tarik-mcp: bridge.rs, server.rs,     *)
(* main.rs), and of agent_access.rs what pairing and leases look like from *)
(* a connection.                                                           *)
(*                                                                         *)
(* The MCP process runs one tool call or heartbeat at a time, under the    *)
(* lock of its state.  A frame sent, a frame handled and an answer written *)
(* are steps; either side may be gone, late or stopped between them.       *)
(***************************************************************************)
EXTENDS Naturals, Sequences, FiniteSets

CONSTANTS
    Instances,          \* starts of the bridge, ids used once
    Streams,            \* transport connections, ids used once
    Profiles,           \* client profiles, ids used once
    NoInstance, NoStream, NoProfile,
    ConnectionLimit,    \* MAX_TRANSPORT_CONNECTIONS, MAX_CONNECTIONS
    Numbers,            \* bound: requests are numbered modulo this
    CommandLimit,       \* bound: commands of the user
    UpsetLimit          \* bound: crashes, expiries, delays beyond a timeout, refusals of the system

VARIABLES
    up, enabled,        \* the desktop runs; the stored setting
    desk,               \* what the desktop's thread is in: idle, starting, joining
    runtime, stopping,  \* `runtime`, and the instance whose stop flag is set
    listener,           \* none, listening, failed (left its loop), ended
    ready, descriptor,  \* `endpoint_ready`; the instance bridge.json names
    record,             \* what the desktop knows of a profile
    thread, server,     \* the connection thread of a stream, the instance it belongs to
    lease, named,       \* the connection record made on a stream, and its profile
    request, answers,   \* frames under way
    closed,             \* the client closed the stream
    bridge, fresh,      \* the client's stream, and the one it is connecting
    point, goal,        \* what the client waits for, and for which call
    asked,              \* number of the latest request
    pending, saved, authenticated, \* `pending_pairing`, the stored profile, the status
    commands, upsets

desktopVars == <<up, enabled, desk, runtime, stopping>>
endpoint == <<listener, ready, descriptor>>
leases == <<lease, named>>
frames == <<request, answers>>
wires == <<thread, server, frames, closed>>
clientVars == <<bridge, fresh, point, goal, asked, pending, saved, authenticated>>
bounds == <<commands, upsets>>
bridgeVars == <<desktopVars, endpoint, record, leases, wires, clientVars, bounds>>

NoRequest == <<0, "none", NoProfile>>
Verdicts == {"ok", "pairing", "challenge", "unknown", "unproved", "refused"}
Upset == upsets < UpsetLimit /\ upsets' = upsets + 1
Commanded == commands < CommandLimit /\ commands' = commands + 1
Alive(s) == thread[s] = "reading"
OfBridge(i) == {s \in Streams : server[s] = i}
Leased(s) == lease[s] \in {"challenged", "authenticated"}

BridgeTypeOK ==
    /\ up \in BOOLEAN /\ enabled \in BOOLEAN /\ ready \in BOOLEAN /\ authenticated \in BOOLEAN
    /\ desk \in {"idle", "starting", "joining"}
    /\ {runtime, stopping, descriptor} \subseteq Instances \cup {NoInstance}
    /\ listener \in [Instances -> {"none", "listening", "failed", "ended"}]
    /\ record \in [Profiles -> {"none", "requested", "approving", "paired", "gone"}]
    /\ thread \in [Streams -> {"none", "backlog", "reading", "ended"}]
    /\ server \in [Streams -> Instances \cup {NoInstance}]
    /\ lease \in [Streams -> {"none", "challenged", "authenticated", "gone"}]
    /\ named \in [Streams -> Profiles \cup {NoProfile}]
    /\ request \in [Streams -> (0..(Numbers - 1)) \X {"none", "hello", "prove", "call", "beat"} \X (Profiles \cup {NoProfile})]
    /\ answers \in [Streams -> Seq((0..(Numbers - 1)) \X Verdicts \X (Profiles \cup {NoProfile}))]
    /\ closed \subseteq Streams /\ {bridge, fresh} \subseteq Streams \cup {NoStream}
    /\ point \in {"idle", "hello", "proving", "finishing", "calling", "beating"}
    /\ goal \in {"none", "call", "beat", "refresh"} /\ asked \in 0..(Numbers - 1)
    /\ {pending, saved} \subseteq Profiles \cup {NoProfile}
    /\ commands \in 0..CommandLimit /\ upsets \in 0..UpsetLimit

BridgeInit ==
    /\ up = TRUE /\ enabled = FALSE /\ desk = "idle" /\ ready = FALSE
    /\ runtime = NoInstance /\ stopping = NoInstance /\ descriptor = NoInstance
    /\ listener = [i \in Instances |-> "none"] /\ record = [p \in Profiles |-> "none"]
    /\ thread = [s \in Streams |-> "none"] /\ server = [s \in Streams |-> NoInstance]
    /\ lease = [s \in Streams |-> "none"] /\ named = [s \in Streams |-> NoProfile]
    /\ request = [s \in Streams |-> NoRequest] /\ answers = [s \in Streams |-> <<>>]
    /\ closed = {} /\ bridge = NoStream /\ fresh = NoStream
    /\ point = "idle" /\ goal = "none" /\ asked = 0
    /\ pending = NoProfile /\ saved = NoProfile /\ authenticated = FALSE
    /\ commands = 0 /\ upsets = 0

--------------------------------------------------------------------------------
(* The desktop's thread: enabling, disabling, pairing.                     *)

\* set_enabled(false): what agents hold ends, the requests to pair are forgotten.
Disabled ==
    /\ enabled' = FALSE /\ ready' = FALSE
    /\ lease' = [s \in Streams |-> IF Leased(s) THEN "gone" ELSE lease[s]]
    /\ record' = [p \in Profiles |-> IF record[p] = "requested" THEN "gone" ELSE record[p]]

\* set_agent_access_enabled(true): the setting first, then the bridge.
Enable ==
    /\ up /\ desk = "idle" /\ Commanded
    /\ enabled' = TRUE /\ desk' = "starting"
    /\ UNCHANGED <<up, runtime, stopping, endpoint, record, leases, wires, clientVars, upsets>>

\* start finds a runtime: it answers with the descriptor, or fails without one.
StartAgain ==
    /\ up /\ desk = "starting" /\ runtime # NoInstance /\ desk' = "idle"
    /\ \/ descriptor # NoInstance /\ UNCHANGED <<enabled, ready, lease, record>>
       \/ descriptor = NoInstance /\ Disabled
    /\ UNCHANGED <<up, runtime, stopping, listener, descriptor, named, wires, clientVars, bounds>>

\* start: stale files go, a listener is bound, the descriptor is written.
StartBridge ==
    /\ up /\ desk = "starting" /\ runtime = NoInstance /\ desk' = "idle"
    /\ \E i \in Instances :
        /\ listener[i] = "none"
        /\ runtime' = i /\ descriptor' = i /\ ready' = TRUE
        /\ listener' = [listener EXCEPT ![i] = "listening"]
    /\ UNCHANGED <<up, enabled, stopping, record, leases, wires, clientVars, bounds>>

\* The address cannot be bound, or the listener's thread is refused: in the second
\* case the descriptor is on disk already.
StartFails ==
    /\ up /\ desk = "starting" /\ runtime = NoInstance /\ Upset /\ desk' = "idle"
    /\ \/ descriptor' = NoInstance /\ UNCHANGED listener
       \/ \E i \in Instances : listener[i] = "none" /\ descriptor' = i /\ listener' = [listener EXCEPT ![i] = "ended"]
    /\ Disabled
    /\ UNCHANGED <<up, runtime, stopping, named, wires, clientVars, commands>>

\* set_agent_access_enabled(false): stop takes the runtime and waits for its threads, ...
Disable ==
    /\ up /\ desk = "idle" /\ Commanded
    /\ stopping' = runtime /\ runtime' = NoInstance /\ desk' = "joining"
    /\ UNCHANGED <<up, enabled, endpoint, record, leases, wires, clientVars, upsets>>

Detached == TRUE                                                        \* mutant: nobody joins the listener
Joined == stopping # NoInstance => listener[stopping] = "ended"

\* ... which joined theirs; the files go, then the setting.
FinishStop ==
    /\ up /\ desk = "joining" /\ Joined
    /\ desk' = "idle" /\ stopping' = NoInstance /\ descriptor' = NoInstance
    /\ Disabled
    /\ UNCHANGED <<up, runtime, listener, named, wires, clientVars, bounds>>

\* approve_pairing takes the request out under the lock, ...
ApprovePairing(p) ==
    /\ up /\ desk = "idle" /\ record[p] = "requested" /\ Commanded
    /\ record' = [record EXCEPT ![p] = "approving"]
    /\ UNCHANGED <<desktopVars, endpoint, leases, wires, clientVars, upsets>>

\* ... and writes the client's row after it.
Pair(p) ==
    /\ up /\ record[p] = "approving" /\ record' = [record EXCEPT ![p] = "paired"]
    /\ UNCHANGED <<desktopVars, endpoint, leases, wires, clientVars, bounds>>

\* deny_pairing, revoke_client: the connections made for the profile end.
Refuse(p) ==
    /\ up /\ desk = "idle" /\ record[p] \in {"requested", "paired"} /\ Commanded
    /\ record' = [record EXCEPT ![p] = "gone"]
    /\ lease' = [s \in Streams |-> IF named[s] = p /\ Leased(s) THEN "gone" ELSE lease[s]]
    /\ UNCHANGED <<desktopVars, endpoint, named, wires, clientVars, upsets>>

\* prune and the reaper: a request to pair after five minutes, a challenge after one,
\* a lease whose client sends no heartbeats after two.
Expire ==
    /\ up /\ Upset
    /\ \/ /\ \E p \in Profiles : record[p] = "requested" /\ record' = [record EXCEPT ![p] = "gone"]
          /\ UNCHANGED lease
       \/ /\ \E s \in Streams :
               /\ lease[s] = "challenged" \/ (lease[s] = "authenticated" /\ bridge # s)
               /\ lease' = [lease EXCEPT ![s] = "gone"]
          /\ UNCHANGED record
    /\ UNCHANGED <<desktopVars, endpoint, named, wires, clientVars, commands>>

\* The desktop is killed: its threads, connections and requests go, its files stay.
Crash ==
    /\ up /\ Upset /\ up' = FALSE
    /\ desk' = "idle" /\ runtime' = NoInstance /\ stopping' = NoInstance /\ ready' = FALSE
    /\ listener' = [i \in Instances |-> IF listener[i] = "none" THEN "none" ELSE "ended"]
    /\ thread' = [s \in Streams |-> IF thread[s] = "none" THEN "none" ELSE "ended"]
    /\ lease' = [s \in Streams |-> IF Leased(s) THEN "gone" ELSE lease[s]]
    /\ record' = [p \in Profiles |-> IF record[p] \in {"requested", "approving"} THEN "gone" ELSE record[p]]
    /\ UNCHANGED <<enabled, descriptor, named, server, frames, closed, clientVars, commands>>

\* start_if_enabled of the next launch.
Restart ==
    /\ ~up /\ up' = TRUE /\ desk' = IF enabled THEN "starting" ELSE "idle"
    /\ UNCHANGED <<enabled, runtime, stopping, endpoint, record, leases, wires, clientVars, bounds>>

--------------------------------------------------------------------------------
(* The listener and its connection threads.                                *)

\* run_listener: one stream too many is closed as soon as it is accepted.
Accept(s) ==
    /\ thread[s] = "backlog" /\ listener[server[s]] = "listening" /\ stopping # server[s]
    /\ thread' = [thread EXCEPT ![s] =
         IF Cardinality({t \in OfBridge(server[s]) : Alive(t)}) < ConnectionLimit THEN "reading" ELSE "ended"]
    /\ UNCHANGED <<desktopVars, endpoint, record, leases, server, frames, closed, clientVars, bounds>>

\* accept fails: the loop ends, the connections it has go on.
AcceptFails(i) ==
    /\ listener[i] = "listening" /\ Upset
    /\ listener' = [listener EXCEPT ![i] = "failed"]
    /\ UNCHANGED <<desktopVars, ready, descriptor, record, leases, wires, clientVars, commands>>

\* The end of run_listener: every connection joined, the endpoint taken down.
ListenerEnds(i) ==
    /\ listener[i] = "failed" \/ (listener[i] = "listening" /\ stopping = i)
    /\ \A s \in OfBridge(i) : ~Alive(s)
    /\ listener' = [listener EXCEPT ![i] = "ended"]
    /\ ready' = FALSE /\ descriptor' = NoInstance
    /\ thread' = [s \in Streams |-> IF s \in OfBridge(i) /\ thread[s] = "backlog" THEN "ended" ELSE thread[s]]
    /\ UNCHANGED <<desktopVars, record, leases, server, frames, closed, clientVars, bounds>>

\* What hello does with a profile, and answers: the verdict and the profile.
HelloVerdict(s, p) ==
    IF ~enabled \/ Cardinality({t \in Streams : Leased(t)}) >= ConnectionLimit THEN "refused"
    ELSE IF p = NoProfile \/ record[p] = "requested" THEN "pairing"
    ELSE IF record[p] = "paired" THEN "challenge" ELSE "unknown"

NewProfile == CHOOSE p \in Profiles : record[p] = "none"

DispatchHello(s, n, p) ==
    LET verdict == HelloVerdict(s, p)
        q == IF p = NoProfile THEN NewProfile ELSE p
    IN  /\ (p = NoProfile => \E r \in Profiles : record[r] = "none")
        /\ answers' = [answers EXCEPT ![s] = Append(@, <<n, verdict, q>>)]
        /\ IF verdict \in {"pairing", "challenge"}
           THEN /\ lease' = [lease EXCEPT ![s] = "challenged"] /\ named' = [named EXCEPT ![s] = q]
                /\ record' = [record EXCEPT ![q] = IF @ = "none" THEN "requested" ELSE @]
           ELSE UNCHANGED <<leases, record>>

\* authenticate: the profile is paired, the challenge still known.
DispatchProof(s, n, p) ==
    LET proved == record[p] = "paired" /\ Leased(s) IN
    /\ lease' = [lease EXCEPT ![s] = IF proved THEN "authenticated" ELSE @]
    /\ answers' = [answers EXCEPT ![s] = Append(@, <<n, IF proved THEN "ok" ELSE "unproved", p>>)]
    /\ UNCHANGED <<named, record>>

\* Every other request asks for the lease.
DispatchCall(s, n, p) ==
    /\ answers' = [answers EXCEPT ![s] =
         Append(@, <<n, IF lease[s] = "authenticated" THEN "ok" ELSE "refused", p>>)]
    /\ UNCHANGED <<leases, record>>

\* handle_connection reads a frame, dispatches it and writes the answer.
Handle(s) ==
    LET n == request[s][1]
        kind == request[s][2]
        p == request[s][3]
    IN  /\ thread[s] = "reading" /\ kind # "none" /\ stopping # server[s]
        /\ \/ kind = "hello" /\ DispatchHello(s, n, p)
           \/ kind = "prove" /\ DispatchProof(s, n, p)
           \/ kind \in {"call", "beat"} /\ DispatchCall(s, n, p)
        /\ request' = [request EXCEPT ![s] = NoRequest]
        /\ UNCHANGED <<desktopVars, endpoint, thread, server, closed, clientVars, bounds>>

\* A frame that arrives in pieces 250 ms apart: the first piece is lost, the rest
\* is no request, and answered as such.
HandleTorn(s) ==
    /\ thread[s] = "reading" /\ request[s][2] # "none" /\ stopping # server[s] /\ Upset
    /\ answers' = [answers EXCEPT ![s] = Append(@, <<request[s][1], "refused", NoProfile>>)]
    /\ request' = [request EXCEPT ![s] = NoRequest]
    /\ UNCHANGED <<desktopVars, endpoint, record, leases, thread, server, closed, clientVars, commands>>

\* The thread ends: at the end of the stream it disconnects what it owns, after a
\* failed read or write, and after a read that times out while the bridge stops, not.
EndThread(s) ==
    /\ thread[s] = "reading"
    /\ stopping = server[s] \/ (s \in closed /\ request[s][2] = "none")
    /\ thread' = [thread EXCEPT ![s] = "ended"]
    /\ \/ lease' = [lease EXCEPT ![s] = IF Leased(s) THEN "gone" ELSE @]
       \/ (stopping = server[s] \/ answers[s] # <<>>) /\ UNCHANGED lease
    /\ UNCHANGED <<desktopVars, endpoint, record, named, server, frames, closed, clientVars, bounds>>

--------------------------------------------------------------------------------
(* The MCP process.                                                        *)

Current == bridge # NoStream /\ descriptor = server[bridge]      \* endpoint_is_current

\* request writes one frame and waits for one line.
Send(s, kind, p) ==
    /\ asked' = (asked + 1) % Numbers
    /\ request' = [request EXCEPT ![s] = <<asked', kind, p>>]
Closing(S) == closed' = closed \cup (S \ {NoStream})
Rest == point' = "idle" /\ goal' = "none"

\* A tool call, a heartbeat or tarik_server_info with refresh: with a lease the
\* request goes out at once (ensure_authenticated_bridge), ...
Call(kind) ==
    /\ point = "idle" /\ kind # "refresh" /\ Current /\ authenticated
    /\ goal' = kind /\ point' = IF kind = "beat" THEN "beating" ELSE "calling"
    /\ Send(bridge, kind, NoProfile)
    /\ UNCHANGED <<desktopVars, endpoint, record, leases, thread, server, answers, closed, bridge, fresh,
                   pending, saved, authenticated, bounds>>

\* ... a pairing that waits is tried again on its connection, ...
FinishPairing(kind) ==
    /\ point = "idle" /\ Current /\ pending # NoProfile
    /\ goal' = kind /\ point' = "finishing"
    /\ Send(bridge, "prove", pending)
    /\ UNCHANGED <<desktopVars, endpoint, record, leases, thread, server, answers, closed, bridge, fresh,
                   pending, saved, authenticated, bounds>>

\* ... and otherwise connect_state makes a connection; a bridge of another instance
\* is dropped first.
Connect(kind) ==
    /\ point = "idle" /\ ~(Current /\ pending # NoProfile) /\ (Current /\ authenticated => kind = "refresh")
    /\ bridge' = (IF Current THEN bridge ELSE NoStream)
    /\ pending' = (IF Current THEN pending ELSE NoProfile)
    /\ Closing(IF Current THEN {} ELSE {bridge})
    /\ IF up /\ descriptor # NoInstance /\ listener[descriptor] \in {"listening", "failed"}
       THEN /\ \E s \in Streams :
                /\ thread[s] = "none" /\ fresh' = s
                /\ thread' = [thread EXCEPT ![s] = "backlog"]
                /\ server' = [server EXCEPT ![s] = descriptor]
                /\ Send(s, "hello", saved)
            /\ goal' = kind /\ point' = "hello" /\ UNCHANGED authenticated
       ELSE /\ authenticated' = FALSE
            /\ UNCHANGED <<thread, server, request, fresh, goal, point, asked>>
    /\ UNCHANGED <<desktopVars, endpoint, record, leases, answers, saved, bounds>>

Waiting == IF point \in {"hello", "proving"} THEN fresh ELSE bridge
Answered == answers[Waiting] # <<>>
Verdict == Head(answers[Waiting])[2]
Subject == Head(answers[Waiting])[3]
Consumed == answers' = [answers EXCEPT ![Waiting] = Tail(@)]

\* hello wants the user's decision: the profile is stored, the pairing waits.
GotPairing ==
    /\ point = "hello" /\ Answered /\ Verdict = "pairing" /\ Consumed
    /\ bridge' = fresh /\ fresh' = NoStream /\ Closing({bridge})
    /\ pending' = Subject /\ saved' = Subject /\ authenticated' = FALSE /\ Rest
    /\ UNCHANGED <<desktopVars, endpoint, record, leases, thread, server, request, asked, bounds>>

\* The stored profile is revoked: a new pairing begins on the same connection.
GotUnknown ==
    /\ point = "hello" /\ Answered /\ Verdict = "unknown" /\ Consumed
    /\ Send(fresh, "hello", NoProfile)
    /\ UNCHANGED <<desktopVars, endpoint, record, leases, thread, server, closed, bridge, fresh, point, goal,
                   pending, saved, authenticated, bounds>>

GotChallenge ==
    /\ point = "hello" /\ Answered /\ Verdict = "challenge" /\ Consumed
    /\ Send(fresh, "prove", saved) /\ point' = "proving"
    /\ UNCHANGED <<desktopVars, endpoint, record, leases, thread, server, closed, bridge, fresh, goal,
                   pending, saved, authenticated, bounds>>

\* Authenticated: a refresh is done, a call goes out.
Onward(s) ==
    IF goal = "refresh" THEN Rest /\ UNCHANGED <<asked, request>>
    ELSE /\ Send(s, goal, NoProfile) /\ UNCHANGED goal
         /\ point' = IF goal = "beat" THEN "beating" ELSE "calling"

GotLease ==
    /\ point \in {"proving", "finishing"} /\ Answered /\ Verdict = "ok" /\ Consumed
    /\ bridge' = Waiting /\ fresh' = NoStream /\ Closing({bridge} \ {Waiting})
    /\ pending' = NoProfile /\ authenticated' = TRUE
    /\ saved' = IF point = "finishing" THEN pending ELSE saved
    /\ Onward(Waiting)
    /\ UNCHANGED <<desktopVars, endpoint, record, leases, thread, server, bounds>>

\* pairing_still_pending: not paired, or the connection is not known, keeps the pairing.
StillPending ==
    /\ point = "finishing" /\ Answered /\ Verdict = "unproved" /\ Consumed
    /\ authenticated' = FALSE /\ Rest
    /\ UNCHANGED <<desktopVars, endpoint, record, leases, thread, server, request, closed, bridge, fresh,
                   asked, pending, saved, bounds>>

\* A call's answer: an error of the desktop leaves the connection, ...
GotAnswer ==
    /\ point = "calling" /\ Answered /\ Consumed /\ Rest
    /\ UNCHANGED <<desktopVars, endpoint, record, leases, thread, server, request, closed, bridge, fresh,
                   asked, pending, saved, authenticated, bounds>>

GotBeat ==
    /\ point = "beating" /\ Answered /\ Verdict = "ok" /\ Consumed /\ Rest
    /\ UNCHANGED <<desktopVars, endpoint, record, leases, thread, server, request, closed, bridge, fresh,
                   asked, pending, saved, authenticated, bounds>>

\* ... an error while connecting drops the new connection, ...
ConnectFails ==
    /\ point \in {"hello", "proving"}
    /\ \/ Answered /\ Verdict \in {"refused", "unproved"} /\ UNCHANGED upsets
       \/ ~Answered /\ thread[fresh] = "ended" /\ UNCHANGED upsets
       \/ ~Answered /\ thread[fresh] # "ended" /\ Upset
    /\ fresh' = NoStream /\ Closing({fresh}) /\ authenticated' = FALSE /\ Rest
    /\ UNCHANGED <<desktopVars, endpoint, record, leases, thread, server, frames, bridge, asked, pending, saved, commands>>

KeptBridge == /\ bridge' = (IF point = "calling" THEN bridge ELSE NoStream)
              /\ Closing(IF point = "calling" THEN {} ELSE {bridge})     \* mutant: bridge_transport_failed forgets the timeout
DroppedBridge == bridge' = NoStream /\ Closing({bridge})

\* ... and a stream that ends, or does not answer in ten seconds, drops the bridge:
\* an answer that comes later has nobody to read it.
TransportFails ==
    /\ point \in {"finishing", "calling", "beating"}
    /\ \/ ~Answered /\ thread[bridge] = "ended" /\ UNCHANGED upsets
       \/ ~Answered /\ thread[bridge] # "ended" /\ Upset
       \/ Answered /\ point \in {"finishing", "beating"} /\ Verdict = "refused" /\ UNCHANGED upsets
    /\ DroppedBridge
    /\ pending' = NoProfile /\ authenticated' = FALSE /\ Rest
    /\ UNCHANGED <<desktopVars, endpoint, record, leases, thread, server, frames, fresh, asked, saved, commands>>

\* The host starts another tarik-mcp: only the profile on disk is left.
RestartClient ==
    /\ Upset /\ Closing({bridge, fresh}) /\ Rest
    /\ bridge' = NoStream /\ fresh' = NoStream /\ pending' = NoProfile /\ authenticated' = FALSE
    /\ UNCHANGED <<desktopVars, endpoint, record, leases, thread, server, frames, asked, saved, commands>>

ClientStep ==
    \/ \E kind \in {"call", "beat", "refresh"} : Call(kind) \/ FinishPairing(kind) \/ Connect(kind)
    \/ GotPairing \/ GotUnknown \/ GotChallenge \/ GotLease \/ StillPending
    \/ GotAnswer \/ GotBeat \/ ConnectFails \/ TransportFails \/ RestartClient

ServerStep ==
    \/ \E s \in Streams : Accept(s) \/ Handle(s) \/ HandleTorn(s) \/ EndThread(s)
    \/ \E i \in Instances : AcceptFails(i) \/ ListenerEnds(i)

DesktopStep ==
    \/ Enable \/ StartAgain \/ StartBridge \/ StartFails \/ Disable \/ FinishStop
    \/ Expire \/ Crash \/ Restart
    \/ \E p \in Profiles : ApprovePairing(p) \/ Pair(p) \/ Refuse(p)

BridgeNext == ClientStep \/ ServerStep \/ DesktopStep
BridgeSpec == BridgeInit /\ [][BridgeNext]_bridgeVars

\* The heartbeat of main.rs, every 30 seconds, tries a waiting pairing again; a
\* connection's thread answers and the client reads what was answered.
BridgeFairSpec ==
    /\ BridgeSpec
    /\ WF_bridgeVars(FinishPairing("beat"))
    /\ WF_bridgeVars(\E s \in Streams : Accept(s) \/ Handle(s))
    /\ WF_bridgeVars(GotLease \/ StillPending \/ TransportFails)

--------------------------------------------------------------------------------
(* Properties.                                                             *)

\* bridge.rs request does not compare the id of an answer with its own: that every
\* frame under way on the connection the client uses belongs to the request it waits
\* for rests on dropping the connection after each call that failed on the way.
AnswersAreAsked ==
    \A s \in {bridge, fresh} \ {NoStream} :
        \A k \in 1..Len(answers[s]) : answers[s][k][1] = asked /\ point # "idle"

\* Once stop has returned nothing of the bridge is left: no listener or connection
\* thread, no endpoint, and bridge.json only as a crash or a failed start left it;
\* and what bridge.json names while a bridge runs is that bridge.
StoppedIsQuiet ==
    /\ runtime = NoInstance /\ desk # "joining" =>
         /\ ~ready /\ \A s \in Streams : ~Alive(s)
         /\ \A i \in Instances : listener[i] \in {"none", "ended"}
    /\ runtime # NoInstance => descriptor \in {runtime, NoInstance}

\* The answer to tarik_server_info while a pairing waits: "Approve the pending
\* pairing request in Tarik, then call tarik_server_info with refresh true." A
\* request lives for five minutes, the challenge of its connection for one: approved
\* after that, the pairing waits for as long as the connection lasts.
ApprovedPairingCompletes ==
    \A p \in Profiles :
        (pending = p /\ record[p] = "paired") ~> (authenticated \/ pending # p \/ record[p] # "paired")

================================================================================
