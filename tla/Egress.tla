------------------------------ MODULE Egress ------------------------------
(***************************************************************************)
(* The way out of a sandboxed session (egress.py and SessionEgress of      *)
(* orchestrator.py): each session of a chat has a proxy of its own with a  *)
(* grant store of its own, every CONNECT is judged by the host lists of    *)
(* the settings as they are then, its name is looked up once, and what was *)
(* looked up is dialled.  A proxy is stopped with the tunnels through it.  *)
(***************************************************************************)
EXTENDS Naturals, FiniteSets

CONSTANTS
    Tunnels,     \* the connections made to the proxies
    MaxEdits,    \* bound on edits of the settings
    MaxSessions  \* bound on the sessions of the chat

ASSUME EgressAssumption == MaxEdits \in Nat /\ MaxSessions \in Nat \ {0}

Lists == {"allow", "private", "never"}
\* A metadata endpoint, which is bundled, and a host only the operator may have listed.
NetHosts == {"meta", "repo"}
Bundled == [allow |-> {}, private |-> {}, never |-> {"meta"}]
\* What a lookup gives: nothing, addresses outside, addresses inside, or of both.
Lookups == SUBSET {"public", "loopback"}

VARIABLES
    asksHosts,  \* sandbox.egress asks, it is not "open"
    section,    \* the lists of the operator's settings that have the host "repo"
    editsDone,
    session,    \* of the chat, numbered
    proxyIs,    \* "up", or "stopping": stop waits for its handlers
    lists,      \* the proxy's own copy of the three lists
    granted,    \* hosts the session's store has a grant for
    tunnel,     \* each connection
    allowedBy,  \* ghost: per host, the session in which the operator approved it last
    withdrawn   \* ghost: hosts the proxy has seen withdrawn since they were approved

egressVars == <<asksHosts, section, editsDone, session, proxyIs, lists, granted, tunnel,
                allowedBy, withdrawn>>

NoTunnel == [at |-> "none", host |-> "repo", of |-> 0, private |-> FALSE, to |-> "none",
             by |-> "none", late |-> FALSE]

-----------------------------------------------------------------------------
(* The host lists.                                                         *)

\* _egress_hosts: bundled hosts and the operator's; a bad entry or key adds nothing.
HostsOf(k) == Bundled[k] \union (IF k \in section THEN {"repo"} ELSE {})
ReadLists == [k \in Lists |-> HostsOf(k)]

EgressInit ==
    /\ asksHosts \in BOOLEAN /\ section = {} /\ editsDone = 0 /\ session = 1 /\ proxyIs = "up"
    /\ lists = ReadLists /\ granted = {}
    /\ tunnel = [c \in Tunnels |-> NoTunnel]
    /\ allowedBy = [h \in NetHosts |-> 0] /\ withdrawn = {}

EditLists ==
    /\ editsDone < MaxEdits /\ editsDone' = editsDone + 1
    /\ \E k \in Lists : section' = IF k \in section THEN section \ {k} ELSE section \union {k}
    /\ UNCHANGED <<asksHosts, session, proxyIs, lists, granted, tunnel, allowedBy, withdrawn>>

\* Hosts a settings edit took from the allowed, or made ones never to ask about.
Removed == (lists["allow"] \ HostsOf("allow")) \union (HostsOf("never") \ lists["never"])

\* Mutant: the lists are read again and the grants are left alone.
GrantsKept == granted
\* _refresh_policy: the grants of a host that was removed go with it.
GrantsLeft == granted \ Removed

-----------------------------------------------------------------------------
(* A connection.                                                           *)

HangsUp(c) == tunnel' = [tunnel EXCEPT ![c] = [NoTunnel EXCEPT !.at = "closed"]]

\* The server accepts it; its handler is a task that has not begun.
Accepted(c) ==
    /\ proxyIs = "up" /\ tunnel[c].at = "none"
    /\ tunnel' = [tunnel EXCEPT ![c].at = "accepted", ![c].of = session]
    /\ UNCHANGED <<asksHosts, section, editsDone, session, proxyIs, lists, granted, allowedBy,
                   withdrawn>>

\* _handle: from here on stop finds it.
HandlerBegins(c) ==
    /\ tunnel[c].at = "accepted"
    /\ tunnel' = [tunnel EXCEPT ![c].at = "reading", ![c].late = (proxyIs = "stopping")]
    /\ UNCHANGED <<asksHosts, section, editsDone, session, proxyIs, lists, granted, allowedBy,
                   withdrawn>>

\* _serve, parse_connect_target: gone, too long, not CONNECT, or no target; it is refused.
BadRequest(c) ==
    /\ tunnel[c].at = "reading" /\ HangsUp(c)
    /\ UNCHANGED <<asksHosts, section, editsDone, session, proxyIs, lists, granted, allowedBy,
                   withdrawn>>

\* _permitted up to the lookup: the lists are read again, then the name is judged.
Judge(c, h) ==
    /\ tunnel[c].at = "reading"
    /\ lists' = ReadLists /\ granted' = GrantsLeft
    /\ withdrawn' = withdrawn \union Removed
    /\ IF h \in HostsOf("never") THEN HangsUp(c)
       ELSE tunnel' = [tunnel EXCEPT ![c].at = "lookup", ![c].host = h,
                                     ![c].private = (h \in HostsOf("private"))]
    /\ UNCHANGED <<asksHosts, section, editsDone, session, proxyIs, allowedBy>>

\* Mutant: a host that is allowed may be anywhere.
UsableIfAllowed(c, found) ==
    /\ found # {}
    /\ "loopback" \in found => tunnel[c].private \/ tunnel[c].host \in lists["allow"]
\* _resolve_public: one address that may not be reached spoils the answer.
Usable(c, found) == found # {} /\ ("loopback" \in found => tunnel[c].private)

\* The host is allowed by the lists as another connection may have left them, or the
\* operator is asked, unless the store has a grant.
LookedUp(c, found) ==
    /\ tunnel[c].at = "lookup"
    /\ LET h == tunnel[c].host
           Goes(stage, by) ==
               \E first \in found :
                 tunnel' = [tunnel EXCEPT ![c].at = stage, ![c].to = first, ![c].by = by]
       IN  IF ~Usable(c, found) THEN HangsUp(c)
           ELSE IF h \in lists["allow"] THEN Goes("dialling", "listed")
           ELSE IF ~asksHosts THEN Goes("dialling", "open")
           ELSE IF h \in granted THEN Goes("dialling", "grant")
           ELSE Goes("asking", "none")
    /\ UNCHANGED <<asksHosts, section, editsDone, session, proxyIs, lists, granted, allowedBy,
                   withdrawn>>

OperatorAnswers(c, yes) ==
    /\ tunnel[c].at = "asking"
    /\ IF yes
       THEN /\ tunnel' = [tunnel EXCEPT ![c].at = "dialling", ![c].by = "approval"]
            /\ granted' = granted \union {tunnel[c].host}
            /\ allowedBy' = [allowedBy EXCEPT ![tunnel[c].host] = session]
            /\ withdrawn' = withdrawn \ {tunnel[c].host}
       ELSE HangsUp(c) /\ UNCHANGED <<granted, allowedBy, withdrawn>>
    /\ UNCHANGED <<asksHosts, section, editsDone, session, proxyIs, lists>>

\* The time of a grant runs out.
GrantLapses(h) ==
    /\ h \in granted /\ granted' = granted \ {h}
    /\ UNCHANGED <<asksHosts, section, editsDone, session, proxyIs, lists, tunnel, allowedBy,
                   withdrawn>>

\* The address is dialled, within its time or not.
Dialled(c, reached) ==
    /\ tunnel[c].at = "dialling"
    /\ IF reached THEN tunnel' = [tunnel EXCEPT ![c].at = "tunnel"] ELSE HangsUp(c)
    /\ UNCHANGED <<asksHosts, section, editsDone, session, proxyIs, lists, granted, allowedBy,
                   withdrawn>>

\* _tunnel gathers both directions: a side that is done leaves the other one copying.
HalfDone(c) ==
    /\ tunnel[c].at = "tunnel" /\ tunnel' = [tunnel EXCEPT ![c].at = "half"]
    /\ UNCHANGED <<asksHosts, section, editsDone, session, proxyIs, lists, granted, allowedBy,
                   withdrawn>>
TunnelHangsUp(c) ==
    /\ tunnel[c].at = "half" /\ HangsUp(c)
    /\ UNCHANGED <<asksHosts, section, editsDone, session, proxyIs, lists, granted, allowedBy,
                   withdrawn>>

-----------------------------------------------------------------------------
(* The proxy's own life.                                                   *)

Serving == {"reading", "lookup", "asking", "dialling", "tunnel", "half"}

\* Mutant: the listener is closed and the handlers are left to end.
NoneCancelled == {}
\* stop: every handler that has begun is cancelled.
Cancelled == {c \in Tunnels : tunnel[c].at \in Serving}

\* env_for finds another session, or close_all: the proxy is told to stop.
StopProxy ==
    /\ proxyIs = "up" /\ proxyIs' = "stopping"
    /\ tunnel' = [c \in Tunnels |->
                     IF c \in Cancelled THEN [NoTunnel EXCEPT !.at = "closed"] ELSE tunnel[c]]
    /\ UNCHANGED <<asksHosts, section, editsDone, session, lists, granted, allowedBy,
                   withdrawn>>

\* wait_closed returns when no connection is left, and the next session gets a proxy.
NextSession ==
    /\ proxyIs = "stopping" /\ session < MaxSessions
    /\ \A c \in Tunnels : tunnel[c].at \in {"none", "closed"}
    /\ session' = session + 1 /\ proxyIs' = "up" /\ lists' = ReadLists /\ granted' = {}
    /\ withdrawn' = {}
    /\ UNCHANGED <<asksHosts, section, editsDone, tunnel, allowedBy>>

EgressNext ==
    \/ EditLists \/ StopProxy \/ NextSession
    \/ \E h \in NetHosts : GrantLapses(h)
    \/ \E c \in Tunnels :
         \/ Accepted(c) \/ HandlerBegins(c) \/ BadRequest(c)
         \/ HalfDone(c) \/ TunnelHangsUp(c)
         \/ \E h \in NetHosts : Judge(c, h)
         \/ \E found \in Lookups : LookedUp(c, found)
         \/ \E yes \in BOOLEAN : OperatorAnswers(c, yes) \/ Dialled(c, yes)

EgressSpec == EgressInit /\ [][EgressNext]_egressVars

-----------------------------------------------------------------------------
\* The types of the variables.
EgressTypeOK ==
    /\ asksHosts \in BOOLEAN /\ section \subseteq Lists
    /\ editsDone \in 0..MaxEdits /\ session \in 1..MaxSessions
    /\ proxyIs \in {"up", "stopping"} /\ lists \in [Lists -> SUBSET NetHosts]
    /\ granted \subseteq NetHosts /\ withdrawn \subseteq NetHosts
    /\ allowedBy \in [NetHosts -> 0..MaxSessions]
    /\ \A c \in Tunnels :
         /\ tunnel[c].at \in Serving \union {"none", "accepted", "closed"}
         /\ tunnel[c].to \in {"none", "public", "loopback"}
         /\ tunnel[c].by \in {"none", "listed", "open", "grant", "approval"}

\* A connection that goes by a grant has an approval of its own session behind it, one the
\* operator's lists have not overruled since as far as the proxy had seen, and an address
\* on the inside is reached only for a host with the second opt-in.
DialsAsDecided ==
    /\ \A h \in granted : allowedBy[h] = session /\ h \notin withdrawn
    /\ \A c \in Tunnels :
         tunnel[c].at \in {"dialling", "tunnel", "half"} =>
             /\ tunnel[c].host # "meta"
             /\ tunnel[c].to = "loopback" => tunnel[c].private
             /\ tunnel[c].by \in {"grant", "approval"} => allowedBy[tunnel[c].host] = session

\* No connection outlives the session of its proxy, and the only ones a stopping proxy
\* still waits for are those accepted when stop had begun to look for handlers.
StopsItsTunnels ==
    \A c \in Tunnels : tunnel[c].at \in Serving =>
        /\ tunnel[c].of = session
        /\ proxyIs = "stopping" => tunnel[c].late

EgressKeeps == DialsAsDecided /\ StopsItsTunnels
=============================================================================
