------------------------------ MODULE MCLibevent ------------------------------
(***************************************************************************)
(* Parts of libevent under the fairness of its loop: a bufferevent, the    *)
(* token bucket of one and of a group, the resolver, its getaddrinfo and   *)
(* its server, and the two ends of http.  The first state of a behaviour   *)
(* says which part it is of, and the variables of the others keep the      *)
(* value None.  Modules that name a variable alike share it.               *)
(***************************************************************************)
EXTENDS Integers, FiniteSets

CONSTANTS None,
          \* The bucket of one bufferevent, and that of a group (RateLimit, RateGroup).
          Starts, Cfgs, NoConfig, Ticks, Period, Word, BucketDebt, BucketTokens, MaxCalls,
          Bevs, Holders, Rate, Maximum, ConfiguredShare, MaxTicks, GroupDebt, GroupTokens, GroupCalls,
          \* The two ends of http (HttpClient, HttpServer).
          Outgoing, Incoming, Linger

VARIABLES part, pc,
          bev, sock, lookup, unseen,
          now, cfg, limit, last, suspended, timer, calls,
          members, stopped, pending, atmost,
          ring, ns, req, queue, good, inflight, faults, suspends,
          sub, data, loop, user, told,
          asked, port, replies, errors,
          con, evcon, cur, http

\* A bufferevent without marks that connects, with deferred callbacks or without.
Setup(deferred) == [deferred |-> deferred, limited |-> FALSE, peer |-> "none"]
Bev == INSTANCE BufferEvent WITH
  Setups <- {Setup(TRUE), Setup(FALSE)},
  ReadMarks <- {<<0, 0>>}, WriteMarks <- {0}, MaxBytes <- 1

Bucket == INSTANCE RateLimit WITH NoCfg <- NoConfig,
                                     MaxDebt <- BucketDebt, MaxTokens <- BucketTokens
Group == INSTANCE RateGroup WITH MaxDebt <- GroupDebt, MaxTokens <- GroupTokens,
                                    MaxCalls <- GroupCalls

\* ev_token_bucket_cfg_new refuses a rate of nothing and one beyond the maximum.
\* It does not refuse a tick of less than a millisecond, by which the number of
\* the tick would be divided: its users have to.
ASSUME RatesAssumption ==
  /\ \A c \in Cfgs : /\ c.len \in Nat \ {0}
                     /\ \A d \in Bucket!Directions : /\ c.rate[d] \in Nat \ {0}
                                                     /\ c.maximum[d] \in Nat
                                                     /\ c.rate[d] <= c.maximum[d]
                                                     /\ c.maximum[d] <= BucketTokens
  /\ Ticks \in Nat \ {0} /\ Period \in Nat \ {0} /\ Starts \subseteq 0 .. Period - 1
  /\ BucketDebt \in Nat /\ BucketTokens \in Nat
  /\ Word \in Nat \ {0}
  /\ IsFiniteSet(Bevs) /\ "user" \notin Bevs /\ "timer" \notin Bevs
  /\ Rate \in Nat \ {0} /\ Maximum \in Nat /\ Rate <= Maximum
  /\ ConfiguredShare \in Nat /\ GroupDebt \in Nat
  /\ GroupTokens \in Nat /\ Maximum <= GroupTokens

\* Two configurations with ticks of one length.
Config(rates, maxima) == [len |-> 1, rate |-> rates, maximum |-> maxima]
Each(r, w) == [d \in {"r", "w"} |-> IF d = "r" THEN r ELSE w]
TwoConfigs == {Config(Each(1, 1), Each(2, 2)), Config(Each(1, 2), Each(1, 3))}

\* Two servers and one query; one server, two queries, errors and a suspension.
Dns2 == INSTANCE EvDns WITH
  Servers <- {"A", "B"}, Queries <- {"q"}, Names <- [q \in {"q"} |-> 1], NoServer <- "none",
  max_inflight <- 2, max_retransmits <- 1, max_reissues <- 1, max_timeouts <- 1,
  MaxFaults <- 0, MaxSuspends <- 0
Dns1 == INSTANCE EvDns WITH
  Servers <- {"A"}, Queries <- {"q", "r"}, Names <- [q \in {"q", "r"} |-> IF q = "q" THEN 1 ELSE 0],
  NoServer <- "none",
  max_inflight <- 2, max_retransmits <- 2, max_reissues <- 1, max_timeouts <- 1,
  MaxFaults <- 1, MaxSuspends <- 1

Gai == INSTANCE EvGetaddrinfo

Port == INSTANCE EvDnsServer WITH Requests <- 1 .. 3, MaxErrors <- 2

Client == INSTANCE HttpClient WITH
  Requests <- Outgoing, retry_max <- 1, Odd <- {},
  Setups <- {[auto |-> FALSE, onwrite |-> FALSE, chunks |-> FALSE],
             [auto |-> FALSE, onwrite |-> FALSE, chunks |-> TRUE],
             [auto |-> TRUE, onwrite |-> FALSE, chunks |-> FALSE],
             [auto |-> FALSE, onwrite |-> TRUE, chunks |-> TRUE]}

Server == INSTANCE HttpServer WITH Requests <- Incoming
ASSUME HttpAssumption == Incoming \subseteq Nat \ {0} /\ Outgoing \subseteq Nat

bevVars == <<bev, sock, lookup, unseen>>
bucketVars == <<now, cfg, last, timer>>
groupVars == <<members, stopped, pending, atmost>>
rateVars == <<limit, suspended, bucketVars, groupVars>>
dnsVars == <<ring, ns, good, inflight, faults, suspends>>
gaiVars == <<sub, data, loop, user, told>>
portVars == <<asked, port, replies, errors>>
serverVars == <<evcon, cur, http>>
vars == <<part, pc, bevVars, rateVars, calls, req, queue, dnsVars, gaiVars, portVars,
          con, serverVars>>

NoBev == bev = None /\ sock = None /\ lookup = None /\ unseen = None
NoBucket == now = None /\ cfg = None /\ last = None /\ timer = None
NoGroup == members = None /\ stopped = None /\ pending = None /\ atmost = None
NoRates == limit = None /\ suspended = None /\ NoBucket /\ NoGroup
NoDns ==
  /\ ring = None /\ ns = None /\ good = None
  /\ inflight = None /\ faults = None /\ suspends = None
NoGai == sub = None /\ data = None /\ loop = None /\ user = None /\ told = None
NoPort == asked = None /\ port = None /\ replies = None /\ errors = None
NoHttp == con = None /\ evcon = None /\ cur = None /\ http = None
NoNets == req = None /\ queue = None /\ NoDns /\ NoGai /\ NoPort /\ NoHttp

Init ==
  \/ part = "bufferevent" /\ Bev!Init /\ calls = None /\ NoRates /\ NoNets
  \/ /\ part = "bucket" /\ Bucket!Init
     /\ pc = None /\ NoBev /\ NoGroup /\ NoNets
  \/ part = "group" /\ Group!Init /\ NoBev /\ NoBucket /\ NoNets
  \/ /\ \/ part = "two servers" /\ Dns2!Init
        \/ part = "two queries" /\ Dns1!Init
     /\ pc = None /\ calls = None /\ NoBev /\ NoRates /\ NoGai /\ NoPort /\ NoHttp
  \/ /\ part = "getaddrinfo" /\ Gai!Init /\ req = None /\ queue = None
     /\ pc = None /\ calls = None /\ NoBev /\ NoRates /\ NoDns /\ NoPort /\ NoHttp
  \/ /\ part = "dns server" /\ Port!Init /\ req = None /\ queue = None
     /\ pc = None /\ calls = None /\ NoBev /\ NoRates /\ NoDns /\ NoGai /\ NoHttp
  \/ /\ part = "http client" /\ Client!Init /\ evcon = None /\ cur = None /\ http = None
     /\ pc = None /\ NoBev /\ NoRates /\ NoDns /\ NoGai /\ NoPort
  \/ /\ part = "http server" /\ Server!Init /\ con = None /\ queue = None
     /\ pc = None /\ calls = None /\ NoBev /\ NoRates /\ NoDns /\ NoGai /\ NoPort

(***************************************************************************)
(* A step of each part leaves the variables of the others alone.           *)
(***************************************************************************)
netVars == <<req, queue, dnsVars, gaiVars, portVars, con, serverVars>>
InBev == part = "bufferevent" /\ UNCHANGED <<part, calls, rateVars, netVars>>
InBucket == part = "bucket" /\ UNCHANGED <<part, pc, bevVars, groupVars, netVars>>
InGroup == part = "group" /\ UNCHANGED <<part, bevVars, bucketVars, netVars>>
InDns(p) ==
  /\ part = p
  /\ UNCHANGED <<part, pc, calls, bevVars, rateVars, gaiVars, portVars, con, serverVars>>
InGai ==
  /\ part = "getaddrinfo"
  /\ UNCHANGED <<part, pc, calls, bevVars, rateVars, req, queue, dnsVars, portVars, con, serverVars>>
InPort ==
  /\ part = "dns server"
  /\ UNCHANGED <<part, pc, calls, bevVars, rateVars, req, queue, dnsVars, gaiVars, con, serverVars>>
InClient ==
  /\ part = "http client"
  /\ UNCHANGED <<part, pc, bevVars, rateVars, dnsVars, gaiVars, portVars, serverVars>>
InServer ==
  /\ part = "http server"
  /\ UNCHANGED <<part, pc, calls, bevVars, rateVars, queue, dnsVars, gaiVars, portVars, con>>

Next ==
  \/ InBev /\ Bev!Next
  \/ InBucket /\ Bucket!Next
  \/ InGroup /\ Group!Next
  \/ InDns("two servers") /\ Dns2!Next
  \/ InDns("two queries") /\ Dns1!Next
  \/ InGai /\ Gai!Next
  \/ InPort /\ Port!Next
  \/ InClient /\ Client!Next
  \/ InServer /\ Server!Next

(***************************************************************************)
(* The fairness of each part, as its own module states it: a disjunction   *)
(* over the parts is fair when each of its actions is, and what waits in   *)
(* one part does not wait for ever.                                        *)
(***************************************************************************)
ActionsFair ==
  /\ WF_vars(\/ InBev /\ Bev!Returns
             \/ InBucket /\ Bucket!Tick
             \/ InGroup /\ Group!bev_group_refill_callback_
             \/ InGai /\ Gai!LoopRuns)
  /\ WF_vars(\/ InBev /\ Bev!ConnectionEnds
             \/ InBucket /\ Bucket!bev_refill_callback_
             \/ InGai /\ Gai!CancelGoesOn)
  /\ \A b \in Bevs \cup {"r", "w"} :
       WF_vars(\/ InGroup /\ b \in Bevs /\ Group!Finish(b)
               \/ InGai /\ b = "r" /\ Gai!Resolved("A")
               \/ InGai /\ b = "w" /\ Gai!Resolved("AAAA"))
  /\ SF_vars(InBev /\ Bev!bufferevent_writecb)
  /\ SF_vars(InBev /\ Bev!RunDeferred)
  /\ SF_vars(InBev /\ Bev!bufferevent_connect_getaddrinfo_cb)
  /\ SF_vars(InBev /\ Bev!bufferevent_finalize_cb_)

DnsFair ==
  /\ \A h \in Dns2!Handles : []<>~(part = "two servers" /\ Dns2!CallbackWaits(h))
  /\ \A h \in Dns1!Handles : []<>~(part = "two queries" /\ Dns1!CallbackWaits(h))
  /\ \A h \in Dns2!Handles, n \in 0 .. 1 : []<>~(part = "two servers" /\ Dns2!TimerWaits(h, n))
  /\ \A h \in Dns1!Handles, n \in 0 .. 2 : []<>~(part = "two queries" /\ Dns1!TimerWaits(h, n))
  /\ \A s \in {"A", "B"}, what \in {"socket", "timer", "user"} :
       []<>~(\/ part = "two servers" /\ Dns2!ServerWaits(s, what)
             \/ part = "two queries" /\ s = "A" /\ Dns1!ServerWaits(s, what))
  /\ []<>~(part = "two queries" /\ Dns1!ResumeWaits)

HttpFair ==
  /\ \A q \in Outgoing, s \in Client!Stages : []<>~(part = "http client" /\ Client!StageWaits(q, s))
  /\ []<>~(\/ part = "http client" /\ con.retry
           \/ part = "http server" /\ evcon.more)
  /\ \A q \in 1 .. 3 \cup Outgoing \cup Incoming :
       []<>~(\/ part = "http client" /\ q \in Outgoing /\ Client!CallWaits(q)
             \/ part = "http server" /\ q \in Incoming /\ Server!WriteWaits(q)
             \/ part = "dns server" /\ q \in 1 .. 3 /\ Port!WriteWaits(q))

Spec == Init /\ [][Next]_vars /\ ActionsFair /\ DnsFair /\ HttpFair

-------------------------------------------------------------------------------
(* The buckets, the suspended directions and members and their timers      *)
(* agree (RateLimit, RateGroup).                                           *)
RatesSound ==
  /\ part = "bucket" => Bucket!TypeOK /\ Bucket!BucketSound
  /\ part = "group" => Group!GroupSound

(* The resolver's counters, lists and timers agree (EvDns); a name's two   *)
(* queries are told of once and freed once (EvGetaddrinfo); the server's   *)
(* port counts those who use it (EvDnsServer).                             *)
ResolverSound ==
  /\ part = "two servers" => Dns2!CountersAgree /\ Dns2!NobodyForgotten
  /\ part = "two queries" => Dns1!CountersAgree /\ Dns1!NobodyForgotten
  /\ part = "getaddrinfo" => Gai!ToldAndFreedOnce
  /\ part = "dns server" => Port!PortSound

(* The two ends of http are in a state their next callback expects, and    *)
(* the client connects when it has something to ask (HttpClient,           *)
(* HttpServer).                                                            *)
HttpSound ==
  /\ part = "http client" => Client!ClientSound /\ Client!ConnectionStarted
  /\ part = "http server" => Server!ServerSound

(* A refill fills the bucket (RateLimit), and only a user brings a bucket  *)
(* beyond the most it holds (RateLimit, RateGroup).                        *)
RefillFills ==
  [][ /\ part = "bucket" => Bucket!RefillAdds /\ Bucket!OnlyUsersOverfill
      /\ part = "group" => Group!OnlyUsersOverfill ]_vars

(* A request the user holds is not freed under it (HttpServer).            *)
HeldStays == [][part = "http server" => Server!HeldStays]_vars

(* A direction or a member that is suspended goes on (RateLimit,           *)
(* RateGroup); a nameserver that is down is asked whether it is back       *)
(* (EvDns); the answers of both servers are sent (EvDnsServer,             *)
(* HttpServer).                                                            *)
Waits(n) ==
  CASE part \in {"bucket", "group"} -> n < 3 /\ (IF n = 1 THEN "r" ELSE "w") \in suspended
    [] part = "two servers" -> n < 3 /\ Dns2!NotAsked(IF n = 1 THEN "A" ELSE "B")
    [] part = "two queries" -> n = 1 /\ Dns1!NotAsked("A")
    [] part = "dns server" -> n \in 1 .. 3 /\ asked[n] = "pending"
    [] part = "http server" -> n \in Incoming /\ Server!Answering(n)
    [] OTHER -> FALSE
WaitingGoesOn == \A n \in 1 .. 3 \cup Incoming : Waits(n) ~> ~Waits(n)

(* What is due is told to the user, a connection attempt is reported, and  *)
(* what the user has freed goes in the end (BufferEvent).  A query ends    *)
(* (EvDns), and a name's request is told of and freed unless its           *)
(* cancellation is stuck (EvGetaddrinfo).  A request ends, unless the      *)
(* server sends 100 Continue for it, or for one before it, without end     *)
(* (HttpClient).                                                           *)
Owed(n) ==
  CASE part = "bufferevent" ->
         \/ n = 1 /\ Bev!Attempting
         \/ n = 2 /\ ~bev.user /\ bev.life # "gone"
         \/ n = 3 /\ \E what \in {"read", "write", "connected", "eof", "error"} : Bev!Due(what)
    [] part = "two servers" -> n = 1 /\ Dns2!Asked("q")
    [] part = "two queries" -> n < 3 /\ Dns1!Asked(IF n = 1 THEN "q" ELSE "r")
    [] part = "getaddrinfo" -> n = 1 /\ data.live /\ ~Gai!Stuck
    [] part = "http client" -> n \in Outgoing /\ Client!Owed(n)
    [] OTHER -> FALSE
Continued == part = "http client" /\ \E q \in Outgoing : Client!Continued(q)
UserIsTold == <>[]~Continued => \A n \in 1 .. 3 \cup Outgoing : Owed(n) ~> ~Owed(n)
===============================================================================
