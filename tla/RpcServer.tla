------------------------------ MODULE RpcServer -------------------------------
(***************************************************************************)
(* The server side of evrpc.c: a request of evhttp goes through the input  *)
(* hooks, is parsed, belongs to the user until evrpc_request_done, and its *)
(* reply goes through the output hooks.  Hooks may pause it on both ways,  *)
(* and the connection may be closed at any time.                           *)
(***************************************************************************)
EXTENDS Integers, FiniteSets, SequencesExt

CONSTANT Requests

VARIABLES base,    \* whether the RPC is registered, and who is paused
          rpc,     \* the state of each request
          http     \* what evhttp knows of it

vars == <<base, rpc, http>>

Results == {"continue", "pause", "terminate"}

\* hooked is the connection that hooks are told of, data the marshaled reply.
Init ==
  /\ base = [registered |-> FALSE, paused |-> <<>>]
  /\ rpc = [r \in Requests |-> [stage |-> "none", hooked |-> "none", request |-> FALSE,
                                reply |-> FALSE, data |-> FALSE]]
  /\ http = [r \in Requests |-> [evcon |-> "none", sent |-> <<>>]]

State == [base |-> base, rpc |-> rpc, http |-> http]
Become(S) == base' = S.base /\ rpc' = S.rpc /\ http' = S.http

-------------------------------------------------------------------------------
evrpc_register_rpc ==
  ~base.registered /\ Become([State EXCEPT !.base.registered = TRUE])
Ongoing(r) == rpc[r].stage \notin {"none", "freed"}
\* The user sees to it that no request is on its way.
evrpc_unregister_rpc ==
  /\ base.registered /\ \A r \in Requests : ~Ongoing(r)
  /\ Become([State EXCEPT !.base.registered = FALSE])

\* Without its connection a request is freed in place of being answered.
evhttp_send(S, r, what) ==
  [S EXCEPT !.http[r].sent = Append(@, IF S.http[r].evcon = "open" THEN what ELSE "freed")]
evrpc_reqstate_free_(S, r) ==
  [S EXCEPT !.rpc[r] = [stage |-> "freed", hooked |-> "none", request |-> FALSE,
                        reply |-> FALSE, data |-> FALSE]]
Error(S, r) == evhttp_send(evrpc_reqstate_free_(S, r), r, "error")

evrpc_hook_associate_meta_(S, r) == [S EXCEPT !.rpc[r].hooked = S.http[r].evcon]
evrpc_pause_request(S, r, cb) ==
  [S EXCEPT !.base.paused = Append(@, [ctx |-> r, cb |-> cb]), !.rpc[r].stage = "paused"]

evrpc_request_cb_closure(S, r, hook, parsed) ==
  LET made == [S EXCEPT !.rpc[r].request = TRUE]
  IN  IF hook = "terminate" THEN Error(S, r)
      ELSE IF ~parsed THEN Error(made, r)
      ELSE [made EXCEPT !.rpc[r].reply = TRUE, !.rpc[r].stage = "user"]
\* Only a POST with a body gets a state.
evrpc_request_cb(r, valid, hook, parsed) ==
  LET S == [State EXCEPT !.http[r].evcon = "open", !.rpc[r].stage = "called"]
      hooked == evrpc_hook_associate_meta_(S, r)
  IN  /\ base.registered /\ rpc[r].stage = "none"
      /\ Become(IF ~valid THEN Error(S, r)
                ELSE CASE hook = "terminate" -> Error(hooked, r)
                       [] hook = "pause" -> evrpc_pause_request(hooked, r, "request")
                       [] hook = "continue" -> evrpc_request_cb_closure(hooked, r, hook, parsed))

evrpc_request_done_closure(S, r, hook) ==
  IF hook = "terminate" THEN Error(S, r)
  ELSE evrpc_reqstate_free_(evhttp_send(S, r, "reply"), r)
evrpc_request_done(r, complete, hook) ==
  LET hooked == evrpc_hook_associate_meta_([State EXCEPT !.rpc[r].data = TRUE], r)
  IN  /\ rpc[r].stage = "user"
      /\ Become(IF ~complete THEN Error(State, r)
                ELSE CASE hook = "terminate" -> Error(hooked, r)
                       [] hook = "pause" -> evrpc_pause_request(hooked, r, "done")
                       [] hook = "continue" -> evrpc_request_done_closure(hooked, r, hook))

evrpc_resume_request(r, res, parsed) ==
  \E i \in DOMAIN base.paused :
    /\ base.paused[i].ctx = r
    /\ LET done == IF base.paused[i].cb = "request"
                   THEN evrpc_request_cb_closure(State, r, res, parsed)
                   ELSE evrpc_request_done_closure(State, r, res)
       IN  Become([done EXCEPT !.base.paused = RemoveAt(@, i)])

\* evhttp leaves a request that is not answered to its user.
Closed(r) ==
  http[r].evcon = "open" /\ Become([State EXCEPT !.http[r].evcon = "closed"])

Next ==
  \/ evrpc_register_rpc
  \/ evrpc_unregister_rpc
  \/ \E r \in Requests :
       \/ \E yes \in BOOLEAN, hook \in Results :
            \/ \E valid \in BOOLEAN : evrpc_request_cb(r, valid, hook, yes)
            \/ evrpc_request_done(r, yes, hook)
       \/ \E yes \in BOOLEAN, res \in {"continue", "terminate"} :
            evrpc_resume_request(r, res, yes)
       \/ Closed(r)

Spec == Init /\ [][Next]_vars

-------------------------------------------------------------------------------
(* A request is answered or freed once, when its state is freed; until     *)
(* then it belongs to its user or is paused once.                          *)
AnsweredOnce ==
  \A r \in Requests :
    /\ Len(http[r].sent) = IF rpc[r].stage = "freed" THEN 1 ELSE 0
    /\ Ongoing(r) => rpc[r].stage \in {"user", "paused"}
    /\ Cardinality({i \in DOMAIN base.paused : base.paused[i].ctx = r})
         = IF rpc[r].stage = "paused" THEN 1 ELSE 0

(* What a state holds is freed with it, and a reply is sent only of one    *)
(* that was complete.                                                      *)
NothingLeaks ==
  \A r \in Requests :
    LET held == {f \in {"request", "reply", "data"} : rpc[r][f]}
    IN  /\ rpc[r].stage \in {"none", "freed"} => held = {} /\ rpc[r].hooked = "none"
        /\ rpc[r].stage = "user" => held = {"request", "reply"}
        /\ \A i \in DOMAIN base.paused :
             base.paused[i].ctx = r =>
               held = IF base.paused[i].cb = "done" THEN {"request", "reply", "data"} ELSE {}

(* The RPC outlives its requests, and hooks are told of a connection that  *)
(* is closed only after the request was with its user or paused.           *)
RpcAlive ==
  \A r \in Requests :
    /\ Ongoing(r) => base.registered
    /\ rpc[r].hooked = "open" /\ http[r].evcon = "closed" => rpc[r].stage \in {"user", "paused"}

ServerSound == AnsweredOnce /\ NothingLeaks /\ RpcAlive
===============================================================================
