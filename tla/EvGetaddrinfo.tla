----------------------------- MODULE EvGetaddrinfo -----------------------------
(***************************************************************************)
(* evdns_getaddrinfo of libevent 2.1.12: one request for both families,    *)
(* its two queries, its timeout and a user who may cancel it in another    *)
(* thread than the loop's.                                                 *)
(*                                                                         *)
(* The lock of the resolver is taken and given back within a step, but for *)
(* a user who waits in event_del for the timeout's callback.  A query is   *)
(* what module EvDns makes of it: asked, finished with its callback due,   *)
(* called.  Left out: malloc failures, evdns_base_free and the addresses.  *)
(***************************************************************************)
EXTENDS FiniteSets, Naturals, Sequences

Families == {"A", "AAAA"}
Results == {"answer", "nodata", "notexist", "failed"}

VARIABLES sub,   \* the query of each family
          data,  \* the evdns_getaddrinfo_request
          loop,  \* what the loop's thread is in
          user,  \* what became of the user's cancel
          told   \* what the user's callback was called with

gaiVars == <<sub, data, loop, user, told>>

Idle == [in |-> "loop"]
NoData == [live |-> FALSE, canceled |-> FALSE, done |-> FALSE, cb |-> FALSE,
           pending |-> {}, error |-> FALSE, timer |-> FALSE, frees |-> 0]

Init ==
  /\ sub = [f \in Families |-> [at |-> "none", result |-> "none"]]
  /\ data = NoData /\ loop = Idle /\ user = "none" /\ told = <<>>

Told(what, families) == told' = Append(told, [what |-> what, families |-> families])

\* A query the request still has a pointer to.
Has(f) == sub[f].at \in {"asked", "due", "calling"}
Other(f) == CHOOSE g \in Families : g # f
Freed(d) == [d EXCEPT !.live = FALSE, !.timer = FALSE, !.frees = @ + 1]

\* evdns_cancel_request: a query whose callback is due stays as it is.
Canceled(fs) ==
  [f \in Families |-> IF f \in fs /\ sub[f].at = "asked"
                      THEN [at |-> "due", result |-> "cancel"] ELSE sub[f]]

\* A name that needs no query is answered at once, as is one whose queries
\* could not be made; or the queries of the families fs are made.
evdns_getaddrinfo ==
  /\ data = NoData /\ told = <<>>
  /\ \/ \E what \in {"answer", "error"} : Told(what, {}) /\ UNCHANGED <<sub, data>>
     \/ \E fs \in SUBSET Families \ {{}} :
          /\ sub' = [f \in Families |-> [sub[f] EXCEPT !.at = IF f \in fs THEN "asked" ELSE "none"]]
          /\ data' = [NoData EXCEPT !.live = TRUE, !.cb = TRUE]
          /\ UNCHANGED told
  /\ UNCHANGED <<loop, user>>

\* The resolver finishes a query.  It needs the lock.
Resolved(f) ==
  /\ sub[f].at = "asked" /\ user # "waits"
  /\ \E r \in Results : sub' = [sub EXCEPT ![f] = [at |-> "due", result |-> r]]
  /\ UNCHANGED <<data, loop, user, told>>

--------------------------------------------------------------------------------
\* evdns_getaddrinfo_gotresolve under the lock.
GotLocked(f) ==
  /\ loop = Idle /\ sub[f].at = "due" /\ user # "waits"
  /\ loop' = [in |-> "got", family |-> f, canceled |-> data.canceled]
  /\ data' = [data EXCEPT !.done = @ \/ ~Has(Other(f))]
  /\ sub' = [sub EXCEPT ![f].at = "calling"]
  /\ UNCHANGED <<user, told>>

\* ... and after it: the last query's result is told, the first one's is kept.
Last(f) == ~Has(Other(f))
Error(f) == sub[f].result # "answer"
Internal(f) == sub[f].result = "cancel" /\ ~loop.canceled
Ends(what, families) == Told(what, families) /\ data' = Freed(data)
GotUnlocked(f) ==
  /\ loop.in = "got" /\ loop.family = f
  /\ loop' = Idle /\ sub' = [sub EXCEPT ![f].at = "called"] /\ UNCHANGED user
  /\ \/ /\ Internal(f) /\ UNCHANGED told
        /\ data' = IF Last(f) THEN Freed(data) ELSE data
     \/ ~Internal(f) /\ ~data.cb /\ data' = Freed(data) /\ UNCHANGED told
     \/ /\ ~Internal(f) /\ data.cb /\ Last(f)
        /\ CASE loop.canceled -> Ends("cancel", {})
             [] ~loop.canceled /\ ~Error(f) -> Ends("answer", data.pending \cup {f})
             [] ~loop.canceled /\ Error(f) /\ data.pending # {} -> Ends("answer", data.pending)
             [] ~loop.canceled /\ Error(f) /\ data.pending = {} -> Ends("error", {})
     \/ /\ ~Internal(f) /\ data.cb /\ ~Last(f) /\ UNCHANGED told
        /\ data' = CASE Error(f) -> [data EXCEPT !.timer = TRUE, !.error = TRUE]
                     [] ~Error(f) /\ loop.canceled -> data
                     [] ~Error(f) /\ ~loop.canceled ->
                          [data EXCEPT !.timer = TRUE, !.pending = {f}]

\* evdns_getaddrinfo_timeout_cb, up to the lock it needs ...
TimeoutRuns ==
  /\ loop = Idle /\ data.timer
  /\ loop' = [in |-> "timeout"] /\ data' = [data EXCEPT !.timer = FALSE]
  /\ UNCHANGED <<sub, user, told>>
\* ... the queries that are late are cancelled ...
TimeoutCancels ==
  LET late == {f \in Families : Has(f)}
  IN  /\ loop.in = "timeout" /\ (late # {} => user # "waits")
      /\ sub' = Canceled(late) /\ loop' = [in |-> "tell", late |-> late]
      /\ UNCHANGED <<data, user, told>>
\* ... and the user is told of the other.
TimeoutTells ==
  /\ loop.in = "tell" /\ loop' = Idle
  /\ Told(IF data.pending # {} THEN "answer" ELSE "error", data.pending)
  /\ LET d == [data EXCEPT !.pending = {}, !.cb = FALSE]
     IN  data' = IF loop.late = {} THEN Freed(d) ELSE d
  /\ UNCHANGED <<sub, user>>

--------------------------------------------------------------------------------
InTimeout == loop.in \in {"timeout", "tell"}
CancelQueries ==
  /\ data' = [data EXCEPT !.timer = FALSE, !.canceled = TRUE]
  /\ sub' = Canceled({f \in Families : Has(f)}) /\ user' = "canceled"

\* evdns_getaddrinfo_cancel takes the lock, and event_del waits with it for a
\* callback that runs in the loop's thread.
evdns_getaddrinfo_cancel ==
  /\ user = "none" /\ data.live /\ told = <<>> /\ UNCHANGED <<loop, told>>
  /\ \/ data.done /\ user' = "late" /\ UNCHANGED <<sub, data>>
     \/ ~data.done /\ InTimeout /\ user' = "waits" /\ UNCHANGED <<sub, data>>
     \/ ~data.done /\ ~InTimeout /\ CancelQueries
CancelGoesOn == user = "waits" /\ ~InTimeout /\ CancelQueries /\ UNCHANGED <<loop, told>>

LoopRuns ==
  \/ \E f \in Families : GotLocked(f) \/ GotUnlocked(f)
  \/ TimeoutRuns \/ TimeoutCancels \/ TimeoutTells
Next ==
  \/ evdns_getaddrinfo \/ evdns_getaddrinfo_cancel \/ CancelGoesOn \/ LoopRuns
  \/ \E f \in Families : Resolved(f)

\* Every query is finished in the end, and no thread stops.
Fairness ==
  /\ WF_gaiVars(LoopRuns) /\ WF_gaiVars(CancelGoesOn)
  /\ \A f \in Families : WF_gaiVars(Resolved(f))
Spec == Init /\ [][Next]_gaiVars /\ Fairness

--------------------------------------------------------------------------------
(* Whatever answers, times out and is cancelled in which order: the user   *)
(* is told once, of every family whose answer came before the request was  *)
(* told; the request is freed once and not before both queries' callbacks  *)
(* were called (evdns.c:4362); the timeout finds one query late and not    *)
(* both (evdns.c:4411).                                                    *)
ToldAndFreedOnce ==
  /\ Len(told) <= 1 /\ data.frees <= 1
  /\ data.frees = 1 =>
       /\ Len(told) = 1 /\ loop = Idle /\ user # "waits"
       /\ \A f \in Families : sub[f].at \in {"none", "called"}
  /\ loop.in = "tell" => Cardinality(loop.late) = 1
  /\ Len(told) = 1 /\ told[1].what = "error" => data.pending = {}

\* What the user is owed: to be told, and to have the request freed.
Asked == data.live

(* The user waits with the lock for a callback that waits for the lock.    *)
Stuck == user = "waits" /\ loop.in = "timeout" /\ \E f \in Families : Has(f)

(* Who cancels a request before its callback was invoked is told           *)
(* (event2/dns.h:725).                                                     *)
CancelIsTold == user \in {"waits", "canceled"} ~> told # <<>>
================================================================================
