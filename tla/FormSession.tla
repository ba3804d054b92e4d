----------------------------- MODULE FormSession -----------------------------
(***************************************************************************)
(* What a browser sees of the form server: requests and pages in turns on  *)
(* each connection.  A commit is answered by a page with the name that was *)
(* given last on this connection, any other request by the form.  A client *)
(* is its own name.                                                        *)
(***************************************************************************)
CONSTANT Conns

VARIABLES owed,   \* the page each connection waits for, or why it has none
          name,   \* the name given on it
          shown   \* the page sent last: the form, or the name on the other

session == <<owed, name, shown>>

Init ==
  /\ owed = [c \in Conns |-> "absent"]
  /\ name = [c \in Conns |-> "none"]
  /\ shown = [c \in Conns |-> "nothing"]

Move(c, from, to) == owed[c] = from /\ owed' = [owed EXCEPT ![c] = to]

Accept(c) == Move(c, "absent", "none") /\ UNCHANGED <<name, shown>>

Get(c)    == Move(c, "none", "welcome") /\ UNCHANGED <<name, shown>>

Blank(c)  == Move(c, "none", "commit") /\ UNCHANGED <<name, shown>>

Commit(c) ==
  /\ Move(c, "none", "commit")
  /\ name' = [name EXCEPT ![c] = c]
  /\ UNCHANGED shown

Show(c) ==
  /\ \/ Move(c, "welcome", "none") /\ shown' = [shown EXCEPT ![c] = "form"]
     \/ Move(c, "commit", "none") /\ shown' = [shown EXCEPT ![c] = name[c]]
  /\ UNCHANGED name

\* With the connection its name is forgotten.
Close(c) ==
  /\ Move(c, "none", "closed")
  /\ name' = [name EXCEPT ![c] = "none"]
  /\ UNCHANGED shown

\* The process that serves all connections ends.
CloseAll ==
  /\ owed' = [c \in Conns |-> IF owed[c] = "absent" THEN "absent" ELSE "closed"]
  /\ name' = [c \in Conns |-> "none"]
  /\ UNCHANGED shown

Next ==
  \/ \E c \in Conns : \/ Accept(c) \/ Get(c) \/ Blank(c) \/ Commit(c)
                      \/ Show(c) \/ Close(c)
  \/ CloseAll

Spec == Init /\ [][Next]_session
=============================================================================
