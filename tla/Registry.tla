------------------------------- MODULE Registry -------------------------------
(***************************************************************************)
(* What the service promises of accounts and sessions, whatever requests   *)
(* race and whatever fails: an account appears together with its first     *)
(* session, in one step, for a phone and a Google subject nobody has;      *)
(* later sessions belong to accounts that exist; nothing of this is ever   *)
(* changed or taken back.  The promise is read off service.go:275-320 and  *)
(* 392-396 and the UNIQUE columns of user_account.                         *)
(***************************************************************************)
CONSTANTS Phones, Subjects, None, Accounts, Sessions,
          Grants  \* what a session may be granted for

VARIABLES accounts, sessions

Taken(row) ==
    \E a \in DOMAIN accounts :
        \/ accounts[a].phone = row.phone
        \/ row.subject # None /\ accounts[a].subject = row.subject

Grows(table, id, row) ==
    [x \in DOMAIN table \cup {id} |-> IF x = id THEN row ELSE table[x]]

Init == accounts = << >> /\ sessions = << >>

OpenSession(a, s) ==
    \E grant \in Grants : sessions' = Grows(sessions, s, [account |-> a, grant |-> grant])

SignUp(a, s) ==
    /\ a \notin DOMAIN accounts /\ s \notin DOMAIN sessions
    /\ \E phone \in Phones, subject \in Subjects \cup {None} :
        LET row == [phone |-> phone, subject |-> subject]
        IN  ~Taken(row) /\ accounts' = Grows(accounts, a, row)
    /\ OpenSession(a, s)

SignIn(a, s) ==
    /\ a \in DOMAIN accounts /\ s \notin DOMAIN sessions
    /\ OpenSession(a, s)
    /\ UNCHANGED accounts

Next == \E a \in Accounts, s \in Sessions : SignUp(a, s) \/ SignIn(a, s)

Spec == Init /\ [][Next]_<<accounts, sessions>>
=============================================================================
