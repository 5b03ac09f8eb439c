--------------------------- MODULE VlessValidator ---------------------------
(***************************************************************************)
(* The user table of a VLESS inbound (proxy/vless/validator.go): two maps,  *)
(* by email and by UUID, without a common lock.  The gRPC calls that add    *)
(* and remove users run concurrently; a step is one operation on one map.   *)
(* Get looks at `users', GetByEmail, GetAll and GetCount at `email'.        *)
(***************************************************************************)
EXTENDS Integers, FiniteSets

CONSTANTS
    Callers,     \* goroutines of the handler service
    Users,       \* [email, id]: what a call may add
    None,
    MaxCalls     \* bound: calls begun


VARIABLES
    email,  \* email[e]: the user stored under e
    users,  \* users[i]: the user stored under i
    call,   \* call[c]: operation, next step and user of caller c
    calls,  \* calls begun
    crossed \* history: emails with calls that overlapped

vars == <<email, users, call, calls, crossed>>

Emails == {u.email : u \in Users}
UUIDs == {u.id : u \in Users}

\* A UUID is the key's Guid and belongs to one user.
CallsAssumption ==
    /\ MaxCalls \in Nat
    /\ None \notin Users /\ None \notin Emails
    /\ \A u, v \in Users : u.id = v.id => u = v

Quiet == [pc |-> "none", about |-> None, user |-> None]

Init ==
    /\ email = [e \in Emails |-> None]
    /\ users = [i \in UUIDs |-> None]
    /\ call = [c \in Callers |-> Quiet]
    /\ calls = 0
    /\ crossed = {}

About(e) == {c \in Callers : call[c].about = e}
Begins(c, pc, e, u) ==
    /\ call[c] = Quiet
    /\ calls < MaxCalls
    /\ calls' = calls + 1
    /\ call' = [call EXCEPT ![c] = [pc |-> pc, about |-> e, user |-> u]]
    /\ crossed' = IF About(e) = {} THEN crossed ELSE crossed \cup {e}
    /\ UNCHANGED <<email, users>>
Returns(c) == call' = [call EXCEPT ![c] = Quiet]
Goto(c, pc, u) == call' = [call EXCEPT ![c].pc = pc, ![c].user = u]

-----------------------------------------------------------------------------
(* Add: LoadOrStore the email, then Store the UUID.                         *)
Add(c, u) == Begins(c, "loadOrStore", u.email, u)

LoadOrStore(c) ==
    LET u == call[c].user
    IN  /\ call[c].pc = "loadOrStore"
        /\ IF email[u.email] # None
           THEN Returns(c) /\ UNCHANGED email
           ELSE /\ email' = [email EXCEPT ![u.email] = u]
                /\ Goto(c, "store", u)
        /\ UNCHANGED <<users, calls, crossed>>

Stored(u) == [users EXCEPT ![u.id] = u]
Store(c) ==
    /\ call[c].pc = "store"
    /\ users' = Stored(call[c].user)
    /\ Returns(c)
    /\ UNCHANGED <<email, calls, crossed>>

-----------------------------------------------------------------------------
(* Del: Load the user of the email, then Delete it from both maps.          *)
Del(c, e) == Begins(c, "load", e, None)

Load(c) ==
    LET u == email[call[c].about]
    IN  /\ call[c].pc = "load"
        /\ IF u = None THEN Returns(c) ELSE Goto(c, "deleteEmail", u)
        /\ UNCHANGED <<email, users, calls, crossed>>

DeleteEmail(c) ==
    /\ call[c].pc = "deleteEmail"
    /\ email' = [email EXCEPT ![call[c].about] = None]
    /\ Goto(c, "deleteUser", call[c].user)
    /\ UNCHANGED <<users, calls, crossed>>

DeletedIdKept(i) == users
DeletedId(i) == [users EXCEPT ![i] = None]
DeleteUser(c) ==
    /\ call[c].pc = "deleteUser"
    /\ users' = DeletedId(call[c].user.id)
    /\ Returns(c)
    /\ UNCHANGED <<email, calls, crossed>>

-----------------------------------------------------------------------------
Next == \E c \in Callers :
           \/ \E u \in Users : Add(c, u)
           \/ \E e \in Emails : Del(c, e)
           \/ LoadOrStore(c) \/ Store(c)
           \/ Load(c) \/ DeleteEmail(c) \/ DeleteUser(c)

Spec == Init /\ [][Next]_vars

-----------------------------------------------------------------------------
PCs == {"none", "loadOrStore", "store", "load", "deleteEmail", "deleteUser"}

\* Types, and what is stored where: a user is under its own email and UUID.
TypeOK ==
    /\ email \in [Emails -> Users \cup {None}]
    /\ users \in [UUIDs -> Users \cup {None}]
    /\ call \in [Callers -> [pc : PCs, about : Emails \cup {None},
                             user : Users \cup {None}]]
    /\ calls \in 0 .. MaxCalls /\ crossed \subseteq Emails
    /\ \A e \in Emails : email[e] # None => email[e].email = e
    /\ \A i \in UUIDs : users[i] # None => users[i].id = i

\* The two maps agree about an email when no call about it is under way: a
\* user that was added can connect with its UUID, and a user that was
\* removed cannot.  Calls about other emails do not matter; an Add and a Del
\* of the same one that overlapped may leave it in one map only.
MapsAgree ==
    \A u \in Users : About(u.email) = {} /\ u.email \notin crossed =>
        (email[u.email] = u <=> users[u.id] = u)

=============================================================================
