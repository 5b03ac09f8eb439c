----------------------------- MODULE QuickAuth -----------------------------
(***************************************************************************)
(* Quick authentication of the Gateway: a device without an account opens a *)
(* session and listens on a SignalR group; a signed-in user confirms the    *)
(* session by picking the number the device shows; the group hears a secret *)
(* code, and whoever presents the code is signed in as that user.           *)
(*                                                                          *)
(* A session is one mutable object shared by every handler (QuickAuthServices *)
(* keeps it in a ConcurrentDictionary), its fields written one after the     *)
(* other with no lock; a handler checks Status first and writes it later.    *)
(*                                                                          *)
(* A code is named by the confirming request that drew it: codes are 32      *)
(* random letters, so two requests never draw the same one.  `stale' and     *)
(* the field `good' are history; no action reads them.                       *)
(***************************************************************************)
EXTENDS FiniteSets

CONSTANTS
    Sessions,   \* session identifiers (Guid.NewGuid)
    Users,      \* accounts
    Clients,    \* devices connected to the hub
    Reqs,       \* confirm and finalize requests, each made once
    NoUser,     \* Guid.Empty
    NoCode,     \* string.Empty
    WrongCode   \* a text that no session ever had as its code

ASSUME NamesAssumption == /\ NoUser \notin Users
                          /\ {NoCode, WrongCode} \cap Reqs = {}
                          /\ NoCode # WrongCode

VARIABLES
    users,      \* accounts that exist
    st,         \* st[s]: Status; "None" = never created, "Gone" = lost
    uid,        \* uid[s]: ConfirmedUserId
    code,       \* code[s]: SecretLoginCode
    expired,    \* sessions whose ExpiresAt has passed
    group,      \* group[s]: members of the SignalR group
    joining,    \* <<c, s>>: SubscribeToSession checked, AddToGroupAsync pending
    heard,      \* heard[c]: the OnStatusChanged messages c received
    h,          \* h[r]: the handler of request r
    logins,     \* sign-ins that were saved
    stale       \* sessions whose Status a handler wrote after it had changed

vars == <<users, st, uid, code, expired, group, joining, heard, h, logins,
          stale>>

Statuses == {"Pending", "Confirmed", "Declined", "Used"}
Codes    == Reqs \cup {NoCode}
Messages == [s : Sessions, st : Statuses, code : Codes]
Logins   == [req : Reqs, s : Sessions, user : Users, code : Reqs]

(***************************************************************************)
(* Handlers.  Confirm: "decline", then "tell"; or "confirm", "uid", "code", *)
(* "send": the writes of ConfirmSession in their order, then the message.    *)
(* Finalize: "use" = the check passed; "compare", "load", "signin".         *)
(***************************************************************************)
PCs == {"decline", "tell", "confirm", "uid", "code", "send",
        "use", "compare", "load", "signin", "end"}
New == [pc |-> "new"]
Handlers == [pc : PCs, s : Sessions, user : Users \cup {NoUser},
             code : Reqs \cup {NoCode, WrongCode}, good : BOOLEAN]

\* One type invariant for sessions, groups, handlers and sign-ins.
TypeOK ==
    /\ users \subseteq Users
    /\ st \in [Sessions -> Statuses \cup {"None", "Gone"}]
    /\ uid \in [Sessions -> Users \cup {NoUser}]
    /\ code \in [Sessions -> Codes]
    /\ expired \subseteq Sessions
    /\ group \in [Sessions -> SUBSET Clients]
    /\ joining \subseteq Clients \X Sessions
    /\ heard \in [Clients -> SUBSET Messages]
    /\ h \in [Reqs -> Handlers \cup {New}]
    /\ logins \subseteq Logins
    /\ stale \subseteq Sessions

Exists(s) == st[s] \in Statuses
At(r, pc) == h[r].pc = pc
Goto(r, pc) == h' = [h EXCEPT ![r].pc = pc]

\* A write of Status by a handler that saw the value `seen'.
WriteStatus(r, seen, new) ==
    /\ st' = [st EXCEPT ![h[r].s] = new]
    /\ stale' = IF st[h[r].s] = seen THEN stale ELSE stale \cup {h[r].s}

Init ==
    /\ users = Users
    /\ st = [s \in Sessions |-> "None"]
    /\ uid = [s \in Sessions |-> NoUser]
    /\ code = [s \in Sessions |-> NoCode]
    /\ expired = {}
    /\ group = [s \in Sessions |-> {}]
    /\ joining = {}
    /\ heard = [c \in Clients |-> {}]
    /\ h = [r \in Reqs |-> New]
    /\ logins = {}
    /\ stale = {}

-----------------------------------------------------------------------------
(* The session and its listeners *)

CreateSession(s) ==
    /\ st[s] = "None"
    /\ st' = [st EXCEPT ![s] = "Pending"]
    /\ UNCHANGED <<users, uid, code, expired, group, joining, heard, h, logins,
                   stale>>

\* Fifteen minutes pass.
Expire(s) ==
    /\ Exists(s) /\ s \notin expired
    /\ expired' = expired \cup {s}
    /\ UNCHANGED <<users, st, uid, code, group, joining, heard, h, logins, stale>>

\* A connection makes one hub call at a time.
SubscribeToSession(c, s) ==
    /\ \A j \in joining : j[1] # c
    /\ Exists(s) /\ s \notin expired /\ st[s] = "Pending"
    /\ joining' = joining \cup {<<c, s>>}
    /\ UNCHANGED <<users, st, uid, code, expired, group, heard, h, logins, stale>>

AddToGroup(c, s) ==
    /\ <<c, s>> \in joining
    /\ joining' = joining \ {<<c, s>>}
    /\ group' = [group EXCEPT ![s] = @ \cup {c}]
    /\ UNCHANGED <<users, st, uid, code, expired, heard, h, logins, stale>>

\* SignalR takes a closed connection out of its groups.
Disconnect(c) ==
    /\ \/ \E s \in Sessions : c \in group[s]
       \/ \E j \in joining : j[1] = c
    /\ group' = [s \in Sessions |-> group[s] \ {c}]
    /\ joining' = {j \in joining : j[1] # c}
    /\ UNCHANGED <<users, st, uid, code, expired, heard, h, logins, stale>>

-----------------------------------------------------------------------------
(* Confirm: QuickAuthCreate(qaId, variant), ConfirmSession, DeclineSession *)

\* What the handler does next.  A wrong variant declines the session whatever
\* its status; a right one is too late unless the session is pending.
ConfirmPathAnyVariant(s, right) ==
    IF ~Exists(s) \/ s \in expired \/ st[s] # "Pending" THEN "end" ELSE "confirm"
ConfirmPath(s, right) ==
    CASE ~Exists(s) -> "end"
      [] Exists(s) /\ ~right -> "decline"
      [] Exists(s) /\ right /\ (s \in expired \/ st[s] # "Pending") -> "end"
      [] OTHER -> "confirm"

StartConfirm(r, s, u, right) ==
    /\ At(r, "new")
    /\ u \in users
    /\ h' = [h EXCEPT ![r] =
                [pc |-> ConfirmPath(s, right), s |-> s, user |-> u, code |-> NoCode,
                 good |-> right /\ s \notin expired /\ st[s] = "Pending"]]
    /\ UNCHANGED <<users, st, uid, code, expired, group, joining, heard, logins,
                   stale>>

DeclineStatus(r) ==
    /\ At(r, "decline")
    /\ st' = [st EXCEPT ![h[r].s] = "Declined"]
    /\ Goto(r, "tell")
    /\ UNCHANGED <<users, uid, code, expired, group, joining, heard, logins, stale>>

ConfirmStatus(r) ==
    /\ At(r, "confirm")
    /\ WriteStatus(r, "Pending", "Confirmed")
    /\ Goto(r, "uid")
    /\ UNCHANGED <<users, uid, code, expired, group, joining, heard, logins>>

ConfirmUser(r) ==
    /\ At(r, "uid")
    /\ uid' = [uid EXCEPT ![h[r].s] = h[r].user]
    /\ Goto(r, "code")
    /\ UNCHANGED <<users, st, code, expired, group, joining, heard, logins, stale>>

ConfirmCode(r) ==
    /\ At(r, "code")
    /\ code' = [code EXCEPT ![h[r].s] = r]
    /\ Goto(r, "send")
    /\ UNCHANGED <<users, st, uid, expired, group, joining, heard, logins, stale>>

\* The message is built from the session as it is now, whoever wrote it.
MessageWithoutCode(r) == [s |-> h[r].s, st |-> st[h[r].s], code |-> NoCode]
MessageOf(r) == [s |-> h[r].s, st |-> st[h[r].s],
                 code |-> IF At(r, "send") THEN code[h[r].s] ELSE NoCode]

Notify(r) ==
    /\ At(r, "tell") \/ At(r, "send")
    /\ heard' = [c \in Clients |-> IF c \in group[h[r].s]
                                   THEN heard[c] \cup {MessageOf(r)} ELSE heard[c]]
    /\ Goto(r, "end")
    /\ UNCHANGED <<users, st, uid, code, expired, group, joining, logins, stale>>

-----------------------------------------------------------------------------
(* Finalize: QuickAuthFinalize, FinalizeSession, AuthService.SignInAsync *)

\* Texts a client may send: codes it heard, or something else (not empty: an
\* empty body is a bad request).
CodesOf(c) == ({m.code : m \in heard[c]} \ {NoCode}) \cup {WrongCode}

Finalizable(s) == Exists(s) /\ s \notin expired /\ st[s] = "Confirmed"

StartFinalize(r, s, k) ==
    /\ At(r, "new")
    /\ h' = [h EXCEPT ![r] = [pc |-> IF Finalizable(s) THEN "use" ELSE "end",
                              s |-> s, user |-> NoUser, code |-> k, good |-> FALSE]]
    /\ UNCHANGED <<users, st, uid, code, expired, group, joining, heard, logins,
                   stale>>

\* The session is spent before its code is compared.
UseStatusKept(r) == UNCHANGED <<st, stale>>
UseStatus(r) == WriteStatus(r, "Confirmed", "Used")

UseSession(r) ==
    /\ At(r, "use")
    /\ UseStatus(r)
    /\ Goto(r, "compare")
    /\ UNCHANGED <<users, uid, code, expired, group, joining, heard, logins>>

CodeAlwaysMatches(r) == TRUE
CodeMatches(r) == code[h[r].s] = h[r].code

CompareCode(r) ==
    /\ At(r, "compare")
    /\ Goto(r, IF CodeMatches(r) THEN "load" ELSE "end")
    /\ UNCHANGED <<users, st, uid, code, expired, group, joining, heard, logins,
                   stale>>

\* ConfirmedUserId is read here, not together with the code.
LoadUser(r) ==
    /\ At(r, "load")
    /\ LET u == uid[h[r].s]
       IN h' = [h EXCEPT ![r].pc = IF u \in users THEN "signin" ELSE "end",
                         ![r].user = u]
    /\ UNCHANGED <<users, st, uid, code, expired, group, joining, heard, logins,
                   stale>>

\* The tokens and the login record are saved together; the insert fails when
\* the account was deleted meanwhile (foreign key).
SignIn(r) ==
    /\ At(r, "signin")
    /\ logins' = IF h[r].user \in users
                 THEN logins \cup {[req |-> r, s |-> h[r].s, user |-> h[r].user,
                                    code |-> h[r].code]}
                 ELSE logins
    /\ Goto(r, "end")
    /\ UNCHANGED <<users, st, uid, code, expired, group, joining, heard, stale>>

-----------------------------------------------------------------------------
(* Around them *)

DelUser(u) ==
    /\ u \in users
    /\ users' = users \ {u}
    /\ UNCHANGED <<st, uid, code, expired, group, joining, heard, h, logins, stale>>

\* The Gateway restarts: the dictionary, the groups and the handlers are gone.
Restart ==
    /\ \E s \in Sessions : Exists(s)
    /\ st' = [s \in Sessions |-> IF Exists(s) THEN "Gone" ELSE st[s]]
    /\ group' = [s \in Sessions |-> {}]
    /\ joining' = {}
    /\ h' = [r \in Reqs |-> IF At(r, "new") THEN New ELSE [h[r] EXCEPT !.pc = "end"]]
    /\ UNCHANGED <<users, uid, code, expired, heard, logins, stale>>

Progress(r) ==
    \/ DeclineStatus(r) \/ ConfirmStatus(r) \/ ConfirmUser(r) \/ ConfirmCode(r)
    \/ Notify(r) \/ UseSession(r) \/ CompareCode(r) \/ LoadUser(r) \/ SignIn(r)

Next ==
    \/ \E s \in Sessions : CreateSession(s) \/ Expire(s)
    \/ \E c \in Clients, s \in Sessions : SubscribeToSession(c, s) \/ AddToGroup(c, s)
    \/ \E c \in Clients : Disconnect(c)
    \/ \E r \in Reqs, s \in Sessions, u \in Users, right \in BOOLEAN :
          StartConfirm(r, s, u, right)
    \/ \E r \in Reqs, s \in Sessions, c \in Clients :
          \E k \in CodesOf(c) : StartFinalize(r, s, k)
    \/ \E r \in Reqs : Progress(r)
    \/ \E u \in Users : DelUser(u)
    \/ Restart

Spec == Init /\ [][Next]_vars

\* The thread pool runs every handler that can go on.
Fairness == \A r \in Reqs : WF_vars(Progress(r))
FairSpec == Spec /\ Fairness

-----------------------------------------------------------------------------
(* Properties *)

\* A sign-in through a session is for a user who picked the right number while
\* that session was pending and not expired, however the unlocked writes of
\* ConfirmSession (QuickAuthServices.cs:38-40) interleave with other handlers.
LoginsConfirmed ==
    \A l \in logins : \E r \in Reqs : /\ h[r].pc # "new" /\ h[r].good
                                      /\ h[r].s = l.s /\ h[r].user = l.user

\* The code that was presented was drawn for this session, and by the request
\* of the user who is signed in, unless a handler overwrote a Status it had not
\* seen (QuickAuthServices.cs:38, :69).
CodeOwner ==
    \A l \in logins : /\ l.code \in Reqs
                      /\ h[l.code].pc # "new" /\ h[l.code].s = l.s
                      /\ l.s \notin stale => h[l.code].user = l.user

\* A session signs in at most once, with the same exception.
SingleUse ==
    \A l1, l2 \in logins : l1.s = l2.s /\ l1.s \notin stale => l1 = l2

\* A message that carries a code carries one drawn for the session it names:
\* the field is read when the message is built (QuickAuthServices.cs:42).
HeardCodesIssued ==
    \A c \in Clients : \A m \in heard[c] :
        m.code # NoCode => /\ h[m.code].pc # "new" /\ h[m.code].good
                           /\ h[m.code].s = m.s

\* Confirming with listeners present: a member of the group hears a code of the
\* session, unless it leaves (or the Gateway restarts, which empties the group).
GroupHearsCode ==
    \A s \in Sessions, c \in Clients, r \in Reqs :
        (c \in group[s] /\ h[r] # New /\ At(r, "confirm") /\ h[r].s = s)
            ~> (c \notin group[s] \/ \E m \in heard[c] : m.s = s /\ m.code # NoCode)

=============================================================================
