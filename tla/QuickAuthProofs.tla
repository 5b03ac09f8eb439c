-------------------------- MODULE QuickAuthProofs --------------------------
(***************************************************************************)
(* Proofs about QuickAuth, for every set of sessions, users, clients and    *)
(* requests.                                                                *)
(***************************************************************************)
EXTENDS QuickAuth, TLAPS

-----------------------------------------------------------------------------
(* Types *)

Finalizing == {"use", "compare", "load", "signin"}

\* A handler in progress has a session, and a finalizing one that got past the
\* comparison presented a real code.
Shape ==
    \A r \in Reqs :
        /\ h[r].pc \notin {"new", "end"} => Exists(h[r].s)
        /\ h[r].pc \in Finalizing => ~h[r].good /\ h[r].code # NoCode
        /\ h[r].pc \in {"load", "signin"} => h[r].code \in Reqs

TypeInv == TypeOK /\ Shape

\* A request that has begun has a complete handler record.
LEMMA Begun ==
    ASSUME TypeOK, NEW r \in Reqs, h[r].pc # "new"
    PROVE  h[r] \in Handlers
BY DEF TypeOK, New

\* Its fields, one by one.
LEMMA BegunFields ==
    ASSUME TypeOK, NEW r \in Reqs, h[r].pc # "new"
    PROVE  /\ h[r].s \in Sessions /\ h[r].user \in Users \cup {NoUser}
           /\ h[r].code \in Reqs \cup {NoCode, WrongCode} /\ h[r].good \in BOOLEAN
BY Begun DEF Handlers

\* A handler that moves on keeps everything but its program counter.
LEMMA MoveFacts ==
    ASSUME TypeOK, NEW r \in Reqs, h[r].pc # "new", NEW p \in PCs, Goto(r, p)
    PROVE  /\ h' \in [Reqs -> Handlers \cup {New}]
           /\ \A q \in Reqs : q # r => h'[q] = h[q]
           /\ h'[r].pc = p
           /\ \A q \in Reqs : /\ h'[q].s = h[q].s /\ h'[q].user = h[q].user
                              /\ h'[q].code = h[q].code /\ h'[q].good = h[q].good
<1>1. h[r] \in Handlers
  BY Begun
<1>2. [h[r] EXCEPT !.pc = p] \in Handlers
  BY <1>1 DEF Handlers
<1> QED
  BY <1>1, <1>2 DEF TypeOK, Handlers, Goto

\* Loading the user also fills in the field `user'.
LEMMA LoadFacts ==
    ASSUME TypeOK, NEW r \in Reqs, LoadUser(r)
    PROVE  /\ h' \in [Reqs -> Handlers \cup {New}]
           /\ \A q \in Reqs : q # r => h'[q] = h[q]
           /\ h'[r].pc = IF uid[h[r].s] \in users THEN "signin" ELSE "end"
           /\ h'[r].user = uid[h[r].s]
           /\ \A q \in Reqs : /\ h'[q].s = h[q].s /\ h'[q].code = h[q].code
                              /\ h'[q].good = h[q].good
<1> DEFINE p == IF uid[h[r].s] \in users THEN "signin" ELSE "end"
<1>1. h[r] \in Handlers
  BY Begun DEF LoadUser, At
<1>2. uid[h[r].s] \in Users \cup {NoUser}
  BY <1>1 DEF TypeOK, Handlers
<1>3. p \in PCs
  BY DEF PCs
<1>4. [h[r] EXCEPT !.pc = p, !.user = uid[h[r].s]] \in Handlers
  BY <1>1, <1>2, <1>3 DEF Handlers
<1>5. h' = [h EXCEPT ![r] = [h[r] EXCEPT !.pc = p, !.user = uid[h[r].s]]]
  BY <1>1 DEF LoadUser, Handlers, TypeOK
<1> QED
  BY <1>1, <1>4, <1>5 DEF TypeOK, Handlers

\* A restart ends every handler that has begun.
LEMMA RestartFacts ==
    ASSUME TypeOK, Restart
    PROVE  /\ h' \in [Reqs -> Handlers \cup {New}]
           /\ \A q \in Reqs : h'[q].pc \in {"new", "end"}
           /\ \A q \in Reqs : h[q].pc # "new" =>
                 /\ h'[q].pc = "end"
                 /\ h'[q].s = h[q].s /\ h'[q].user = h[q].user
                 /\ h'[q].code = h[q].code /\ h'[q].good = h[q].good
           /\ \A q \in Reqs : h[q].pc = "new" => h'[q].pc = "new"
<1>1. ASSUME NEW q \in Reqs, h[q].pc # "new"
      PROVE  /\ [h[q] EXCEPT !.pc = "end"] \in Handlers
             /\ [h[q] EXCEPT !.pc = "end"].pc = "end"
             /\ [h[q] EXCEPT !.pc = "end"].s = h[q].s
             /\ [h[q] EXCEPT !.pc = "end"].user = h[q].user
             /\ [h[q] EXCEPT !.pc = "end"].code = h[q].code
             /\ [h[q] EXCEPT !.pc = "end"].good = h[q].good
  BY <1>1, Begun DEF Handlers, PCs
<1> QED
  BY <1>1 DEF Restart, At, New, TypeOK

\* StartConfirm fills a slot with a confirming request.
LEMMA ConfirmRecord ==
    ASSUME TypeOK, NEW r \in Reqs, NEW s \in Sessions, NEW u \in Users,
           NEW right \in BOOLEAN, StartConfirm(r, s, u, right)
    PROVE  /\ h' \in [Reqs -> Handlers \cup {New}]
           /\ \A q \in Reqs : q # r => h'[q] = h[q]
           /\ h'[r].pc \in {"decline", "confirm", "end"}
           /\ h'[r].pc # "end" => Exists(s)
           /\ h'[r].s = s /\ h'[r].user = u /\ h'[r].code = NoCode
           /\ h'[r].pc = "confirm" => h'[r].good
<1>1. ConfirmPath(s, right) \in {"decline", "confirm", "end"}
  BY DEF ConfirmPath
<1>0. ConfirmPath(s, right) # "end" => Exists(s)
  BY DEF ConfirmPath
<1>2. ConfirmPath(s, right) = "confirm" => right /\ s \notin expired /\ st[s] = "Pending"
  BY DEF ConfirmPath
<1> DEFINE x == [pc |-> ConfirmPath(s, right), s |-> s, user |-> u,
                 code |-> NoCode,
                 good |-> right /\ s \notin expired /\ st[s] = "Pending"]
<1>3. x \in Handlers
  BY <1>1 DEF Handlers, PCs
<1>4. /\ x.pc \in {"decline", "confirm", "end"} /\ x.s = s /\ x.user = u
      /\ x.code = NoCode /\ (x.pc # "end" => Exists(s))
  BY <1>0, <1>1
<1>5. x.pc = "confirm" => x.good
  BY <1>2, Zenon
<1>6. h' = [h EXCEPT ![r] = x]
  BY DEF StartConfirm
<1> HIDE DEF x
<1> QED
  BY <1>3, <1>4, <1>5, <1>6 DEF TypeOK

\* StartFinalize fills a slot with a finalizing request.
LEMMA FinalizeRecord ==
    ASSUME TypeOK, NEW r \in Reqs, NEW s \in Sessions, NEW c \in Clients,
           NEW k \in CodesOf(c), StartFinalize(r, s, k)
    PROVE  /\ h' \in [Reqs -> Handlers \cup {New}]
           /\ \A q \in Reqs : q # r => h'[q] = h[q]
           /\ h'[r].pc \in {"use", "end"}
           /\ h'[r].pc # "end" => Exists(s)
           /\ h'[r].s = s /\ h'[r].code # NoCode /\ ~h'[r].good
<1>1. k \in Reqs \cup {WrongCode} /\ k # NoCode
  BY NamesAssumption DEF CodesOf, TypeOK, Messages, Codes
<1> DEFINE x == [pc |-> IF Finalizable(s) THEN "use" ELSE "end", s |-> s,
                 user |-> NoUser, code |-> k, good |-> FALSE]
<1>2. x \in Handlers
  BY <1>1 DEF Handlers, PCs
<1>3. /\ x.pc \in {"use", "end"} /\ (x.pc # "end" => Exists(s))
      /\ x.s = s /\ x.code # NoCode /\ ~x.good
  BY <1>1 DEF Finalizable
<1>4. h' = [h EXCEPT ![r] = x]
  BY DEF StartFinalize
<1> HIDE DEF x
<1> QED
  BY <1>2, <1>3, <1>4 DEF TypeOK

\* Every action preserves the type invariant.
LEMMA TypeStep == TypeInv /\ [Next]_vars => TypeOK'
<1> SUFFICES ASSUME TypeOK, Shape, [Next]_vars PROVE TypeOK'
  BY DEF TypeInv
<1>0. CASE UNCHANGED vars
  BY <1>0 DEF TypeOK, vars
<1>1. ASSUME NEW s \in Sessions, CreateSession(s) \/ Expire(s) PROVE TypeOK'
  BY <1>1 DEF TypeOK, CreateSession, Expire, Statuses
<1>2. ASSUME NEW c \in Clients, NEW s \in Sessions,
             SubscribeToSession(c, s) \/ AddToGroup(c, s)
      PROVE  TypeOK'
  BY <1>2 DEF TypeOK, SubscribeToSession, AddToGroup
<1>3. ASSUME NEW c \in Clients, Disconnect(c) PROVE TypeOK'
  BY <1>3 DEF TypeOK, Disconnect
<1>4. ASSUME NEW r \in Reqs, NEW s \in Sessions, NEW u \in Users,
             NEW right \in BOOLEAN, StartConfirm(r, s, u, right)
      PROVE  TypeOK'
  BY <1>4, ConfirmRecord DEF TypeOK, StartConfirm
<1>5. ASSUME NEW r \in Reqs, NEW s \in Sessions, NEW c \in Clients,
             NEW k \in CodesOf(c), StartFinalize(r, s, k)
      PROVE  TypeOK'
  BY <1>5, FinalizeRecord DEF TypeOK, StartFinalize
<1>6. ASSUME NEW r \in Reqs, Progress(r) PROVE TypeOK'
  <2> USE DEF PCs
  <2>1. CASE DeclineStatus(r)
    BY <2>1, MoveFacts, BegunFields DEF TypeOK, DeclineStatus, At, Statuses
  <2>2. CASE ConfirmStatus(r)
    BY <2>2, MoveFacts, BegunFields DEF TypeOK, ConfirmStatus, WriteStatus, At, Statuses
  <2>3. CASE ConfirmUser(r)
    BY <2>3, MoveFacts, BegunFields DEF TypeOK, ConfirmUser, At
  <2>4. CASE ConfirmCode(r)
    BY <2>4, MoveFacts, BegunFields DEF TypeOK, ConfirmCode, At, Codes
  <2>5. CASE Notify(r)
    <3>1. MessageOf(r) \in Messages
      BY <2>5, BegunFields DEF TypeOK, Shape, Notify, At, MessageOf, Messages, Exists, Codes
    <3> QED
      BY <2>5, <3>1, MoveFacts DEF TypeOK, Notify, At
  <2>6. CASE UseSession(r)
    BY <2>6, MoveFacts, BegunFields
       DEF TypeOK, UseSession, UseStatus, WriteStatus, At, Statuses
  <2>7. CASE CompareCode(r)
    BY <2>7, MoveFacts DEF TypeOK, CompareCode, At
  <2>8. CASE LoadUser(r)
    BY <2>8, LoadFacts DEF TypeOK, LoadUser
  <2>9. CASE SignIn(r)
    <3>1. h[r].user \in users =>
            [req |-> r, s |-> h[r].s, user |-> h[r].user, code |-> h[r].code] \in Logins
      BY <2>9, BegunFields DEF TypeOK, Shape, SignIn, At, Logins
    <3> QED
      BY <2>9, <3>1, MoveFacts DEF TypeOK, SignIn, At
  <2> QED
    BY <1>6, <2>1, <2>2, <2>3, <2>4, <2>5, <2>6, <2>7, <2>8, <2>9 DEF Progress
<1>7. ASSUME NEW u \in Users, DelUser(u) PROVE TypeOK'
  BY <1>7 DEF TypeOK, DelUser
<1>8. CASE Restart
  BY <1>8, RestartFacts DEF TypeOK, Restart, Statuses
<1> QED
  BY <1>0, <1>1, <1>2, <1>3, <1>4, <1>5, <1>6, <1>7, <1>8 DEF Next

\* So does the shape of the handlers.
LEMMA ShapeStep == TypeInv /\ [Next]_vars => Shape'
<1> SUFFICES ASSUME TypeOK, Shape, [Next]_vars PROVE Shape'
  BY DEF TypeInv
<1> USE DEF Finalizing
<1>0. CASE UNCHANGED vars
  BY <1>0 DEF Shape, Exists, vars
<1>1. ASSUME NEW s \in Sessions, CreateSession(s) \/ Expire(s) PROVE Shape'
  BY <1>1, BegunFields DEF TypeOK, Shape, Exists, CreateSession, Expire, Statuses
<1>2. ASSUME NEW c \in Clients, NEW s \in Sessions,
             SubscribeToSession(c, s) \/ AddToGroup(c, s)
      PROVE  Shape'
  BY <1>2 DEF Shape, Exists, SubscribeToSession, AddToGroup
<1>3. ASSUME NEW c \in Clients, Disconnect(c) PROVE Shape'
  BY <1>3 DEF Shape, Exists, Disconnect
<1>4. ASSUME NEW r \in Reqs, NEW s \in Sessions, NEW u \in Users,
             NEW right \in BOOLEAN, StartConfirm(r, s, u, right)
      PROVE  Shape'
  <2>1. st' = st
    BY <1>4 DEF StartConfirm
  <2>2. /\ \A q \in Reqs : q # r => h'[q] = h[q]
        /\ h'[r].pc \in {"decline", "confirm", "end"}
        /\ h'[r].pc # "end" => Exists(h'[r].s)
    BY <1>4, ConfirmRecord
  <2> QED
    BY <2>1, <2>2 DEF Shape, Exists
<1>5. ASSUME NEW r \in Reqs, NEW s \in Sessions, NEW c \in Clients,
             NEW k \in CodesOf(c), StartFinalize(r, s, k)
      PROVE  Shape'
  BY <1>5, FinalizeRecord DEF Shape, Exists, StartFinalize
<1>6. ASSUME NEW r \in Reqs, Progress(r) PROVE Shape'
  <2> USE DEF PCs
  <2>1. CASE DeclineStatus(r)
    BY <2>1, MoveFacts, BegunFields
       DEF TypeOK, Shape, Exists, DeclineStatus, At, Statuses
  <2>2. CASE ConfirmStatus(r)
    BY <2>2, MoveFacts, BegunFields
       DEF TypeOK, Shape, Exists, ConfirmStatus, WriteStatus, At, Statuses
  <2>3. CASE ConfirmUser(r) \/ ConfirmCode(r) \/ Notify(r) \/ SignIn(r)
    BY <2>3, MoveFacts DEF Shape, Exists, ConfirmUser, ConfirmCode, Notify, SignIn, At
  <2>4. CASE UseSession(r)
    BY <2>4, MoveFacts, BegunFields
       DEF TypeOK, Shape, Exists, UseSession, UseStatus, WriteStatus, At, Statuses
  <2>5. CASE CompareCode(r)
    BY <2>5, MoveFacts, BegunFields
       DEF TypeOK, Shape, Exists, CompareCode, CodeMatches, Codes, At
  <2>6. CASE LoadUser(r)
    <3>1. st' = st /\ h[r].pc = "load"
      BY <2>6 DEF LoadUser, At
    <3>2. /\ \A q \in Reqs : q # r => h'[q] = h[q]
          /\ h'[r].pc \in {"signin", "end"}
          /\ h'[r].s = h[r].s /\ h'[r].code = h[r].code /\ h'[r].good = h[r].good
      BY <2>6, LoadFacts
    <3> QED
      BY <3>1, <3>2 DEF Shape, Exists
  <2> QED
    BY <1>6, <2>1, <2>2, <2>3, <2>4, <2>5, <2>6 DEF Progress
<1>7. ASSUME NEW u \in Users, DelUser(u) PROVE Shape'
  BY <1>7 DEF Shape, Exists, DelUser
<1>8. CASE Restart
  BY <1>8, RestartFacts DEF Shape
<1> QED
  BY <1>0, <1>1, <1>2, <1>3, <1>4, <1>5, <1>6, <1>7, <1>8 DEF Next

\* The initial states have the types and the shape.
LEMMA TypeInit == Init => TypeInv
BY DEF Init, TypeInv, TypeOK, Shape, New, Finalizing, Codes

\* Every reachable state has the types, and every handler in progress its session.
THEOREM QuickAuthTypes == Spec => []TypeOK
<1>1. TypeInv /\ [Next]_vars => TypeInv'
  BY TypeStep, ShapeStep DEF TypeInv
<1>2. TypeInv => TypeOK
  BY DEF TypeInv
<1> QED
  BY <1>1, <1>2, TypeInit, PTL DEF Spec

-----------------------------------------------------------------------------
(* Where a sign-in comes from *)

Writing == {"uid", "code", "send"}

\* Request r picked the right number of session s in time.
Good(r, s) == h[r].pc # "new" /\ h[r].good /\ h[r].s = s

\* The user, the code and the message of a session go back to such a request.
Handled ==
    \A r \in Reqs :
        /\ h[r].pc \in Writing \cup {"confirm"} => h[r].good /\ h[r].user \in Users
        /\ h[r].pc \in {"load", "signin"} => Good(h[r].code, h[r].s)
        /\ h[r].pc = "signin" =>
              \E q \in Reqs : Good(q, h[r].s) /\ h[q].user = h[r].user
Written ==
    \A s \in Sessions :
        /\ uid[s] # NoUser => \E r \in Reqs : Good(r, s) /\ h[r].user = uid[s]
        /\ code[s] # NoCode => Good(code[s], s)
Recorded ==
    /\ \A l \in logins : /\ Good(l.code, l.s)
                         /\ \E r \in Reqs : Good(r, l.s) /\ h[r].user = l.user
    /\ \A c \in Clients : \A m \in heard[c] : m.code # NoCode => Good(m.code, m.s)
Sources == Handled /\ Written /\ Recorded

\* A request keeps its session for ever, and a confirming one its user.
LEMMA Kept ==
    ASSUME TypeInv, [Next]_vars, NEW q \in Reqs, h[q].pc # "new"
    PROVE  /\ h'[q].pc # "new" /\ h'[q].s = h[q].s /\ h'[q].good = h[q].good
           /\ h[q].good => h'[q].user = h[q].user
           /\ h[q].pc \in Finalizing => h'[q].code = h[q].code
<1> USE DEF TypeInv
<1>1. ASSUME NEW r \in Reqs, Progress(r), ~LoadUser(r)
      PROVE  \E p \in PCs \ {"new"} : h[r].pc # "new" /\ Goto(r, p)
  BY <1>1 DEF Progress, DeclineStatus, ConfirmStatus, ConfirmUser, ConfirmCode, Notify,
     UseSession, CompareCode, SignIn, At, PCs
<1>2. CASE \E r \in Reqs : Progress(r) /\ ~LoadUser(r)
  BY <1>1, <1>2, MoveFacts
<1>3. CASE \E r \in Reqs : LoadUser(r)
  <2>1. PICK r \in Reqs : LoadUser(r)
    BY <1>3
  <2>2. /\ \A p \in Reqs : p # r => h'[p] = h[p]
        /\ h'[r].pc \in {"signin", "end"} /\ h'[r].s = h[r].s
        /\ h'[r].code = h[r].code /\ h'[r].good = h[r].good
    BY <2>1, LoadFacts
  <2>3. ~h[r].good
    BY <2>1 DEF LoadUser, At, Shape, Finalizing
  <2> QED
    BY <2>2, <2>3
<1>4. CASE \E r \in Reqs, s \in Sessions, u \in Users, right \in BOOLEAN :
              StartConfirm(r, s, u, right)
  BY <1>4, ConfirmRecord DEF StartConfirm, At
<1>5. CASE \E r \in Reqs, s \in Sessions, c \in Clients :
              \E k \in CodesOf(c) : StartFinalize(r, s, k)
  BY <1>5, FinalizeRecord DEF StartFinalize, At
<1>6. CASE Restart
  BY <1>6, RestartFacts
<1>7. CASE h' = h
  BY <1>7
<1> QED
  BY <1>2, <1>3, <1>4, <1>5, <1>6, <1>7
     DEF Next, vars, CreateSession, Expire, SubscribeToSession, AddToGroup,
         Disconnect, DelUser

\* So a good request stays good, with its user.
LEMMA GoodKept ==
    ASSUME TypeInv, [Next]_vars
    PROVE  \A q \in Reqs, s \in Sessions :
              Good(q, s) => Good(q, s)' /\ h'[q].user = h[q].user
BY Kept DEF Good

\* Sign-ins and messages stay true of the past.
LEMMA RecordedStep == TypeInv /\ Sources /\ [Next]_vars => Recorded'
<1> SUFFICES ASSUME TypeInv, TypeOK, Shape, Sources, Handled, Written, Recorded, [Next]_vars
             PROVE  Recorded'
  BY DEF Sources, TypeInv
<1>1. CASE UNCHANGED <<logins, heard>>
  BY <1>1, GoodKept DEF Recorded, TypeOK, Logins, Messages, Codes
<1>2. ASSUME NEW r \in Reqs, Notify(r) PROVE Recorded'
  <2>1. MessageOf(r).code # NoCode => Good(MessageOf(r).code, MessageOf(r).s)
    BY <1>2, BegunFields DEF MessageOf, Written, Notify, At, TypeOK
  <2>2. MessageOf(r).code \in Codes /\ MessageOf(r).s \in Sessions
    BY <1>2, BegunFields DEF MessageOf, Notify, At, TypeOK, Codes
  <2>3. \A c \in Clients : \A m \in heard'[c] : m \in heard[c] \/ m = MessageOf(r)
    BY <1>2 DEF Notify, TypeOK
  <2>4. \A c \in Clients : \A m \in heard'[c] : m.code # NoCode =>
           Good(m.code, m.s) /\ m.code \in Reqs /\ m.s \in Sessions
    BY <2>1, <2>2, <2>3 DEF Recorded, TypeOK, Messages, Codes
  <2>5. logins' = logins
    BY <1>2 DEF Notify
  <2> QED
    BY <2>4, <2>5, GoodKept DEF Recorded, TypeOK, Logins
<1>3. ASSUME NEW r \in Reqs, SignIn(r) PROVE Recorded'
  <2> DEFINE x == [req |-> r, s |-> h[r].s, user |-> h[r].user, code |-> h[r].code]
  <2>1. /\ Good(x.code, x.s) /\ x.code \in Reqs /\ x.s \in Sessions
        /\ \E q \in Reqs : Good(q, x.s) /\ h[q].user = x.user
    BY <1>3, BegunFields DEF SignIn, At, Handled, Shape
  <2>2. heard' = heard /\ logins' \subseteq logins \cup {x}
    BY <1>3 DEF SignIn
  <2> HIDE DEF x
  <2>3. \A l \in logins' : /\ Good(l.code, l.s) /\ l.code \in Reqs /\ l.s \in Sessions
                           /\ \E q \in Reqs : Good(q, l.s) /\ h[q].user = l.user
    BY <2>1, <2>2 DEF Recorded, TypeOK, Logins
  <2> QED
    BY <2>2, <2>3, GoodKept DEF Recorded, TypeOK, Messages, Codes
<1> QED
  BY <1>1, <1>2, <1>3
     DEF Next, vars, CreateSession, Expire, SubscribeToSession, AddToGroup,
         Disconnect, DelUser, Restart, StartConfirm, StartFinalize, Progress,
         DeclineStatus, ConfirmStatus, ConfirmUser, ConfirmCode, UseSession,
         CompareCode, LoadUser

\* The fields of a session are written by good requests only.
LEMMA WrittenStep == TypeInv /\ Sources /\ [Next]_vars => Written'
<1> SUFFICES ASSUME TypeInv, TypeOK, Shape, Sources, Handled, Written, [Next]_vars
             PROVE  Written'
  BY DEF Sources, TypeInv
<1>1. CASE UNCHANGED <<uid, code>>
  BY <1>1, GoodKept DEF Written, TypeOK, Codes
<1>2. ASSUME NEW r \in Reqs, ConfirmUser(r) PROVE Written'
  <2>1. Good(r, h[r].s) /\ h[r].s \in Sessions
    BY <1>2, BegunFields DEF ConfirmUser, At, Handled, Writing, Good
  <2>2. code' = code /\ uid' = [uid EXCEPT ![h[r].s] = h[r].user]
    BY <1>2 DEF ConfirmUser
  <2> QED
    BY <2>1, <2>2, GoodKept DEF Written, TypeOK, Codes
<1>3. ASSUME NEW r \in Reqs, ConfirmCode(r) PROVE Written'
  <2>1. Good(r, h[r].s) /\ h[r].s \in Sessions
    BY <1>3, BegunFields DEF ConfirmCode, At, Handled, Writing, Good
  <2>2. uid' = uid /\ code' = [code EXCEPT ![h[r].s] = r]
    BY <1>3 DEF ConfirmCode
  <2> QED
    BY <2>1, <2>2, GoodKept DEF Written, TypeOK, Codes
<1> QED
  BY <1>1, <1>2, <1>3
     DEF Next, vars, CreateSession, Expire, SubscribeToSession, AddToGroup,
         Disconnect, DelUser, Restart, StartConfirm, StartFinalize, Progress,
         DeclineStatus, ConfirmStatus, Notify, UseSession, CompareCode, LoadUser,
         SignIn

\* What a handler is about to do rests on good requests.
LEMMA HandledStep == TypeInv /\ Sources /\ [Next]_vars => Handled'
<1> SUFFICES ASSUME TypeInv, TypeOK, Shape, Sources, Handled, Written, [Next]_vars
             PROVE  Handled'
  BY DEF Sources, TypeInv
<1> USE DEF Writing
<1>1. CASE h' = h
  BY <1>1 DEF Handled, Good
<1>2. ASSUME NEW r \in Reqs, NEW p \in PCs \ {"load", "signin"},
             h[r].pc # "new", Goto(r, p),
             p \in Writing => h[r].pc \in Writing \cup {"confirm"}, p # "confirm"
      PROVE  Handled'
  <2>1. \A q \in Reqs : q # r => h'[q] = h[q]
    BY <1>2, MoveFacts
  <2>2. h'[r].pc = p /\ h'[r].good = h[r].good /\ h'[r].user = h[r].user
    BY <1>2, MoveFacts
  <2>3. \A q \in Reqs : h'[q].pc \in {"load", "signin"} =>
           /\ q # r /\ h[q].s \in Sessions /\ h[q].code \in Reqs
    BY <1>2, <2>1, <2>2, BegunFields DEF Shape
  <2> QED
    BY <1>2, <2>1, <2>2, <2>3, GoodKept DEF Handled
<1>3. ASSUME NEW r \in Reqs, CompareCode(r) PROVE Handled'
  <2> DEFINE p == IF CodeMatches(r) THEN "load" ELSE "end"
  <2>0. p \in PCs /\ h[r].pc = "compare" /\ Goto(r, p)
    BY <1>3 DEF CompareCode, At, PCs
  <2>1. \A q \in Reqs : q # r => h'[q] = h[q]
    BY <2>0, MoveFacts
  <2>2. h'[r].pc = p /\ h'[r].s = h[r].s /\ h'[r].code = h[r].code
    BY <2>0, MoveFacts
  <2>3. p = "load" => Good(h[r].code, h[r].s) /\ h[r].code \in Reqs
    BY <2>0, BegunFields DEF CodeMatches, Written, Shape, Finalizing, TypeOK, Codes
  <2>4. \A q \in Reqs : h[q].pc \in {"load", "signin"} =>
           h[q].s \in Sessions /\ h[q].code \in Reqs
    BY BegunFields DEF Shape
  <2>5. h[r].s \in Sessions /\ p \in {"load", "end"}
    BY <2>0, BegunFields
  <2> HIDE DEF p
  <2> QED
    BY <2>1, <2>2, <2>3, <2>4, <2>5, GoodKept DEF Handled
<1>4. ASSUME NEW r \in Reqs, LoadUser(r) PROVE Handled'
  <2>1. \A q \in Reqs : q # r => h'[q] = h[q]
    BY <1>4, LoadFacts
  <2>2. /\ h'[r].pc = IF uid[h[r].s] \in users THEN "signin" ELSE "end"
        /\ h'[r].s = h[r].s /\ h'[r].code = h[r].code /\ h'[r].user = uid[h[r].s]
        /\ h[r].pc = "load"
    BY <1>4, LoadFacts DEF LoadUser, At
  <2>3. \A q \in Reqs : h[q].pc \in {"load", "signin"} =>
           h[q].s \in Sessions /\ h[q].code \in Reqs
    BY BegunFields DEF Shape
  <2>4. uid[h[r].s] \in users =>
           \E q \in Reqs : Good(q, h[r].s) /\ h[q].user = uid[h[r].s]
    BY <2>2, <2>3, NamesAssumption DEF Written, TypeOK
  <2> QED
    BY <2>1, <2>2, <2>3, <2>4, GoodKept DEF Handled
<1>5. ASSUME NEW r \in Reqs, NEW s \in Sessions, NEW u \in Users,
             NEW right \in BOOLEAN, StartConfirm(r, s, u, right)
      PROVE  Handled'
  <2>1. \A q \in Reqs : q # r => h'[q] = h[q]
    BY <1>5, ConfirmRecord
  <2>2. /\ h'[r].pc \in {"decline", "confirm", "end"} /\ h'[r].user \in Users
        /\ h'[r].pc = "confirm" => h'[r].good
    BY <1>5, ConfirmRecord
  <2>3. \A q \in Reqs : h[q].pc \in {"load", "signin"} =>
           h[q].s \in Sessions /\ h[q].code \in Reqs
    BY BegunFields DEF Shape
  <2> QED
    BY <2>1, <2>2, <2>3, GoodKept DEF Handled
<1>6. ASSUME NEW r \in Reqs, NEW s \in Sessions, NEW c \in Clients,
             NEW k \in CodesOf(c), StartFinalize(r, s, k)
      PROVE  Handled'
  <2>1. \A q \in Reqs : q # r => h'[q] = h[q]
    BY <1>6, FinalizeRecord
  <2>2. h'[r].pc \in {"use", "end"}
    BY <1>6, FinalizeRecord
  <2>3. \A q \in Reqs : h[q].pc \in {"load", "signin"} =>
           h[q].s \in Sessions /\ h[q].code \in Reqs
    BY BegunFields DEF Shape
  <2> QED
    BY <2>1, <2>2, <2>3, GoodKept DEF Handled
<1>7. CASE Restart
  BY <1>7, RestartFacts DEF Handled
<1>8. ASSUME NEW r \in Reqs, Progress(r), ~CompareCode(r), ~LoadUser(r)
      PROVE  Handled'
  BY <1>2, <1>8 DEF Progress, DeclineStatus, ConfirmStatus, ConfirmUser, ConfirmCode,
     Notify, UseSession, SignIn, At, PCs
<1> QED
  BY <1>1, <1>3, <1>4, <1>5, <1>6, <1>7, <1>8
     DEF Next, vars, CreateSession, Expire, SubscribeToSession, AddToGroup,
         Disconnect, DelUser

\* No request has begun in an initial state.
LEMMA SourcesInit == Init => TypeInv /\ Sources
BY TypeInit DEF Init, Sources, Handled, Written, Recorded, New, Writing

\* Every action preserves the three parts together with the types.
LEMMA SourcesStep == TypeInv /\ Sources /\ [Next]_vars => TypeInv' /\ Sources'
BY TypeStep, ShapeStep, HandledStep, WrittenStep, RecordedStep DEF Sources, TypeInv

\* Every sign-in is for a user who picked the right number in time.
THEOREM OnlyConfirmedUsers == Spec => []LoginsConfirmed
<1>1. Sources => LoginsConfirmed
  BY DEF Sources, Recorded, LoginsConfirmed, Good
<1> QED
  BY <1>1, SourcesInit, SourcesStep, PTL DEF Spec

\* Every code a client has heard was drawn by a good request of that session.
THEOREM HeardCodes == Spec => []HeardCodesIssued
<1>1. Sources => HeardCodesIssued
  BY DEF Sources, Recorded, HeardCodesIssued, Good
<1> QED
  BY <1>1, SourcesInit, SourcesStep, PTL DEF Spec

-----------------------------------------------------------------------------
(* One writer, one use *)

\* A session whose Status was never overwritten blindly has one writer, and its
\* code and its user come from that writer.
OneWriterOf(s) ==
    /\ st[s] \in {"None", "Pending"} =>
          /\ uid[s] = NoUser /\ code[s] = NoCode
          /\ \A r \in Reqs : h[r].pc \in Writing => h[r].s # s
    /\ \A r \in Reqs : h[r].pc \in {"uid", "code"} /\ h[r].s = s =>
          /\ code[s] = NoCode
          /\ uid[s] = IF h[r].pc = "uid" THEN NoUser ELSE h[r].user
    /\ \A r1, r2 \in Reqs :
          /\ h[r1].pc \in Writing /\ h[r1].s = s
          /\ h[r2].pc \in Writing /\ h[r2].s = s
          => r1 = r2
    /\ code[s] # NoCode => h[code[s]].user = uid[s]
    /\ \A r \in Reqs : h[r].pc = "load" /\ h[r].s = s => code[s] = h[r].code
    /\ \A r \in Reqs : h[r].pc = "signin" /\ h[r].s = s =>
          h[h[r].code].user = h[r].user
    /\ \A l \in logins : l.s = s => h[l.code].user = l.user
OneWriter == \A s \in Sessions \ stale : OneWriterOf(s)

\* The requests that have spent the session and not yet ended.
Spent == {"compare", "load", "signin"}

\* It is spent by one request.
OneUseOf(s) ==
    /\ st[s] \in {"None", "Pending", "Confirmed"} =>
          /\ \A r \in Reqs : h[r].pc \in Spent => h[r].s # s
          /\ \A l \in logins : l.s # s
    /\ \A r1, r2 \in Reqs :
          /\ h[r1].pc \in Spent /\ h[r1].s = s
          /\ h[r2].pc \in Spent /\ h[r2].s = s
          => r1 = r2
    /\ \A r \in Reqs : h[r].pc \in Spent /\ h[r].s = s => \A l \in logins : l.s # s
    /\ \A l1, l2 \in logins : l1.s = s /\ l2.s = s => l1 = l2
OneUse == \A s \in Sessions \ stale : OneUseOf(s)

\* Only a write of Status after it had changed makes a session stale, for ever.
LEMMA StaleGrows == [Next]_vars => stale \subseteq stale'
BY DEF Next, vars, CreateSession, Expire, SubscribeToSession, AddToGroup, Disconnect,
   DelUser, Restart, StartConfirm, StartFinalize, Progress, DeclineStatus,
   ConfirmStatus, ConfirmUser, ConfirmCode, Notify, UseSession, UseStatus,
   WriteStatus, CompareCode, LoadUser, SignIn

\* Every action keeps a session single-use.
LEMMA OneUseStep == TypeInv /\ OneUse /\ [Next]_vars => OneUse'
<1> SUFFICES ASSUME TypeInv, TypeOK, Shape, OneUse, [Next]_vars,
                    NEW s \in Sessions, s \notin stale'
             PROVE  OneUseOf(s)'
  BY DEF OneUse, TypeInv
<1> USE DEF Spent
<1>0. OneUseOf(s)
  BY StaleGrows DEF OneUse
<1>1. ASSUME logins' = logins,
             st'[s] \in {"None", "Pending", "Confirmed"} =>
                st[s] \in {"None", "Pending", "Confirmed"},
             \A q \in Reqs : h'[q].pc \in Spent =>
                h[q].pc \in Spent /\ h'[q].s = h[q].s
      PROVE  OneUseOf(s)'
  BY <1>0, <1>1 DEF OneUseOf
<1>2. ASSUME NEW r \in Reqs, Progress(r) PROVE OneUseOf(s)'
  <2>1. CASE DeclineStatus(r) \/ ConfirmStatus(r) \/ ConfirmUser(r) \/ ConfirmCode(r)
             \/ Notify(r)
    <3>1. \E p \in PCs \ Spent : h[r].pc # "new" /\ Goto(r, p)
      BY <2>1 DEF DeclineStatus, ConfirmStatus, ConfirmUser, ConfirmCode, Notify, At, PCs
    <3>2. \A q \in Reqs : h'[q].pc \in Spent => h[q].pc \in Spent /\ h'[q].s = h[q].s
      BY <3>1, MoveFacts
    <3>3. h[r].pc # "new" /\ h[r].s \in Sessions
      BY <3>1, BegunFields
    <3>4. /\ logins' = logins
          /\ st'[s] \in {"None", "Pending", "Confirmed"} =>
                st[s] \in {"None", "Pending", "Confirmed"}
      BY <2>1, <3>3 DEF TypeOK, DeclineStatus, ConfirmStatus, WriteStatus, ConfirmUser,
         ConfirmCode, Notify
    <3> QED
      BY <1>1, <3>2, <3>4
  <2>2. CASE UseSession(r)
    <3>1. "compare" \in PCs /\ h[r].pc = "use" /\ Goto(r, "compare")
      BY <2>2 DEF UseSession, At, PCs
    <3>2. /\ \A q \in Reqs : q # r => h'[q] = h[q]
          /\ h'[r].s = h[r].s /\ h[r].s \in Sessions
      BY <3>1, MoveFacts, BegunFields
    <3>3. logins' = logins /\ st' = [st EXCEPT ![h[r].s] = "Used"]
      BY <2>2 DEF UseSession, UseStatus, WriteStatus
    <3>4. h[r].s = s => st[s] = "Confirmed"
      BY <2>2 DEF UseSession, UseStatus, WriteStatus
    <3> QED
      BY <1>0, <3>2, <3>3, <3>4 DEF OneUseOf, TypeOK
  <2>3. CASE CompareCode(r)
    <3>1. /\ h[r].pc = "compare" /\ UNCHANGED <<st, logins>>
          /\ \E p \in PCs : Goto(r, p)
      BY <2>3 DEF CompareCode, At, PCs
    <3>2. \A q \in Reqs : h'[q].pc \in Spent => h[q].pc \in Spent /\ h'[q].s = h[q].s
      BY <3>1, MoveFacts
    <3> QED
      BY <1>1, <3>1, <3>2
  <2>4. CASE LoadUser(r)
    <3>1. h[r].pc = "load" /\ UNCHANGED <<st, logins>>
      BY <2>4 DEF LoadUser, At
    <3>2. \A q \in Reqs : h'[q].pc \in Spent => h[q].pc \in Spent /\ h'[q].s = h[q].s
      BY <2>4, <3>1, LoadFacts
    <3> QED
      BY <1>1, <3>1, <3>2
  <2>5. CASE SignIn(r)
    <3> DEFINE x == [req |-> r, s |-> h[r].s, user |-> h[r].user, code |-> h[r].code]
    <3>1. h[r].pc = "signin" /\ st' = st /\ Goto(r, "end") /\ "end" \in PCs
      BY <2>5 DEF SignIn, At, PCs
    <3>2. /\ \A q \in Reqs : q # r => h'[q] = h[q]
          /\ h'[r].pc = "end"
      BY <3>1, MoveFacts
    <3>3. logins' \subseteq logins \cup {x} /\ x.s = h[r].s
      BY <2>5 DEF SignIn
    <3> HIDE DEF x
    <3> QED
      BY <1>0, <3>1, <3>2, <3>3 DEF OneUseOf
  <2> QED
    BY <1>2, <2>1, <2>2, <2>3, <2>4, <2>5 DEF Progress
<1>3. ASSUME NEW x \in Sessions, CreateSession(x) PROVE OneUseOf(s)'
  BY <1>1, <1>3 DEF CreateSession, TypeOK
<1>4. ASSUME NEW r \in Reqs, NEW x \in Sessions, NEW u \in Users,
             NEW right \in BOOLEAN, StartConfirm(r, x, u, right)
      PROVE  OneUseOf(s)'
  BY <1>1, <1>4, ConfirmRecord DEF StartConfirm
<1>5. ASSUME NEW r \in Reqs, NEW x \in Sessions, NEW c \in Clients,
             NEW k \in CodesOf(c), StartFinalize(r, x, k)
      PROVE  OneUseOf(s)'
  BY <1>1, <1>5, FinalizeRecord DEF StartFinalize
<1>6. CASE Restart
  BY <1>1, <1>6, RestartFacts DEF Restart, Exists, Statuses, TypeOK
<1>7. CASE UNCHANGED <<h, logins, st>>
  BY <1>0, <1>7 DEF OneUseOf
<1> QED
  BY <1>2, <1>3, <1>4, <1>5, <1>6, <1>7
     DEF Next, vars, CreateSession, Expire, SubscribeToSession, AddToGroup,
         Disconnect, DelUser

\* Every action keeps the single writer of a session.
LEMMA OneWriterStep == TypeInv /\ Sources /\ OneWriter /\ [Next]_vars => OneWriter'
<1> SUFFICES ASSUME TypeInv, TypeOK, Shape, Handled, Written, Recorded, OneWriter,
                    [Next]_vars, NEW s \in Sessions, s \notin stale'
             PROVE  OneWriterOf(s)'
  BY DEF OneWriter, TypeInv, Sources
<1> USE DEF Writing
<1>0. OneWriterOf(s)
  BY StaleGrows DEF OneWriter
<1> DEFINE Same(q) == h'[q].user = h[q].user
<1>a. /\ code[s] # NoCode => code[s] \in Reqs /\ Same(code[s])
      /\ \A r \in Reqs : h[r].pc \in {"load", "signin"} =>
            h[r].code \in Reqs /\ Same(h[r].code)
      /\ \A l \in logins : Same(l.code)
  BY GoodKept, BegunFields DEF Written, Handled, Recorded, Shape, TypeOK, Codes, Logins
<1>1. ASSUME logins' = logins, uid'[s] = uid[s], code'[s] = code[s],
             st'[s] \in {"None", "Pending"} => st[s] \in {"None", "Pending"},
             \A q \in Reqs : h'[q].pc \in Writing \cup {"load", "signin"} => h'[q] = h[q]
      PROVE  OneWriterOf(s)'
  BY <1>0, <1>a, <1>1 DEF OneWriterOf
<1>2. ASSUME NEW r \in Reqs, Progress(r) PROVE OneWriterOf(s)'
  <2>1. CASE DeclineStatus(r) \/ Notify(r) \/ UseSession(r)
    <3>1. \E p \in PCs \ (Writing \cup {"load", "signin"}) :
             h[r].pc # "new" /\ Goto(r, p)
      BY <2>1 DEF DeclineStatus, Notify, UseSession, At, PCs
    <3>2. \A q \in Reqs : h'[q].pc \in Writing \cup {"load", "signin"} => h'[q] = h[q]
      BY <3>1, MoveFacts
    <3>3. h[r].s \in Sessions
      BY <3>1, BegunFields
    <3>4. /\ logins' = logins /\ uid' = uid /\ code' = code
          /\ st'[s] \in {"None", "Pending"} => st[s] \in {"None", "Pending"}
      BY <2>1, <3>3 DEF TypeOK, DeclineStatus, Notify, UseSession, UseStatus, WriteStatus
    <3> QED
      BY <1>1, <3>2, <3>4
  <2>2. CASE ConfirmStatus(r)
    <3>1. h[r].pc = "confirm" /\ Goto(r, "uid") /\ "uid" \in PCs
      BY <2>2 DEF ConfirmStatus, At, PCs
    <3>2. /\ \A q \in Reqs : q # r => h'[q] = h[q]
          /\ h'[r].pc = "uid" /\ h'[r].s = h[r].s /\ h'[r].user = h[r].user
          /\ h[r].s \in Sessions
      BY <3>1, MoveFacts, BegunFields
    <3>3. /\ logins' = logins /\ uid' = uid /\ code' = code
          /\ st' = [st EXCEPT ![h[r].s] = "Confirmed"]
      BY <2>2 DEF ConfirmStatus, WriteStatus
    <3>4. h[r].s = s => st[s] = "Pending"
      BY <2>2 DEF ConfirmStatus, WriteStatus
    <3> QED
      BY <1>0, <1>a, <3>2, <3>3, <3>4 DEF OneWriterOf, TypeOK
  <2>3. CASE ConfirmUser(r)
    <3>1. h[r].pc = "uid" /\ Goto(r, "code") /\ "code" \in PCs
      BY <2>3 DEF ConfirmUser, At, PCs
    <3>2. /\ \A q \in Reqs : q # r => h'[q] = h[q]
          /\ h'[r].pc = "code" /\ h'[r].s = h[r].s /\ h'[r].user = h[r].user
          /\ h[r].s \in Sessions
      BY <3>1, MoveFacts, BegunFields
    <3>3. /\ logins' = logins /\ st' = st /\ code' = code
          /\ uid' = [uid EXCEPT ![h[r].s] = h[r].user]
      BY <2>3 DEF ConfirmUser
    <3> QED
      BY <1>0, <1>a, <3>1, <3>2, <3>3 DEF OneWriterOf, TypeOK
  <2>4. CASE ConfirmCode(r)
    <3>1. h[r].pc = "code" /\ Goto(r, "send") /\ "send" \in PCs
      BY <2>4 DEF ConfirmCode, At, PCs
    <3>2. /\ \A q \in Reqs : q # r => h'[q] = h[q]
          /\ h'[r].pc = "send" /\ h'[r].s = h[r].s /\ h'[r].user = h[r].user
          /\ h[r].s \in Sessions
      BY <3>1, MoveFacts, BegunFields
    <3>3. /\ logins' = logins /\ st' = st /\ uid' = uid
          /\ code' = [code EXCEPT ![h[r].s] = r]
      BY <2>4 DEF ConfirmCode
    <3>4. \A q \in Reqs : h[q].pc = "load" => h[q].code # NoCode
      BY DEF Shape, Finalizing
    <3> QED
      BY <1>0, <1>a, <3>1, <3>2, <3>3, <3>4 DEF OneWriterOf, TypeOK
  <2>5. CASE CompareCode(r)
    <3> DEFINE p == IF CodeMatches(r) THEN "load" ELSE "end"
    <3>1. h[r].pc = "compare" /\ Goto(r, p) /\ p \in PCs /\ p \in {"load", "end"}
      BY <2>5 DEF CompareCode, At, PCs
    <3>2. /\ \A q \in Reqs : q # r => h'[q] = h[q]
          /\ h'[r].pc = p /\ h'[r].s = h[r].s /\ h'[r].code = h[r].code
      BY <3>1, MoveFacts
    <3>3. logins' = logins /\ st' = st /\ uid' = uid /\ code' = code
      BY <2>5 DEF CompareCode
    <3>4. p = "load" => code[h[r].s] = h[r].code
      BY DEF CodeMatches
    <3> HIDE DEF p
    <3> QED
      BY <1>0, <1>a, <3>1, <3>2, <3>3, <3>4 DEF OneWriterOf
  <2>6. CASE LoadUser(r)
    <3>1. /\ h[r].pc = "load" /\ logins' = logins /\ st' = st /\ uid' = uid
          /\ code' = code
      BY <2>6 DEF LoadUser, At
    <3>2. /\ \A q \in Reqs : q # r => h'[q] = h[q]
          /\ h'[r].pc \in {"signin", "end"} /\ h'[r].s = h[r].s
          /\ h'[r].code = h[r].code /\ h'[r].user = uid[h[r].s]
      BY <2>6, LoadFacts
    <3>3. h[r].code # NoCode
      BY <3>1 DEF Shape, Finalizing
    <3> QED
      BY <1>0, <1>a, <3>1, <3>2, <3>3 DEF OneWriterOf
  <2>7. CASE SignIn(r)
    <3> DEFINE x == [req |-> r, s |-> h[r].s, user |-> h[r].user, code |-> h[r].code]
    <3>1. /\ h[r].pc = "signin" /\ st' = st /\ uid' = uid /\ code' = code
          /\ Goto(r, "end") /\ "end" \in PCs
      BY <2>7 DEF SignIn, At, PCs
    <3>2. (\A q \in Reqs : q # r => h'[q] = h[q]) /\ h'[r].pc = "end"
      BY <3>1, MoveFacts
    <3>3. /\ logins' \subseteq logins \cup {x}
          /\ x.s = h[r].s /\ x.user = h[r].user /\ x.code = h[r].code
      BY <2>7 DEF SignIn
    <3> HIDE DEF x
    <3> QED
      BY <1>0, <1>a, <3>1, <3>2, <3>3 DEF OneWriterOf
  <2> QED
    BY <1>2, <2>1, <2>2, <2>3, <2>4, <2>5, <2>6, <2>7 DEF Progress
<1>3. ASSUME NEW x \in Sessions, CreateSession(x) PROVE OneWriterOf(s)'
  BY <1>1, <1>3 DEF CreateSession, TypeOK
<1>4. ASSUME NEW r \in Reqs, NEW x \in Sessions, NEW u \in Users,
             NEW right \in BOOLEAN, StartConfirm(r, x, u, right)
      PROVE  OneWriterOf(s)'
  BY <1>1, <1>4, ConfirmRecord DEF StartConfirm
<1>5. ASSUME NEW r \in Reqs, NEW x \in Sessions, NEW c \in Clients,
             NEW k \in CodesOf(c), StartFinalize(r, x, k)
      PROVE  OneWriterOf(s)'
  BY <1>1, <1>5, FinalizeRecord DEF StartFinalize
<1>6. CASE Restart
  BY <1>1, <1>6, RestartFacts DEF Restart, Exists, Statuses, TypeOK
<1>7. CASE UNCHANGED <<h, logins, st, uid, code>>
  BY <1>1, <1>7
<1> QED
  BY <1>2, <1>3, <1>4, <1>5, <1>6, <1>7
     DEF Next, vars, CreateSession, Expire, SubscribeToSession, AddToGroup,
         Disconnect, DelUser

\* No session has a writer or a user in an initial state.
LEMMA OneInit == Init => OneWriter /\ OneUse
BY DEF Init, OneWriter, OneWriterOf, OneUse, OneUseOf, New, Writing, Spent

\* A session that no handler overwrote blindly signs in at most once.
THEOREM AtMostOneLogin == Spec => []SingleUse
<1>1. TypeInv /\ OneUse /\ [Next]_vars => TypeInv' /\ OneUse'
  BY TypeStep, ShapeStep, OneUseStep DEF TypeInv
<1>2. TypeInv /\ OneUse => SingleUse
  BY DEF TypeInv, TypeOK, Logins, OneUse, OneUseOf, SingleUse
<1> QED
  BY <1>1, <1>2, SourcesInit, OneInit, PTL DEF Spec

\* The code a sign-in presented belongs to its session, and to its user unless a
\* handler overwrote the Status blindly.
THEOREM CodesOfTheirOwners == Spec => []CodeOwner
<1>1. TypeInv /\ Sources /\ OneWriter /\ [Next]_vars
         => TypeInv' /\ Sources' /\ OneWriter'
  BY SourcesStep, OneWriterStep
<1>2. TypeInv /\ Sources /\ OneWriter => CodeOwner
  BY DEF TypeInv, TypeOK, Logins, Sources, Recorded, Good, OneWriter, OneWriterOf,
     CodeOwner
<1> QED
  BY <1>1, <1>2, SourcesInit, OneInit, PTL DEF Spec

=============================================================================
