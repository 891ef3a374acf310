-------------------------- MODULE BackOfficeProofs --------------------------
(***************************************************************************)
(* Theorems about BackOffice for any people, properties, roles, number of  *)
(* requests at a time and faults.                                          *)
(*                                                                         *)
(* The guards look at a token and an update writes later than its guard    *)
(* looked.  That the tables still back what is written rests on two facts: *)
(* accounts and assignments only grow, so that a token never claims more   *)
(* than they say; and a pending update was admitted by such a token        *)
(* (CallsAreEntitled).                                                     *)
(***************************************************************************)
EXTENDS BackOffice, TLAPS

\* Headquarters, or the assigned owner of p.
Entitled(u, p) == \/ account[u] = "HQ_ADMIN"
                  \/ account[u] = "HOTEL_OWNER" /\ <<u, p>> \in assigned

CallsAreEntitled ==
    \A c \in Call :
        /\ pc[c] # "idle" => req[c] \in Request /\ property[req[c].prop] \in Row
        /\ pc[c] = "assign" => property[req[c].prop].owner \in User
        /\ pc[c] = "write" => seen[c] \in Row /\ Entitled(req[c].user, req[c].prop)

-----------------------------------------------------------------------------
(* Answers and guards *)

LEMMA KnownErrors ==
    ASSUME NEW kind \in Kind \cup {"register", "login"}, NEW err \in Known[kind]
    PROVE  err \in {"malformed", "ErrConflict", "ErrNotFound", "ErrUnauthorized",
                    "ErrInvalidParameters", "ErrPasswordTooShort"}
BY DEF Known, Kind, Route

LEMMA StatusType ==
    ASSUME NEW kind \in Kind \cup {"register", "login"}, NEW err
    PROVE  Status(kind, err) \in {200, 201, 400, 401, 404, 409, 500}
<1>1. Success(kind) \in {200, 201}
    BY DEF Success
<1>2. ASSUME err \in Known[kind]
      PROVE  StatusOf[err] \in {400, 401, 404, 409}
    BY <1>2, KnownErrors DEF StatusOf
<1>3. \/ Status(kind, err) = Success(kind)
      \/ err \in Known[kind] /\ Status(kind, err) = StatusOf[err]
      \/ Status(kind, err) = 500
    BY DEF Status
<1> QED
    BY <1>1, <1>2, <1>3

LEMMA SaysEvent ==
    ASSUME NEW u \in User, NEW kind \in Kind \cup {"register", "login"},
           NEW p \in Prop \cup {NoProp}, NEW err, Says(u, kind, p, err)
    PROVE  last' \in Event
<1>1. Status(kind, err) \in {200, 201, 400, 401, 404, 409, 500}
    BY StatusType
<1> QED
    BY <1>1 DEF Says, Event

LEMMA KindsOfRoutes ==
    Kind = {"create_property", "get_property", "update_property",
            "create_room_type", "create_room"}
BY DEF Kind, Route

\* An update passes the guards for headquarters or an owner with the property
\* in the token; a room type or a room for a manager, too.
LEMMA AdmittedUpdates ==
    ASSUME BackOfficeTypeOK, TokensAreBacked, NEW u \in User, NEW p \in Prop,
           Admits(token[u], "update_property", p)
    PROVE  Entitled(u, p)
<1>1. token[u].role # NoRole /\ token[u].role = account[u]
    BY DEF Admits, TokensAreBacked
<1>2. account[u] = "HQ_ADMIN" \/ account[u] \in {"HQ_ADMIN", "HOTEL_OWNER"}
    BY <1>1 DEF Admits, RequireRoles, Route
<1>3. account[u] \in {"HQ_ADMIN", "REGIONAL_SUPERVISOR"} \/ p \in token[u].props
    BY <1>1 DEF Admits, RequirePropertyScope, Scoped, Kind, Route
<1> QED
    BY <1>2, <1>3 DEF TokensAreBacked, Entitled

LEMMA AdmittedRooms ==
    ASSUME BackOfficeTypeOK, TokensAreBacked, NEW u \in User, NEW p \in Prop,
           NEW kind \in {"create_room_type", "create_room"},
           Admits(token[u], kind, p)
    PROVE  \/ account[u] = "HQ_ADMIN"
           \/ account[u] \in {"HOTEL_OWNER", "HOTEL_MANAGER"} /\ <<u, p>> \in assigned
<1>1. token[u].role # NoRole /\ token[u].role = account[u]
    BY DEF Admits, TokensAreBacked
<1>2. account[u] \in {"HQ_ADMIN", "HOTEL_OWNER", "HOTEL_MANAGER"}
    BY <1>1 DEF Admits, RequireRoles, Route
<1>3. account[u] \in {"HQ_ADMIN", "REGIONAL_SUPERVISOR"} \/ p \in token[u].props
    BY <1>1 DEF Admits, RequirePropertyScope, Scoped, Kind, Route
<1> QED
    BY <1>2, <1>3 DEF TokensAreBacked

-----------------------------------------------------------------------------
(* Types, and calls in progress *)

LEMMA TypeInit == Init => BackOfficeTypeOK
<1> SUFFICES ASSUME Init
             PROVE  BackOfficeTypeOK
    OBVIOUS
<1>1. last \in Event
    BY DEF Init, Event
<1> QED
    BY <1>1 DEF Init, BackOfficeTypeOK, Claims, NoToken

LEMMA MergedFields ==
    ASSUME NEW c \in Call, req[c] \in Request, seen[c] \in Row
    PROVE  Merged(c).name \in Name \cup {""} /\ Merged(c).status \in PropStatus
<1> DEFINE name == IF req[c].name = "" THEN seen[c].name ELSE TrimSpace(req[c].name)
           status == IF req[c].status = "" THEN seen[c].status ELSE req[c].status
<1>1. name \in Name \cup {""} /\ status \in PropStatus
    BY DEF Request, Asked, Row, TrimSpace
<1>2. Merged(c) = [seen[c] EXCEPT !.name = name, !.status = status]
    BY DEF Merged
<1> HIDE DEF name, status
<1> QED
    BY <1>1, <1>2 DEF Row

\* What an UPDATE leaves: the row with another name and another status, or the
\* row as it was.
LEMMA WrittenRow ==
    ASSUME BackOfficeTypeOK, NEW c \in Call, WriteProperty(c), req[c] \in Request,
           property[req[c].prop] \in Row,
           Merged(c).name \in Name \cup {""}, Merged(c).status \in PropStatus
    PROVE  /\ property' \in [Prop -> Row \cup {NoRow}]
           /\ property'[req[c].prop] \in Row
           /\ property'[req[c].prop].owner = property[req[c].prop].owner
           /\ \A q \in Prop \ {req[c].prop} : property'[q] = property[q]
<1> DEFINE p == req[c].prop
           written == [property[p] EXCEPT !.name = Merged(c).name,
                                          !.status = Merged(c).status]
<1>1. p \in Prop
    BY DEF Request
<1>2. written \in Row /\ written.owner = property[p].owner
    BY DEF Row
<1>3. property' = property \/ property' = [property EXCEPT ![p] = written]
    <2>1. [property EXCEPT ![p].name = Merged(c).name, ![p].status = Merged(c).status]
             = [property EXCEPT ![p] = written]
        BY <1>1 DEF BackOfficeTypeOK
    <2> QED
        BY <2>1 DEF WriteProperty
<1> QED
    BY <1>1, <1>2, <1>3 DEF BackOfficeTypeOK

LEMMA TypeNext ==
    BackOfficeTypeOK /\ CallsAreEntitled /\ [Next]_vars => BackOfficeTypeOK'
<1> SUFFICES ASSUME BackOfficeTypeOK, CallsAreEntitled, [Next]_vars
             PROVE  BackOfficeTypeOK'
    OBVIOUS
<1> USE DEF BackOfficeTypeOK, tables, calls
<1>1. ASSUME NEW u \in User, Session(u)
      PROVE  BackOfficeTypeOK'
    <2>1. CASE \E r \in Roles : Register(u, r)
        <3>1. last' \in Event
            BY <2>1, SaysEvent DEF Register
        <3> QED
            BY <2>1, <3>1 DEF Register, RegisterUser
    <2>2. CASE Login(u)
        <3>1. last' \in Event
            BY <2>2, SaysEvent DEF Login
        <3>2. ASSUME NEW props \in GetUserPropertyAssignments(u)
              PROVE  GenerateToken(u, props) \in Claims
            BY DEF GetUserPropertyAssignments, AssignmentsOf, GenerateToken, Claims
        <3>3. token' \in [User -> Claims]
            BY <2>2, <3>2 DEF Login
        <3> QED
            BY <2>2, <3>1, <3>3 DEF Login
    <2>3. CASE \E kind \in {"register", "login"} : Invalid(u, kind, NoProp)
        <3>1. last' \in Event
            BY <2>3, SaysEvent DEF Invalid
        <3> QED
            BY <2>3, <3>1 DEF Invalid
    <2>4. CASE Expire(u)
        BY <2>4 DEF Expire, Claims, NoToken
    <2> QED
        BY <1>1, <2>1, <2>2, <2>3, <2>4 DEF Session
<1>2. ASSUME NEW u \in User, NEW p \in Prop, Request1(u, p)
      PROVE  BackOfficeTypeOK'
    <2>1. CASE \E kind \in Kind : TurnAway(u, kind, p)
        <3>1. last' \in Event
            BY <2>1 DEF TurnAway, Refusal, Event
        <3> QED
            BY <2>1, <3>1 DEF TurnAway
    <2>2. CASE \E kind \in Kind : Invalid(u, kind, p)
        <3>1. last' \in Event
            BY <2>2, SaysEvent DEF Invalid
        <3> QED
            BY <2>2, <3>1 DEF Invalid
    <2>3. CASE GetProperty(u, p)
        <3>1. last' \in Event
            BY <2>3, SaysEvent, KindsOfRoutes DEF GetProperty
        <3> QED
            BY <2>3, <3>1 DEF GetProperty
    <2>4. CASE \E k \in Label : CreateRoomType(u, p, k)
        <3>1. last' \in Event
            BY <2>4, SaysEvent, KindsOfRoutes DEF CreateRoomType
        <3> QED
            BY <2>4, <3>1 DEF CreateRoomType
    <2>5. CASE \E k \in Label, t \in Prop \X Label : CreateRoom(u, p, k, t)
        <3>1. last' \in Event
            BY <2>5, SaysEvent, KindsOfRoutes DEF CreateRoom
        <3> QED
            BY <2>5, <3>1 DEF CreateRoom, Room
    <2> QED
        BY <1>2, <2>1, <2>2, <2>3, <2>4, <2>5 DEF Request1
<1>3. ASSUME NEW c \in Call, Request2(c)
      PROVE  BackOfficeTypeOK'
    <2>1. ASSUME NEW u \in User, NEW p \in Prop, NEW k \in Code, NEW n \in Name,
                 NEW o \in User \cup {"none"}, InsertProperty(c, u, p, k, n, o)
          PROVE  BackOfficeTypeOK'
        <3>1. [user |-> u, kind |-> "create_property", prop |-> p, status |-> 0]
                 \in Event
            BY KindsOfRoutes DEF Event
        <3>2. last' \in Event
            BY <2>1, <3>1, SaysEvent, KindsOfRoutes DEF InsertProperty, Writes
        <3>3. [code |-> k, name |-> n, status |-> "DRAFT", owner |-> o] \in Row
            BY StatusAssumption DEF Row
        <3>4. property' \in [Prop -> Row \cup {NoRow}]
            BY <2>1, <3>3 DEF InsertProperty
        <3>5. [user |-> u, prop |-> p, name |-> "", status |-> ""] \in Request
            BY DEF Request, Asked
        <3>6. req' \in [Call -> Request \cup {Nobody}]
            BY <2>1, <3>5 DEF InsertProperty
        <3>7. pc' = pc \/ pc' = [pc EXCEPT ![c] = "assign"]
            BY <2>1 DEF InsertProperty
        <3>8. orphans' = orphans \/ orphans' = orphans \cup {p}
            BY <2>1 DEF InsertProperty
        <3>9. UNCHANGED <<account, assigned, roomType, room, token, seen>>
            BY <2>1 DEF InsertProperty
        <3> QED
            BY <3>2, <3>4, <3>6, <3>7, <3>8, <3>9
    <2>2. CASE AssignOwner(c)
        <3>1. req[c] \in Request /\ property[req[c].prop].owner \in User
            BY <2>2 DEF AssignOwner, CallsAreEntitled
        <3>2. last' \in Event
            BY <2>2, <3>1, SaysEvent, KindsOfRoutes DEF AssignOwner, Request
        <3>3. assigned' \subseteq User \X Prop /\ orphans' \subseteq Prop
            <4>1. req[c].prop \in Prop
                BY <3>1 DEF Request
            <4>2. assigned' = assigned \/
                  assigned' = assigned \cup {<<property[req[c].prop].owner, req[c].prop>>}
                BY <2>2 DEF AssignOwner, AssignUserToProperty
            <4>3. orphans' = orphans \/ orphans' = orphans \cup {req[c].prop}
                BY <2>2 DEF AssignOwner
            <4> QED
                BY <3>1, <4>1, <4>2, <4>3
        <3> QED
            BY <2>2, <3>2, <3>3 DEF AssignOwner
    <2>3. ASSUME NEW u \in User, NEW p \in Prop, NEW n \in Asked,
                 NEW s \in PropStatus \cup {""}, ReadProperty(c, u, p, n, s)
          PROVE  BackOfficeTypeOK'
        <3>1. last' \in Event
            BY <2>3, SaysEvent, KindsOfRoutes DEF ReadProperty
        <3>2. [user |-> u, prop |-> p, name |-> n, status |-> s] \in Request
            BY DEF Request
        <3>3. req' \in [Call -> Request \cup {Nobody}]
            BY <2>3, <3>2 DEF ReadProperty
        <3>4. /\ pc' \in [Call -> {"idle", "assign", "write"}]
              /\ seen' \in [Call -> Row \cup {NoRow}]
            <4>1. property[p] \in Row \cup {NoRow}
                OBVIOUS
            <4>2. pc' = pc \/ pc' = [pc EXCEPT ![c] = "write"]
                BY <2>3 DEF ReadProperty
            <4>3. seen' = seen \/ seen' = [seen EXCEPT ![c] = property[p]]
                BY <2>3 DEF ReadProperty
            <4> QED
                BY <4>1, <4>2, <4>3
        <3>5. UNCHANGED <<tables, token, orphans>>
            BY <2>3 DEF ReadProperty
        <3> QED
            BY <3>1, <3>3, <3>4, <3>5
    <2>4. CASE WriteProperty(c)
        <3>1. /\ req[c] \in Request /\ seen[c] \in Row
              /\ property[req[c].prop] \in Row
            BY <2>4 DEF WriteProperty, CallsAreEntitled
        <3>2. last' \in Event
            BY <2>4, <3>1, SaysEvent, KindsOfRoutes DEF WriteProperty, Request
        <3>3. Merged(c).name \in Name \cup {""} /\ Merged(c).status \in PropStatus
            BY <3>1, MergedFields
        <3>4. property' \in [Prop -> Row \cup {NoRow}]
            BY <2>4, <3>1, <3>3, WrittenRow
        <3> QED
            BY <2>4, <3>2, <3>4 DEF WriteProperty
    <2> QED
        BY <1>3, <2>1, <2>2, <2>3, <2>4 DEF Request2
<1>4. CASE Crash
    <2>1. orphans' \subseteq Prop
        <3>1. ASSUME NEW c \in Call, pc[c] = "assign"
              PROVE  req[c].prop \in Prop
            BY <3>1 DEF CallsAreEntitled, Request
        <3> QED
            BY <1>4, <3>1 DEF Crash
    <2> QED
        BY <1>4, <2>1 DEF Crash
<1>5. CASE UNCHANGED vars
    BY <1>5 DEF vars
<1> QED
    BY <1>1, <1>2, <1>3, <1>4, <1>5 DEF Next

-----------------------------------------------------------------------------
(* What the tables back *)

\* What a request of two statements leaves alone.
LEMMA Request2Keeps ==
    ASSUME NEW c \in Call, Request2(c)
    PROVE  /\ token' = token /\ account' = account
           /\ assigned' = assigned \/ AssignOwner(c)
<1>1. ASSUME NEW u \in User, NEW p \in Prop, NEW k \in Code, NEW n \in Name,
             NEW o \in User \cup {"none"}, InsertProperty(c, u, p, k, n, o)
      PROVE  token' = token /\ account' = account /\ assigned' = assigned
    BY <1>1 DEF InsertProperty
<1>2. ASSUME NEW u \in User, NEW p \in Prop, NEW n \in Asked,
             NEW s \in PropStatus \cup {""}, ReadProperty(c, u, p, n, s)
      PROVE  token' = token /\ account' = account /\ assigned' = assigned
    BY <1>2 DEF ReadProperty, tables
<1>3. CASE AssignOwner(c)
    BY <1>3 DEF AssignOwner
<1>4. CASE WriteProperty(c)
    BY <1>4 DEF WriteProperty
<1> QED
    BY <1>1, <1>2, <1>3, <1>4 DEF Request2

\* Accounts do not change and assignments are not taken back.
LEMMA TablesGrow ==
    ASSUME BackOfficeTypeOK, [Next]_vars
    PROVE  /\ assigned \subseteq assigned'
           /\ \A u \in User : account[u] # NoRole => account'[u] = account[u]
<1> USE DEF BackOfficeTypeOK, tables, calls
<1>1. ASSUME NEW u \in User, Session(u)
      PROVE  /\ assigned' = assigned
             /\ \A v \in User : account[v] # NoRole => account'[v] = account[v]
    BY <1>1 DEF Session, Register, RegisterUser, CreateUserError, Done, Login,
                Invalid, Expire
<1>2. ASSUME NEW u \in User, NEW p \in Prop, Request1(u, p)
      PROVE  assigned' = assigned /\ account' = account
    BY <1>2 DEF Request1, TurnAway, Invalid, GetProperty, CreateRoomType, CreateRoom
<1>3. ASSUME NEW c \in Call, Request2(c)
      PROVE  assigned \subseteq assigned' /\ account' = account
    <2>1. CASE AssignOwner(c)
        BY <2>1 DEF AssignOwner, AssignUserToProperty
    <2>2. CASE ~AssignOwner(c)
        BY <1>3, <2>2, Request2Keeps
    <2> QED
        BY <2>1, <2>2
<1>4. CASE Crash \/ UNCHANGED vars
    BY <1>4 DEF Crash, vars
<1> QED
    BY <1>1, <1>2, <1>3, <1>4 DEF Next

LEMMA TokensNext ==
    BackOfficeTypeOK /\ TokensAreBacked /\ [Next]_vars => TokensAreBacked'
<1> SUFFICES ASSUME BackOfficeTypeOK, TokensAreBacked, [Next]_vars
             PROVE  TokensAreBacked'
    OBVIOUS
<1> USE DEF BackOfficeTypeOK
<1>1. \A v \in User : token'[v] = token[v] \/ token'[v] = NoToken
                        \/ /\ token'[v].role = account'[v]
                           /\ token'[v].props \subseteq AssignmentsOf(v)'
    <2>1. ASSUME NEW u \in User, Login(u), NEW v \in User
          PROVE  \/ token'[v] = token[v]
                 \/ /\ token'[v].role = account'[v]
                    /\ token'[v].props \subseteq AssignmentsOf(v)'
        <3>1. account' = account /\ assigned' = assigned
            BY <2>1 DEF Login, tables
        <3>2. ASSUME NEW props \in GetUserPropertyAssignments(u),
                     token' = [token EXCEPT ![u] = GenerateToken(u, props)]
              PROVE  \/ token'[v] = token[v]
                     \/ /\ token'[v].role = account'[v]
                        /\ token'[v].props \subseteq AssignmentsOf(v)'
            <4>1. props \subseteq AssignmentsOf(u)'
                BY <3>1, <3>2 DEF GetUserPropertyAssignments, AssignmentsOf
            <4> QED
                BY <3>1, <3>2, <4>1 DEF GenerateToken
        <3>3. \/ token' = token
              \/ \E props \in GetUserPropertyAssignments(u) :
                    token' = [token EXCEPT ![u] = GenerateToken(u, props)]
            BY <2>1 DEF Login
        <3> QED
            BY <3>2, <3>3
    <2>2. ASSUME NEW u \in User, Session(u), ~Login(u), NEW v \in User
          PROVE  token'[v] = token[v] \/ token'[v] = NoToken
        BY <2>2 DEF Session, Register, Invalid, Expire
    <2>3. ASSUME NEW u \in User, NEW p \in Prop, Request1(u, p)
          PROVE  token' = token
        BY <2>3 DEF Request1, TurnAway, Invalid, GetProperty, CreateRoomType, CreateRoom
    <2>4. ASSUME NEW c \in Call, Request2(c)
          PROVE  token' = token
        BY <2>4, Request2Keeps
    <2>5. CASE Crash \/ UNCHANGED vars
        BY <2>5 DEF Crash, vars
    <2> QED
        BY <2>1, <2>2, <2>3, <2>4, <2>5 DEF Next
<1>2. ASSUME NEW v \in User
      PROVE  /\ token'[v].role \in {NoRole, account'[v]}
             /\ \A p \in token'[v].props : <<v, p>> \in assigned'
    <2>1. CASE token'[v] = token[v]
        BY <2>1, TablesGrow DEF TokensAreBacked
    <2>2. CASE token'[v] = NoToken
        BY <2>2 DEF NoToken
    <2>3. CASE token'[v].role = account'[v] /\ token'[v].props \subseteq AssignmentsOf(v)'
        BY <2>3 DEF AssignmentsOf
    <2> QED
        BY <1>1, <2>1, <2>2, <2>3
<1> QED
    BY <1>2 DEF TokensAreBacked

-----------------------------------------------------------------------------
(* Rows and pending calls *)

LEMMA NoRowIsNone == NoRow \notin Row
BY NullAssumption DEF NoRow, Row

\* A row appears once, is never taken away and keeps its owner.
LEMMA RowsStay ==
    ASSUME BackOfficeTypeOK, CallsAreEntitled, [Next]_vars, NEW p \in Prop, property[p] \in Row
    PROVE  property'[p] \in Row /\ property'[p].owner = property[p].owner
<1> USE DEF BackOfficeTypeOK, tables, calls
<1>1. CASE property' = property
    BY <1>1
<1>2. ASSUME NEW c \in Call, NEW u \in User, NEW q \in Prop, NEW k \in Code,
             NEW n \in Name, NEW o \in User \cup {"none"},
             InsertProperty(c, u, q, k, n, o)
      PROVE  property'[p] = property[p]
    <2>1. p # q
        BY <1>2, NoRowIsNone DEF InsertProperty
    <2> QED
        BY <1>2, <2>1 DEF InsertProperty
<1>3. ASSUME NEW c \in Call, WriteProperty(c)
      PROVE  property'[p] \in Row /\ property'[p].owner = property[p].owner
    <2>1. req[c] \in Request /\ seen[c] \in Row /\ property[req[c].prop] \in Row
        BY <1>3 DEF WriteProperty, CallsAreEntitled
    <2>2. Merged(c).name \in Name \cup {""} /\ Merged(c).status \in PropStatus
        BY <2>1, MergedFields
    <2> QED
        BY <1>3, <2>1, <2>2, WrittenRow
<1>4. ASSUME NEW u \in User, NEW q \in Prop, Session(u) \/ Request1(u, q)
      PROVE  property' = property
    BY <1>4 DEF Session, Register, Login, Expire, Request1, TurnAway, Invalid,
                GetProperty, CreateRoomType, CreateRoom
<1>5. ASSUME NEW c \in Call, AssignOwner(c)
      PROVE  property' = property
    BY <1>5 DEF AssignOwner
<1>6. ASSUME NEW c \in Call, NEW u \in User, NEW q \in Prop,
             NEW n \in Asked, NEW s \in PropStatus \cup {""},
             ReadProperty(c, u, q, n, s)
      PROVE  property' = property
    BY <1>6 DEF ReadProperty
<1>7. CASE Crash \/ UNCHANGED vars
    BY <1>7 DEF Crash, vars
<1>8. ASSUME NEW u \in User, Session(u)
      PROVE  property' = property
    BY <1>8 DEF Session, Register, Login, Invalid, Expire
<1> QED
    BY <1>1, <1>2, <1>3, <1>4, <1>5, <1>6, <1>7, <1>8 DEF Next, Request2

LEMMA CallsNext ==
    /\ BackOfficeTypeOK /\ TokensAreBacked /\ CallsAreEntitled /\ [Next]_vars
    => CallsAreEntitled'
<1> SUFFICES ASSUME BackOfficeTypeOK, TokensAreBacked, CallsAreEntitled, [Next]_vars,
                    NEW c \in Call
             PROVE  /\ pc'[c] # "idle" => /\ req'[c] \in Request
                                          /\ property'[req'[c].prop] \in Row
                    /\ pc'[c] = "assign" => property'[req'[c].prop].owner \in User
                    /\ pc'[c] = "write" => /\ seen'[c] \in Row
                                           /\ Entitled(req[c].user, req[c].prop)'
    BY DEF CallsAreEntitled
<1> DEFINE Kept == pc'[c] = pc[c] /\ req'[c] = req[c] /\ seen'[c] = seen[c]
<1> USE DEF BackOfficeTypeOK, tables, calls
<1>1. ASSUME Kept, pc[c] # "idle"
      PROVE  /\ req'[c] \in Request /\ property'[req'[c].prop] \in Row
             /\ pc'[c] = "assign" => property'[req'[c].prop].owner \in User
             /\ pc'[c] = "write" => /\ seen'[c] \in Row
                                    /\ Entitled(req[c].user, req[c].prop)'
    <2>1. req[c] \in Request /\ property[req[c].prop] \in Row
        BY <1>1 DEF CallsAreEntitled
    <2>2. req[c].prop \in Prop /\ req[c].user \in User
        BY <2>1 DEF Request
    <2>3. /\ property'[req[c].prop] \in Row
          /\ property'[req[c].prop].owner = property[req[c].prop].owner
        BY <2>1, <2>2, RowsStay
    <2>4. Entitled(req[c].user, req[c].prop) =>
              Entitled(req[c].user, req[c].prop)'
        <3>1. /\ assigned \subseteq assigned'
              /\ account[req[c].user] # NoRole =>
                    account'[req[c].user] = account[req[c].user]
            BY <2>2, TablesGrow
        <3>2. ASSUME Entitled(req[c].user, req[c].prop)
              PROVE  account'[req[c].user] = account[req[c].user]
            BY <3>1, <3>2 DEF Entitled, NoRole
        <3> QED
            BY <1>1, <3>1, <3>2 DEF Entitled
    <2> QED
        BY <1>1, <2>1, <2>3, <2>4 DEF CallsAreEntitled
<1>2. ASSUME NEW d \in Call, NEW u \in User, NEW p \in Prop, NEW k \in Code,
             NEW n \in Name, NEW o \in User \cup {"none"},
             InsertProperty(d, u, p, k, n, o)
      PROVE  \/ Kept \/ pc'[c] = "idle"
             \/ /\ pc'[c] = "assign" /\ req'[c] \in Request /\ req'[c].prop = p
                /\ property'[p] \in Row /\ property'[p].owner \in User
    <2>1. \/ pc' = pc /\ req' = req
          \/ /\ pc' = [pc EXCEPT ![d] = "assign"]
             /\ req' = [req EXCEPT ![d] = [user |-> u, prop |-> p,
                                           name |-> "", status |-> ""]]
             /\ o # "none"
             /\ property' = [property EXCEPT ![p] = [code |-> k, name |-> n,
                                               status |-> "DRAFT", owner |-> o]]
        BY <1>2 DEF InsertProperty, Err, Done, Ways
    <2>2. seen' = seen
        BY <1>2 DEF InsertProperty
    <2>3. [user |-> u, prop |-> p, name |-> "", status |-> ""] \in Request
        BY DEF Request, Asked
    <2>4. [code |-> k, name |-> n, status |-> "DRAFT", owner |-> o] \in Row
        BY StatusAssumption DEF Row
    <2>5. property[p] \in Row \cup {NoRow} /\ p \in Prop
        OBVIOUS
    <2>6. CASE d # c \/ (pc' = pc /\ req' = req)
        BY <2>1, <2>2, <2>6
    <2>7. CASE d = c /\ ~(pc' = pc /\ req' = req)
        <3> DEFINE asked == [user |-> u, prop |-> p, name |-> "", status |-> ""]
                   new   == [code |-> k, name |-> n, status |-> "DRAFT", owner |-> o]
        <3>0. /\ asked \in Request /\ asked.prop = p
              /\ new \in Row /\ new.owner = o
            BY <2>3, <2>4
        <3>1. /\ pc'[c] = "assign" /\ req'[c] = asked
              /\ property'[p] = new /\ o \in User
            BY <2>1, <2>7
        <3> HIDE DEF asked, new
        <3> QED
            BY <3>0, <3>1
    <2> QED
        BY <2>6, <2>7
<1>3. ASSUME NEW d \in Call, NEW u \in User, NEW p \in Prop, NEW n \in Asked,
             NEW s \in PropStatus \cup {""}, ReadProperty(d, u, p, n, s)
      PROVE  \/ Kept
             \/ /\ pc'[c] = "write" /\ req'[c] \in Request
                /\ property'[req'[c].prop] \in Row /\ seen'[c] \in Row
                /\ Entitled(req[c].user, req[c].prop)'
    <2>1. /\ Admits(token[u], "update_property", p)
          /\ property' = property /\ account' = account /\ assigned' = assigned
        BY <1>3 DEF ReadProperty
    <2>2. Entitled(u, p)'
        BY <2>1, AdmittedUpdates DEF Entitled
    <2>3. [user |-> u, prop |-> p, name |-> n, status |-> s] \in Request
        BY DEF Request
    <2>4. \/ pc' = pc /\ req' = req /\ seen' = seen
          \/ /\ property[p] # NoRow
             /\ pc' = [pc EXCEPT ![d] = "write"]
             /\ req' = [req EXCEPT ![d] = [user |-> u, prop |-> p,
                                           name |-> n, status |-> s]]
             /\ seen' = [seen EXCEPT ![d] = property[p]]
        BY <1>3 DEF ReadProperty, Err, Found, Ways
    <2>5. CASE d # c \/ (pc' = pc /\ req' = req /\ seen' = seen)
        BY <2>4, <2>5
    <2>6. CASE d = c /\ ~(pc' = pc /\ req' = req /\ seen' = seen)
        <3> DEFINE asked == [user |-> u, prop |-> p, name |-> n, status |-> s]
        <3>0. asked.user = u /\ asked.prop = p
            OBVIOUS
        <3>1. /\ pc'[c] = "write" /\ seen'[c] = property[p] /\ property[p] \in Row
              /\ req'[c] = asked
            BY <2>4, <2>6
        <3> HIDE DEF asked
        <3>2. req'[c].user = u /\ req'[c].prop = p
            BY <3>0, <3>1
        <3>3. Entitled(req[c].user, req[c].prop)'
            BY <2>2, <3>2 DEF Entitled
        <3> QED
            BY <2>1, <2>3, <3>1, <3>2, <3>3 DEF asked
    <2> QED
        BY <2>5, <2>6
<1>4. ASSUME NEW d \in Call, AssignOwner(d) \/ WriteProperty(d)
      PROVE  Kept \/ pc'[c] = "idle"
    BY <1>4 DEF AssignOwner, WriteProperty
<1>5. ASSUME NEW u \in User, Session(u)
      PROVE  Kept
    BY <1>5 DEF Session, Register, Login, Invalid, Expire
<1>6. ASSUME NEW u \in User, NEW p \in Prop, Request1(u, p)
      PROVE  Kept
    BY <1>6 DEF Request1, TurnAway, Invalid, GetProperty, CreateRoomType, CreateRoom
<1>7. Crash => pc'[c] = "idle"
    BY DEF Crash
<1>8. UNCHANGED vars => Kept
    BY DEF vars
<1>9. \/ Kept \/ pc'[c] = "idle"
      \/ /\ pc'[c] = "assign" /\ req'[c] \in Request
         /\ property'[req'[c].prop] \in Row /\ property'[req'[c].prop].owner \in User
      \/ /\ pc'[c] = "write" /\ req'[c] \in Request
         /\ property'[req'[c].prop] \in Row /\ seen'[c] \in Row
         /\ Entitled(req[c].user, req[c].prop)'
    BY <1>2, <1>3, <1>4, <1>5, <1>6, <1>7, <1>8 DEF Next, Request2
<1> QED
    BY <1>1, <1>9

-----------------------------------------------------------------------------
(* Owners *)

\* p is assigned to its owner, or lost, or about to be assigned.
Reached(p) == \/ <<property[p].owner, p>> \in assigned
              \/ p \in orphans
              \/ \E c \in Call : pc[c] = "assign" /\ req[c].prop = p

LEMMA ReachedOwners ==
    OwnerCanReach <=> \A p \in Prop : property[p].owner # "none" => Reached(p)
BY DEF OwnerCanReach, Reached, AssignmentsOf

\* What an owner can reach stays so as long as the row does not change hands.
LEMMA ReachedStays ==
    ASSUME BackOfficeTypeOK, CallsAreEntitled, [Next]_vars, NEW p \in Prop, Reached(p),
           property'[p].owner = property[p].owner
    PROVE  Reached(p)'
<1> USE DEF BackOfficeTypeOK, tables, calls
<1>1. assigned \subseteq assigned'
    BY TablesGrow
<1>2. ASSUME NEW u \in User, NEW q \in Prop, Session(u) \/ Request1(u, q)
      PROVE  orphans' = orphans /\ pc' = pc /\ req' = req
    BY <1>2 DEF Session, Register, Login, Invalid, Expire, Request1, TurnAway,
                GetProperty, CreateRoomType, CreateRoom
<1>3. ASSUME NEW c \in Call, NEW u \in User, NEW q \in Prop, NEW k \in Code,
             NEW n \in Name, NEW o \in User \cup {"none"},
             InsertProperty(c, u, q, k, n, o)
      PROVE  /\ orphans \subseteq orphans'
             /\ \A d \in Call : pc[d] = "assign" => pc'[d] = pc[d] /\ req'[d] = req[d]
    BY <1>3 DEF InsertProperty
<1>4. ASSUME NEW c \in Call, NEW u \in User, NEW q \in Prop,
             NEW n \in Asked, NEW s \in PropStatus \cup {""},
             ReadProperty(c, u, q, n, s)
      PROVE  /\ orphans' = orphans
             /\ \A d \in Call : pc[d] = "assign" => pc'[d] = pc[d] /\ req'[d] = req[d]
    BY <1>4 DEF ReadProperty
<1>5. ASSUME NEW c \in Call, WriteProperty(c)
      PROVE  /\ orphans' = orphans
             /\ \A d \in Call : pc[d] = "assign" => pc'[d] = pc[d] /\ req'[d] = req[d]
    BY <1>5 DEF WriteProperty
<1>6. ASSUME NEW c \in Call, AssignOwner(c)
      PROVE  /\ orphans \subseteq orphans'
             /\ \/ req[c].prop \in orphans'
                \/ <<property[req[c].prop].owner, req[c].prop>> \in assigned'
             /\ \A d \in Call \ {c} : pc'[d] = pc[d] /\ req'[d] = req[d]
    BY <1>6 DEF AssignOwner, AssignUserToProperty
<1>7. ASSUME Crash
      PROVE  /\ orphans \subseteq orphans'
             /\ \A d \in Call : pc[d] = "assign" => req[d].prop \in orphans'
    BY <1>7 DEF Crash
<1>8. CASE <<property[p].owner, p>> \in assigned
    BY <1>1, <1>8 DEF Reached
<1>9. CASE p \in orphans
    <2>1. orphans \subseteq orphans'
        BY <1>2, <1>3, <1>4, <1>5, <1>6, <1>7 DEF Next, Request2, vars
    <2> QED
        BY <1>9, <2>1 DEF Reached
<1>10. ASSUME NEW d \in Call, pc[d] = "assign", req[d].prop = p
       PROVE  Reached(p)'
    <2>1. \/ pc'[d] = "assign" /\ req'[d] = req[d]
          \/ p \in orphans'
          \/ <<property[p].owner, p>> \in assigned'
        BY <1>2, <1>3, <1>4, <1>5, <1>6, <1>7, <1>10 DEF Next, Request2, vars
    <2> QED
        BY <1>10, <2>1 DEF Reached
<1> QED
    BY <1>8, <1>9, <1>10 DEF Reached

LEMMA OwnersNext ==
    BackOfficeTypeOK /\ CallsAreEntitled /\ OwnerCanReach /\ [Next]_vars => OwnerCanReach'
<1> SUFFICES ASSUME BackOfficeTypeOK, CallsAreEntitled, OwnerCanReach, [Next]_vars,
                    NEW p \in Prop, property'[p].owner # "none"
             PROVE  Reached(p)'
    BY ReachedOwners DEF OwnerCanReach, Reached, AssignmentsOf
<1>1. CASE property[p] \in Row
    <2>1. property'[p].owner = property[p].owner
        BY <1>1, RowsStay
    <2> QED
        BY <2>1, ReachedStays, ReachedOwners
<1>2. CASE property[p] = NoRow
    <2> USE DEF BackOfficeTypeOK, tables, calls
    <2>1. property'[p] # property[p]
        <3>1. NoRow.owner = "none"
            BY DEF NoRow
        <3> QED
            BY <1>2, <3>1
    <2>2. PICK c \in Call : Request2(c)
        BY <2>1 DEF Next, vars, Crash, Session, Register, Login, Invalid, Expire,
                    Request1, TurnAway, GetProperty, CreateRoomType, CreateRoom
    <2>3. ~WriteProperty(c)
        <3> SUFFICES ASSUME WriteProperty(c)
                     PROVE  FALSE
            OBVIOUS
        <3>1. req[c] \in Request /\ seen[c] \in Row /\ property[req[c].prop] \in Row
            BY DEF WriteProperty, CallsAreEntitled
        <3>2. Merged(c).name \in Name \cup {""} /\ Merged(c).status \in PropStatus
            BY <3>1, MergedFields
        <3>3. p # req[c].prop
            BY <1>2, <3>1, NoRowIsNone
        <3> QED
            BY <2>1, <3>1, <3>2, <3>3, WrittenRow
    <2>4. PICK u \in User, q \in Prop, k \in Code, n \in Name, o \in User \cup {"none"} :
              InsertProperty(c, u, q, k, n, o)
        BY <2>1, <2>2, <2>3 DEF Request2, AssignOwner, ReadProperty
    <2> DEFINE new == [code |-> k, name |-> n, status |-> "DRAFT", owner |-> o]
    <2>5. q = p /\ property'[p] = new
        BY <2>1, <2>4 DEF InsertProperty
    <2>6. o # "none"
        BY <2>5
    <2>7. \/ p \in orphans'
          \/ /\ pc'[c] = "assign"
             /\ req'[c] = [user |-> u, prop |-> q, name |-> "", status |-> ""]
        BY <2>1, <2>4, <2>6 DEF InsertProperty
    <2>8. [user |-> u, prop |-> q, name |-> "", status |-> ""].prop = p
        BY <2>5
    <2> QED
        BY <2>7, <2>8 DEF Reached
<1> QED
    BY <1>1, <1>2 DEF BackOfficeTypeOK

-----------------------------------------------------------------------------
(* The theorems *)

BackOfficeInv ==
    BackOfficeTypeOK /\ TokensAreBacked /\ CallsAreEntitled /\ OwnerCanReach

LEMMA BackOfficeInvariant == Spec => []BackOfficeInv
<1>1. Init => BackOfficeInv
    <2> SUFFICES ASSUME Init
                 PROVE  BackOfficeInv
        OBVIOUS
    <2>1. TokensAreBacked
        BY DEF Init, TokensAreBacked, NoToken
    <2>2. CallsAreEntitled
        BY DEF Init, CallsAreEntitled
    <2>3. OwnerCanReach
        BY DEF Init, OwnerCanReach, NoRow
    <2> QED
        BY TypeInit, <2>1, <2>2, <2>3 DEF BackOfficeInv
<1>2. BackOfficeInv /\ [Next]_vars => BackOfficeInv'
    BY TypeNext, TokensNext, CallsNext, OwnersNext DEF BackOfficeInv
<1> QED
    BY <1>1, <1>2, PTL DEF Spec

\* Accounts, tokens, rows and calls stay well-typed.  In particular a row always
\* has a status, whatever fields the requests left out, and no name in the table
\* has white space around it, though an update by a blank name leaves none.
THEOREM BackOfficeTypeCorrect == Spec => []BackOfficeTypeOK
BY BackOfficeInvariant, PTL DEF BackOfficeInv

\* However old a token is, its role and its properties are in the tables.
THEOREM TokensBacked == Spec => []TokensAreBacked
BY BackOfficeInvariant, PTL DEF BackOfficeInv

\* An owner's login names the property, unless a statement of its creation
\* failed or is still to come.
THEOREM OwnersReach == Spec => []OwnerCanReach
BY BackOfficeInvariant, PTL DEF BackOfficeInv

\* The step that writes a row is a WriteProperty; those that write room types
\* and rooms are the two requests that create them.
LEMMA StaffStep ==
    ASSUME BackOfficeInv, [Next]_vars, NEW p \in Prop
    PROVE  /\ (property[p] # NoRow /\ property'[p] # property[p]) =>
                 \E u \in User : /\ last'.user = u /\ last'.prop = p
                                 /\ Entitled(u, p)
           /\ (TypesOf(p)' # TypesOf(p) \/ RoomsOf(p)' # RoomsOf(p)) =>
                 \E u \in User :
                    /\ last'.user = u /\ last'.prop = p
                    /\ \/ account[u] = "HQ_ADMIN"
                       \/ /\ account[u] \in {"HOTEL_OWNER", "HOTEL_MANAGER"}
                          /\ <<u, p>> \in assigned
<1> USE DEF BackOfficeInv, BackOfficeTypeOK, tables, calls
<1>1. ASSUME NEW c \in Call, WriteProperty(c)
      PROVE  /\ property'[p] # property[p] =>
                   \E u \in User : /\ last'.user = u /\ last'.prop = p
                                   /\ Entitled(u, p)
             /\ roomType' = roomType /\ room' = room
    <2>1. /\ req[c] \in Request /\ seen[c] \in Row /\ property[req[c].prop] \in Row
          /\ Entitled(req[c].user, req[c].prop)
        BY <1>1 DEF WriteProperty, CallsAreEntitled
    <2>2. Merged(c).name \in Name \cup {""} /\ Merged(c).status \in PropStatus
        BY <2>1, MergedFields
    <2>3. property'[p] # property[p] => p = req[c].prop
        BY <1>1, <2>1, <2>2, WrittenRow
    <2>4. last'.user = req[c].user /\ last'.prop = req[c].prop
        <3>1. PICK err : Says(req[c].user, "update_property", req[c].prop, err)
            BY <1>1 DEF WriteProperty
        <3> QED
            BY <3>1 DEF Says
    <2>5. req[c].user \in User
        BY <2>1 DEF Request
    <2> QED
        BY <1>1, <2>1, <2>3, <2>4, <2>5 DEF WriteProperty
<1>2. ASSUME NEW u \in User, NEW q \in Prop, NEW k \in Label, CreateRoomType(u, q, k)
      PROVE  /\ property' = property /\ room' = room
             /\ last'.user = u /\ last'.prop = q
             /\ q # p => TypesOf(p)' = TypesOf(p)
             /\ \/ account[u] = "HQ_ADMIN"
                \/ /\ account[u] \in {"HOTEL_OWNER", "HOTEL_MANAGER"}
                   /\ <<u, q>> \in assigned
    <2>1. last'.user = u /\ last'.prop = q
        BY <1>2 DEF CreateRoomType, Says
    <2>2. roomType' = roomType \/ roomType' = roomType \cup {<<q, k>>}
        BY <1>2 DEF CreateRoomType
    <2>3. q # p => TypesOf(p)' = TypesOf(p)
        BY <2>2 DEF TypesOf
    <2> QED
        BY <1>2, <2>1, <2>3, AdmittedRooms DEF CreateRoomType
<1>3. ASSUME NEW u \in User, NEW q \in Prop, NEW k \in Label, NEW t \in Prop \X Label,
             CreateRoom(u, q, k, t)
      PROVE  /\ property' = property /\ roomType' = roomType
             /\ last'.user = u /\ last'.prop = q
             /\ q # p => RoomsOf(p)' = RoomsOf(p)
             /\ \/ account[u] = "HQ_ADMIN"
                \/ /\ account[u] \in {"HOTEL_OWNER", "HOTEL_MANAGER"}
                   /\ <<u, q>> \in assigned
    <2> DEFINE new == [home |-> q, number |-> k, of |-> t]
    <2>0. new.home = q
        OBVIOUS
    <2>1. last'.user = u /\ last'.prop = q
        BY <1>3 DEF CreateRoom, Says
    <2>2. room' = room \/ room' = room \cup {new}
        BY <1>3 DEF CreateRoom
    <2> HIDE DEF new
    <2>3. q # p => RoomsOf(p)' = RoomsOf(p)
        BY <2>0, <2>2 DEF RoomsOf
    <2> QED
        BY <1>3, <2>1, <2>3, AdmittedRooms DEF CreateRoom
<1>4. ASSUME NEW c \in Call, NEW u \in User, NEW q \in Prop, NEW k \in Code,
             NEW n \in Name, NEW o \in User \cup {"none"},
             InsertProperty(c, u, q, k, n, o)
      PROVE  /\ property[p] # NoRow => property'[p] = property[p]
             /\ roomType' = roomType /\ room' = room
    BY <1>4 DEF InsertProperty
<1>5. ASSUME NEW c \in Call, AssignOwner(c)
      PROVE  property' = property /\ roomType' = roomType /\ room' = room
    BY <1>5 DEF AssignOwner
<1>6. ASSUME NEW c \in Call, NEW u \in User, NEW q \in Prop,
             NEW n \in Asked, NEW s \in PropStatus \cup {""},
             ReadProperty(c, u, q, n, s)
      PROVE  property' = property /\ roomType' = roomType /\ room' = room
    BY <1>6 DEF ReadProperty
<1>7. ASSUME NEW u \in User, Session(u)
      PROVE  property' = property /\ roomType' = roomType /\ room' = room
    BY <1>7 DEF Session, Register, Login, Invalid, Expire
<1>8. ASSUME NEW u \in User, NEW q \in Prop,
             \/ \E kind \in Kind : TurnAway(u, kind, q) \/ Invalid(u, kind, q)
             \/ GetProperty(u, q)
      PROVE  property' = property /\ roomType' = roomType /\ room' = room
    BY <1>8 DEF TurnAway, Invalid, GetProperty
<1>9. CASE Crash \/ UNCHANGED vars
    BY <1>9 DEF Crash, vars, TypesOf, RoomsOf
<1>10. CASE \E c \in Call : Request2(c)
    BY <1>1, <1>4, <1>5, <1>6, <1>10 DEF Request2, TypesOf, RoomsOf
<1>11. CASE \E u \in User : Session(u)
    BY <1>7, <1>11 DEF TypesOf, RoomsOf
<1>12. ASSUME NEW u \in User, NEW q \in Prop, Request1(u, q)
       PROVE  /\ property' = property
              /\ (TypesOf(p)' # TypesOf(p) \/ RoomsOf(p)' # RoomsOf(p)) =>
                    /\ last'.user = u /\ last'.prop = p
                    /\ \/ account[u] = "HQ_ADMIN"
                       \/ /\ account[u] \in {"HOTEL_OWNER", "HOTEL_MANAGER"}
                          /\ <<u, p>> \in assigned
    <2>1. CASE \E k \in Label : CreateRoomType(u, q, k)
        <3>1. PICK k \in Label : CreateRoomType(u, q, k)
            BY <2>1
        <3>2. /\ property' = property /\ room' = room
              /\ last'.user = u /\ last'.prop = q
              /\ q # p => TypesOf(p)' = TypesOf(p)
              /\ \/ account[u] = "HQ_ADMIN"
                 \/ /\ account[u] \in {"HOTEL_OWNER", "HOTEL_MANAGER"}
                    /\ <<u, q>> \in assigned
            BY <1>2, <3>1
        <3>3. RoomsOf(p)' = RoomsOf(p)
            BY <3>2 DEF RoomsOf
        <3> QED
            BY <3>2, <3>3
    <2>2. CASE \E k \in Label, t \in Prop \X Label : CreateRoom(u, q, k, t)
        BY <1>3, <2>2 DEF TypesOf
    <2>3. CASE \/ \E kind \in Kind : TurnAway(u, kind, q) \/ Invalid(u, kind, q)
               \/ GetProperty(u, q)
        BY <1>8, <2>3 DEF TypesOf, RoomsOf
    <2> QED
        BY <1>12, <2>1, <2>2, <2>3 DEF Request1
<1> QED
    BY <1>9, <1>10, <1>11, <1>12 DEF Next

\* Rows, room types and rooms are only changed for headquarters and for staff
\* to whom the property is assigned in the tables at that moment, although the
\* guards looked at a token, and for an update earlier.
THEOREM StaffOnly == Spec => OnlyByStaff
<1>1. BackOfficeInv /\ [Next]_vars =>
          [\A p \in Prop :
          LET u == last'.user
              assignedAs(roles) == account[u] \in roles /\ <<u, p>> \in assigned
          IN  /\ (property[p] # NoRow /\ property'[p] # property[p]) =>
                    /\ last'.prop = p
                    /\ account[u] = "HQ_ADMIN" \/ assignedAs({"HOTEL_OWNER"})
              /\ (TypesOf(p)' # TypesOf(p) \/ RoomsOf(p)' # RoomsOf(p)) =>
                    /\ last'.prop = p
                    /\ \/ account[u] = "HQ_ADMIN"
                       \/ assignedAs({"HOTEL_OWNER", "HOTEL_MANAGER"})]_vars
    BY StaffStep DEF Entitled
<1> QED
    BY <1>1, BackOfficeInvariant, PTL DEF Spec, OnlyByStaff

\* An update keeps the fields its request does not name, unless another has
\* changed them since it read them.
THEOREM UnaskedKept == Spec => UnaskedIsKept
<1>1. ASSUME BackOfficeInv, [Next]_vars, NEW c \in Call,
             pc[c] = "write", pc'[c] = "idle"
      PROVE  LET old == property[req[c].prop]
                 new == property'[req[c].prop]
             IN  /\ (req[c].name = "" /\ seen[c].name = old.name) => new.name = old.name
                 /\ (req[c].status = "" /\ seen[c].status = old.status) =>
                       new.status = old.status
    <2> USE DEF BackOfficeInv, BackOfficeTypeOK, tables, calls
    <2>1. /\ req[c] \in Request /\ seen[c] \in Row /\ property[req[c].prop] \in Row
        BY <1>1 DEF CallsAreEntitled
    <2>2. CASE WriteProperty(c)
        <3>1. req[c].prop \in Prop
            BY <2>1 DEF Request
        <3>2. /\ req[c].name = "" => Merged(c).name = seen[c].name
              /\ req[c].status = "" => Merged(c).status = seen[c].status
            BY <2>1 DEF Merged, Row
        <3>3. \/ property' = property
              \/ property' = [property EXCEPT ![req[c].prop].name = Merged(c).name,
                                        ![req[c].prop].status = Merged(c).status]
            BY <2>2 DEF WriteProperty
        <3> DEFINE written == [property[req[c].prop] EXCEPT !.name = Merged(c).name,
                                                      !.status = Merged(c).status]
        <3>4. property' = property \/ property'[req[c].prop] = written
            BY <1>1, <3>1, <3>3
        <3>5. written.name = Merged(c).name /\ written.status = Merged(c).status
            BY <2>1 DEF Row
        <3> HIDE DEF written
        <3> QED
            BY <1>1, <3>2, <3>4, <3>5
    <2>3. CASE Crash
        BY <2>3 DEF Crash
    <2>4. CASE ~WriteProperty(c) /\ ~Crash
        <3>1. ASSUME NEW d \in Call, Request2(d)
              PROVE  FALSE
            <4>1. d # c
                <5>1. ASSUME NEW u \in User, NEW p \in Prop, NEW k \in Code,
                             NEW n \in Name, NEW o \in User \cup {"none"},
                             InsertProperty(d, u, p, k, n, o)
                      PROVE  pc[d] = "idle"
                    BY <5>1 DEF InsertProperty
                <5>2. AssignOwner(d) => pc[d] = "assign"
                    BY DEF AssignOwner
                <5>3. ASSUME NEW u \in User, NEW p \in Prop, NEW n \in Asked,
                             NEW s \in PropStatus \cup {""}, ReadProperty(d, u, p, n, s)
                      PROVE  pc[d] = "idle"
                    BY <5>3 DEF ReadProperty
                <5>4. pc[d] \in {"idle", "assign"} \/ WriteProperty(d)
                    BY <3>1, <5>1, <5>2, <5>3 DEF Request2
                <5> QED
                    BY <1>1, <2>4, <5>4
            <4>2. pc'[c] = pc[c]
                <5>1. CASE AssignOwner(d) \/ WriteProperty(d)
                    BY <1>1, <4>1, <5>1 DEF AssignOwner, WriteProperty
                <5>2. ASSUME NEW u \in User, NEW p \in Prop, NEW k \in Code,
                             NEW n \in Name, NEW o \in User \cup {"none"},
                             InsertProperty(d, u, p, k, n, o)
                      PROVE  pc'[c] = pc[c]
                    <6>1. pc' = pc \/ pc' = [pc EXCEPT ![d] = "assign"]
                        BY <5>2 DEF InsertProperty
                    <6> QED
                        BY <1>1, <4>1, <6>1
                <5>3. CASE \E u \in User, p \in Prop, n \in Asked,
                              s \in PropStatus \cup {""} : ReadProperty(d, u, p, n, s)
                    BY <1>1, <4>1, <5>3 DEF ReadProperty
                <5> QED
                    BY <3>1, <5>1, <5>2, <5>3 DEF Request2
            <4> QED
                BY <1>1, <4>2
        <3>2. pc' = pc
            BY <1>1, <2>4, <3>1 DEF Next, vars, Session, Register, Login, Invalid,
                Expire, Request1, TurnAway, GetProperty, CreateRoomType, CreateRoom
        <3> QED
            BY <1>1, <3>2
    <2> QED
        BY <2>2, <2>3, <2>4
<1>2. BackOfficeInv /\ [Next]_vars =>
          [\A c \in Call :
              LET p   == req[c].prop
                  old == property[p]
                  new == property'[p]
              IN  (pc[c] = "write" /\ pc'[c] = "idle") =>
                    /\ (req[c].name = "" /\ seen[c].name = old.name) =>
                          new.name = old.name
                    /\ (req[c].status = "" /\ seen[c].status = old.status) =>
                          new.status = old.status]_vars
    BY <1>1
<1> QED
    BY <1>2, BackOfficeInvariant, PTL DEF Spec, UnaskedIsKept
=============================================================================
