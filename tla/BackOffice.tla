----------------------------- MODULE BackOffice -----------------------------
(***************************************************************************)
(* Identity and property administration: accounts, logins and the claims   *)
(* in their tokens, and the handlers that create and update properties,    *)
(* room types and rooms, several requests at a time.                       *)
(*                                                                         *)
(* A handler whose only access to the database is one statement is one     *)
(* step.  Creating a property (INSERT, then the owner's assignment) and    *)
(* updating one (read, merge, write back) are two: no transaction spans    *)
(* them.  Rows are never deleted by the program and accounts never change. *)
(***************************************************************************)
EXTENDS Access, Integers

CONSTANTS
    User,         \* phone numbers
    Prop,         \* ids of properties
    Code,         \* codes of properties
    Label,        \* codes of room types, numbers of rooms
    Name,         \* names of properties, none of them empty or blank
    PropStatus,   \* statuses of a property, "DRAFT" among them
    Roles,        \* the roles people register with
    Call,         \* requests in progress at a time
    Faults        \* what may go wrong

\* A name of nothing but white space.
Blank == "  "

ASSUME RolesAssumption  == Roles \subseteq Role
ASSUME StatusAssumption == "DRAFT" \in PropStatus /\ "" \notin PropStatus
ASSUME NameAssumption   == Name \cap {"", Blank} = {}
ASSUME NullAssumption   == "none" \notin User \cup Code \cup Prop
\* "down": a statement fails; "lost": it is done but its answer does not
\* arrive; "crash": the process dies between two statements; "cut": the
\* connection breaks while the rows of a query are read.
ASSUME BackOfficeFaults == Faults \subseteq {"down", "lost", "crash", "cut"}

VARIABLES
    account,      \* [User -> Role or NoRole], app_user by phone number
    assigned,     \* user_property_assignment, pairs of user and property
    token,        \* [User -> Claims], the token each person holds
    property,     \* [Prop -> Row], NoRow where there is none
    roomType,     \* pairs of property and code, both UNIQUE and the id
    room,         \* rooms: where it is, its number, its room type
    pc,           \* where a request of two statements is
    req,          \* what it asks for
    seen,         \* the row UpdateProperty has read
    last,         \* the latest request that wrote or was answered
    orphans       \* history: properties whose owner's assignment failed

tables == <<account, assigned, property, roomType, room>>
calls  == <<pc, req, seen>>
vars   == <<tables, token, calls, last, orphans>>

\* A property is created with a name, but an update can take it away.
Row     == [code : Code, name : Name \cup {""}, status : PropStatus,
            owner : User \cup {"none"}]
NoRow   == [code |-> "none", name |-> "", status |-> "", owner |-> "none"]
Claims  == [role : Roles \cup {NoRole}, props : SUBSET Prop]
NoToken == [role |-> NoRole, props |-> {}]
\* name and status are "" in a request that leaves them as they are.
Asked   == Name \cup {"", Blank}
Request == [user : User, prop : Prop, name : Asked, status : PropStatus \cup {""}]
Nobody  == [user |-> "none", prop |-> "none", name |-> "", status |-> ""]
Room    == [home : Prop, number : Label, of : Prop \X Label]
NoProp  == "none"
Event   == [user : User \cup {"none"}, kind : Kind \cup {"register", "login"},
            prop : Prop \cup {NoProp},
            status : {0, 200, 201, 400, 401, 403, 404, 409, 500}]

BackOfficeTypeOK ==
    /\ account \in [User -> Roles \cup {NoRole}]
    /\ assigned \subseteq User \X Prop
    /\ token \in [User -> Claims]
    /\ property \in [Prop -> Row \cup {NoRow}]
    /\ roomType \subseteq Prop \X Label
    /\ room \subseteq Room
    /\ pc \in [Call -> {"idle", "assign", "write"}]
    /\ req \in [Call -> Request \cup {Nobody}]
    /\ seen \in [Call -> Row \cup {NoRow}]
    /\ last \in Event
    /\ orphans \subseteq Prop

Init ==
    /\ account = [u \in User |-> NoRole]
    /\ assigned = {}
    /\ token = [u \in User |-> NoToken]
    /\ property = [p \in Prop |-> NoRow]
    /\ roomType = {}
    /\ room = {}
    /\ pc = [c \in Call |-> "idle"]
    /\ req = [c \in Call |-> Nobody]
    /\ seen = [c \in Call |-> NoRow]
    /\ last = [user |-> "none", kind |-> "login", prop |-> NoProp, status |-> 0]
    /\ orphans = {}

-----------------------------------------------------------------------------
(* Statements and answers *)

\* A statement is done and heard, or fails, or is done unheard.
Ways == {"heard"} \cup (Faults \cap {"down", "lost"})

\* The error of a statement that the database by itself answers with err.
Err(way, err) == IF way = "heard" THEN err ELSE "database"
Done(way, err) == way # "down" /\ err = ""

Says(u, kind, p, err) ==
    last' = [user |-> u, kind |-> kind, prop |-> p, status |-> Status(kind, err)]

\* A request that has written but is not answered yet.
Writes(u, kind, p) ==
    last' = [user |-> u, kind |-> kind, prop |-> p, status |-> 0]

-----------------------------------------------------------------------------
(* Accounts and tokens *)

\* Phone numbers are UNIQUE.
CreateUserError(u) == IF account[u] = NoRole THEN "" ELSE "ErrConflict"

RegisterUser(u, r, way) ==
    account' = IF Done(way, CreateUserError(u)) THEN [account EXCEPT ![u] = r]
                                               ELSE account

\* POST /v1/auth/register.
Register(u, r) ==
    /\ \E way \in Ways :
          /\ RegisterUser(u, r, way)
          /\ Says(u, "register", NoProp, Err(way, CreateUserError(u)))
    /\ UNCHANGED <<assigned, token, property, roomType, room, calls, orphans>>

\* Mutation: the query forgets its WHERE clause.
AllAssignments(u) == {p \in Prop : \E v \in User : <<v, p>> \in assigned}

AssignmentsOf(u) == {p \in Prop : <<u, p>> \in assigned}

\* The lists that may come back: rows.Err is not looked at when rows.Next says
\* that there are no more, so that a list that was cut looks complete.
GetUserPropertyAssignments(u) ==
    IF "cut" \in Faults THEN SUBSET AssignmentsOf(u) ELSE {AssignmentsOf(u)}

GetByPhone(u) == IF account[u] = NoRole THEN "ErrNotFound" ELSE ""

\* The error of AuthService.Login; way is that of the last of its queries.  A
\* user who cannot be read is one whose password is wrong.
LoginError(u, right, way) ==
    IF ~right \/ GetByPhone(u) # "" THEN "identity.ErrUnauthorized" ELSE Err(way, "")

GenerateToken(u, props) == [role |-> account[u], props |-> props]

\* POST /v1/auth/login: the token says what the database said at that moment.
Login(u) ==
    /\ \E right \in BOOLEAN, way \in Ways :
          LET err == LoginError(u, right, way)
          IN  /\ Says(u, "login", NoProp, err)
              /\ \/ /\ err = ""
                    /\ \E props \in GetUserPropertyAssignments(u) :
                          token' = [token EXCEPT ![u] = GenerateToken(u, props)]
                 \/ err # "" /\ UNCHANGED token
    /\ UNCHANGED <<tables, calls, orphans>>

\* A token is good for its time to live; nothing revokes it earlier.
Expire(u) ==
    /\ token[u] # NoToken
    /\ token' = [token EXCEPT ![u] = NoToken]
    /\ UNCHANGED <<tables, calls, last, orphans>>

-----------------------------------------------------------------------------
(* Requests that change nothing *)

\* A guard refuses the request.
TurnAway(u, kind, p) ==
    /\ ~Admits(token[u], kind, p)
    /\ last' = [user |-> u, kind |-> kind, prop |-> p, status |-> Refusal(token[u])]
    /\ UNCHANGED <<tables, token, calls, orphans>>

\* The body or an id cannot be read, or the service objects to what it says.
Invalid(u, kind, p) ==
    /\ kind \in Kind => Admits(token[u], kind, p)
    /\ \E err \in {"malformed"} \cup Objections[kind] : Says(u, kind, p, err)
    /\ UNCHANGED <<tables, token, calls, orphans>>

\* GetPropertyByID.
Found(p) == IF property[p] = NoRow THEN "ErrNotFound" ELSE ""

GetProperty(u, p) ==
    /\ Admits(token[u], "get_property", p)
    /\ \E way \in Ways : Says(u, "get_property", p, Err(way, Found(p)))
    /\ UNCHANGED <<tables, token, calls, orphans>>

-----------------------------------------------------------------------------
(* Creating and updating a property *)

\* The row of a new property.  A code is UNIQUE; an owner must have an account.
InsertError(k, o) ==
    IF \E q \in Prop : property[q].code = k THEN "ErrConflict"
    ELSE IF o # "none" /\ account[o] = NoRole THEN "database" ELSE ""

\* POST /v1/admin/properties: the INSERT.  The status is DRAFT whatever the
\* request says; the owner is the one it names, if any, not its caller.
InsertProperty(c, u, p, k, n, o) ==
    LET err == InsertError(k, o)
    IN  /\ pc[c] = "idle"
        /\ property[p] = NoRow
        /\ Admits(token[u], "create_property", p)
        /\ \E way \in Ways :
              /\ property' = IF Done(way, err)
                    THEN [property EXCEPT ![p] = [code |-> k, name |-> n,
                                           status |-> "DRAFT", owner |-> o]]
                    ELSE property
              /\ IF Err(way, err) = "" /\ o # "none"
                 THEN /\ pc' = [pc EXCEPT ![c] = "assign"]
                      /\ req' = [req EXCEPT ![c] = [user |-> u, prop |-> p,
                                                  name |-> "", status |-> ""]]
                      /\ Writes(u, "create_property", p)
                      /\ UNCHANGED orphans
                 ELSE /\ UNCHANGED <<pc, req>>
                      /\ Says(u, "create_property", p, Err(way, err))
                      /\ orphans' = IF Done(way, err) /\ o # "none"
                                    THEN orphans \cup {p} ELSE orphans
        /\ UNCHANGED <<account, assigned, roomType, room, token, seen>>

\* Mutation: the property is assigned to the one who created it.
AssignCaller(c) ==
    /\ pc[c] = "assign"
    /\ assigned' = assigned \cup {<<req[c].user, req[c].prop>>}
    /\ Says(req[c].user, "create_property", req[c].prop, "")
    /\ pc' = [pc EXCEPT ![c] = "idle"]
    /\ req' = [req EXCEPT ![c] = Nobody]
    /\ UNCHANGED <<account, property, roomType, room, token, seen, orphans>>

\* AssignUserToProperty: ON CONFLICT DO NOTHING.
AssignUserToProperty(o, p) == assigned' = assigned \cup {<<o, p>>}

\* The owner's assignment; its error is dropped and the answer is 201.
AssignOwner(c) ==
    LET p == req[c].prop
    IN  /\ pc[c] = "assign"
        /\ \E way \in Ways :
              IF way = "down"
              THEN /\ orphans' = orphans \cup {p}
                   /\ UNCHANGED assigned
              ELSE /\ AssignUserToProperty(property[p].owner, p)
                   /\ UNCHANGED orphans
        /\ Says(req[c].user, "create_property", p, "")
        /\ pc' = [pc EXCEPT ![c] = "idle"]
        /\ req' = [req EXCEPT ![c] = Nobody]
        /\ UNCHANGED <<account, property, roomType, room, token, seen>>

\* PUT /v1/admin/properties/{id}: the row is read.
ReadProperty(c, u, p, n, s) ==
    /\ pc[c] = "idle"
    /\ Admits(token[u], "update_property", p)
    /\ \E way \in Ways :
          IF Err(way, Found(p)) = ""
          THEN /\ pc' = [pc EXCEPT ![c] = "write"]
               /\ req' = [req EXCEPT ![c] = [user |-> u, prop |-> p,
                                           name |-> n, status |-> s]]
               /\ seen' = [seen EXCEPT ![c] = property[p]]
               /\ UNCHANGED last
          ELSE /\ Says(u, "update_property", p, Err(way, Found(p)))
               /\ UNCHANGED calls
    /\ UNCHANGED <<tables, token, orphans>>

TrimSpace(n) == IF n = Blank THEN "" ELSE n

\* Mutation: a name the request leaves out is written empty, a status as DRAFT.
MergedBlindly(c) ==
    [seen[c] EXCEPT !.name = TrimSpace(req[c].name),
                    !.status = IF req[c].status = "" THEN "DRAFT"
                                                    ELSE req[c].status]

\* Mutation: the name is written as it was sent.
MergedUntrimmed(c) ==
    [seen[c] EXCEPT !.name = IF req[c].name = "" THEN @ ELSE req[c].name,
                    !.status = IF req[c].status = "" THEN @ ELSE req[c].status]

\* What the request names replaces what was read.  A name is found to be there
\* before it is trimmed: a blank one replaces the name by an empty one.
Merged(c) ==
    [seen[c] EXCEPT !.name = IF req[c].name = "" THEN @ ELSE TrimSpace(req[c].name),
                    !.status = IF req[c].status = "" THEN @ ELSE req[c].status]

\* The UPDATE writes all fields of the merged row, except code and owner.
WriteProperty(c) ==
    LET p == req[c].prop
    IN  /\ pc[c] = "write"
        /\ \E way \in Ways :
              /\ property' = IF Done(way, "")
                    THEN [property EXCEPT ![p].name = Merged(c).name,
                                          ![p].status = Merged(c).status]
                    ELSE property
              /\ Says(req[c].user, "update_property", p, Err(way, ""))
        /\ pc' = [pc EXCEPT ![c] = "idle"]
        /\ req' = [req EXCEPT ![c] = Nobody]
        /\ seen' = [seen EXCEPT ![c] = NoRow]
        /\ UNCHANGED <<account, assigned, roomType, room, token, orphans>>

-----------------------------------------------------------------------------
(* Room types and rooms *)

\* The property must exist; codes are UNIQUE in it.
RoomTypeError(p, k) ==
    IF property[p] = NoRow THEN "database"
    ELSE IF <<p, k>> \in roomType THEN "ErrConflict" ELSE ""

\* POST .../room-types.
CreateRoomType(u, p, k) ==
    LET err == RoomTypeError(p, k)
    IN  /\ Admits(token[u], "create_room_type", p)
        /\ \E way \in Ways :
              /\ roomType' = IF Done(way, err) THEN roomType \cup {<<p, k>>}
                                              ELSE roomType
              /\ Says(u, "create_room_type", p, Err(way, err))
        /\ UNCHANGED <<account, assigned, property, room, token, calls, orphans>>

\* Numbers are UNIQUE in a property.  The property and the room type must exist,
\* the room type in this property or another.  UNIQUE indexes are looked at
\* before foreign keys.
RoomError(p, k, t) ==
    IF \E r \in room : r.home = p /\ r.number = k THEN "ErrConflict"
    ELSE IF t \notin roomType \/ property[p] = NoRow THEN "database" ELSE ""

\* POST .../rooms.
CreateRoom(u, p, k, t) ==
    LET err == RoomError(p, k, t)
    IN  /\ Admits(token[u], "create_room", p)
        /\ \E way \in Ways :
              /\ room' = IF Done(way, err)
                         THEN room \cup {[home |-> p, number |-> k, of |-> t]}
                         ELSE room
              /\ Says(u, "create_room", p, Err(way, err))
        /\ UNCHANGED <<account, assigned, property, roomType, token, calls, orphans>>

-----------------------------------------------------------------------------
(* The API process dies with the requests in progress. *)
Crash ==
    /\ "crash" \in Faults
    /\ \E c \in Call : pc[c] # "idle"
    /\ orphans' = orphans \cup {req[c].prop : c \in {d \in Call : pc[d] = "assign"}}
    /\ pc' = [c \in Call |-> "idle"]
    /\ req' = [c \in Call |-> Nobody]
    /\ seen' = [c \in Call |-> NoRow]
    /\ UNCHANGED <<tables, token, last>>

Session(u) ==
    \/ \E r \in Roles : Register(u, r)
    \/ Login(u)
    \/ \E kind \in {"register", "login"} : Invalid(u, kind, NoProp)
    \/ Expire(u)

Request1(u, p) ==
    \/ \E kind \in Kind : TurnAway(u, kind, p)
    \/ \E kind \in Kind : Invalid(u, kind, p)
    \/ GetProperty(u, p)
    \/ \E k \in Label : CreateRoomType(u, p, k)
    \/ \E k \in Label, t \in Prop \X Label : CreateRoom(u, p, k, t)

Request2(c) ==
    \/ \E u \in User, p \in Prop, k \in Code, n \in Name, o \in User \cup {"none"} :
          InsertProperty(c, u, p, k, n, o)
    \/ AssignOwner(c)
    \/ \E u \in User, p \in Prop, n \in Asked, s \in PropStatus \cup {""} :
          ReadProperty(c, u, p, n, s)
    \/ WriteProperty(c)

Next ==
    \/ \E u \in User : Session(u)
    \/ \E u \in User, p \in Prop : Request1(u, p)
    \/ \E c \in Call : Request2(c)
    \/ Crash

Spec == Init /\ [][Next]_vars

-----------------------------------------------------------------------------
(* Correctness *)

\* A token claims no more than the tables say: the role of its user's account
\* and properties that user is assigned to, however old the token is.
TokensAreBacked ==
    \A u \in User :
        /\ token[u].role \in {NoRole, account[u]}
        /\ \A p \in token[u].props : <<u, p>> \in assigned

TypesOf(p) == {t \in roomType : t[1] = p}
RoomsOf(p) == {r \in room : r.home = p}

\* "staff members only access properties assigned to their account": a row is
\* changed for its assigned owner or for headquarters only, and a room type or
\* a room is added for them or an assigned manager, although the guards look
\* at a token issued earlier and an update writes later than they look.
OnlyByStaff ==
    [][\A p \in Prop :
          LET u == last'.user
              assignedAs(roles) == account[u] \in roles /\ <<u, p>> \in assigned
          IN  /\ (property[p] # NoRow /\ property'[p] # property[p]) =>
                    /\ last'.prop = p
                    /\ account[u] = "HQ_ADMIN" \/ assignedAs({"HOTEL_OWNER"})
              /\ (TypesOf(p)' # TypesOf(p) \/ RoomsOf(p)' # RoomsOf(p)) =>
                    /\ last'.prop = p
                    /\ \/ account[u] = "HQ_ADMIN"
                       \/ assignedAs({"HOTEL_OWNER", "HOTEL_MANAGER"})]_vars

\* "assigns owner scope": a property that names an owner is among those a
\* login of the owner puts into the token, unless its creation is still going
\* on or one of its statements failed.
OwnerCanReach ==
    \A p \in Prop :
        property[p].owner # "none" =>
            \/ p \in AssignmentsOf(property[p].owner)
            \/ p \in orphans
            \/ \E c \in Call : pc[c] = "assign" /\ req[c].prop = p

\* A field that an update does not name, and that is as the update read it, is
\* kept, whatever else others have written meanwhile.  (One that is not goes
\* back to what was read.)
UnaskedIsKept ==
    [][\A c \in Call :
          LET p   == req[c].prop
              old == property[p]
              new == property'[p]
          IN  (pc[c] = "write" /\ pc'[c] = "idle") =>
                /\ (req[c].name = "" /\ seen[c].name = old.name) => new.name = old.name
                /\ (req[c].status = "" /\ seen[c].status = old.status) =>
                      new.status = old.status]_vars
=============================================================================
