------------------------------- MODULE Access -------------------------------
(***************************************************************************)
(* Who may call which administration endpoint, and what a handler answers: *)
(* the roles, the route table of /v1/admin, the two guards every route     *)
(* runs through, and the translation of an error to a status.              *)
(***************************************************************************)

Role == {"HQ_ADMIN", "REGIONAL_SUPERVISOR", "HOTEL_OWNER", "HOTEL_MANAGER",
         "RECEPTIONIST", "CUSTOMER", "CORPORATE"}

\* The role of somebody without an account or without a token.
NoRole == "none"

\* The routes under /v1/admin and the roles each is registered with.
Route == [create_property  |-> {"HQ_ADMIN", "HOTEL_OWNER"},
          get_property     |-> {"HQ_ADMIN", "REGIONAL_SUPERVISOR",
                                "HOTEL_OWNER", "HOTEL_MANAGER", "RECEPTIONIST"},
          update_property  |-> {"HQ_ADMIN", "HOTEL_OWNER"},
          create_room_type |-> {"HQ_ADMIN", "HOTEL_OWNER", "HOTEL_MANAGER"},
          create_room      |-> {"HQ_ADMIN", "HOTEL_OWNER", "HOTEL_MANAGER"}]

Kind   == DOMAIN Route
Scoped == Kind \ {"create_property"}

\* HQ_ADMIN passes whatever roles a route names.
RequireRoles(role, kind) == role = "HQ_ADMIN" \/ role \in Route[kind]

\* Mutation: an owner passes for every property, as HQ_ADMIN does.
ScopeWithoutOwners(claims, p) ==
    \/ claims.role \in {"HQ_ADMIN", "REGIONAL_SUPERVISOR", "HOTEL_OWNER"}
    \/ p \in claims.props

\* A supervisor passes for every property: the middleware leaves the region to
\* "service layer or query", and neither looks at it.
RequirePropertyScope(claims, p) ==
    \/ claims.role \in {"HQ_ADMIN", "REGIONAL_SUPERVISOR"}
    \/ p \in claims.props

\* A request goes through AuthMiddleware (there must be a valid token), then
\* through the scope and the roles of its route.
Admits(claims, kind, p) ==
    /\ claims.role # NoRole
    /\ kind \in Scoped => RequirePropertyScope(claims, p)
    /\ RequireRoles(claims.role, kind)

Refusal(claims) == IF claims.role = NoRole THEN 401 ELSE 403

-----------------------------------------------------------------------------
(* Errors and answers *)

\* An error is the name of a domain error, or a package's name and that of its
\* error, or "malformed" (a body or an id that cannot be read) or "database";
\* "" is nil.
StatusOf == [ErrConflict |-> 409, ErrNotFound |-> 404, ErrUnauthorized |-> 401,
             ErrInvalidParameters |-> 400, ErrPasswordTooShort |-> 400,
             malformed |-> 400]

\* What each handler looks for with errors.Is.
Known == [create_property  |-> {"malformed", "ErrConflict", "ErrInvalidParameters"},
          get_property     |-> {"malformed", "ErrNotFound"},
          update_property  |-> {"malformed", "ErrNotFound"},
          create_room_type |-> {"malformed", "ErrConflict", "ErrInvalidParameters"},
          create_room      |-> {"malformed", "ErrConflict", "ErrInvalidParameters"},
          register         |-> {"malformed", "ErrConflict", "ErrPasswordTooShort",
                                "ErrInvalidParameters"},
          login            |-> {"malformed", "ErrUnauthorized"}]

\* The services object with errors of their own packages.  They have the names
\* of the domain's and are other values: no handler looks for them.
Objections == [create_property  |-> {"property.ErrInvalidParameters"},
               get_property     |-> {},
               update_property  |-> {},
               create_room_type |-> {"property.ErrInvalidParameters"},
               create_room      |-> {"property.ErrInvalidParameters"},
               register         |-> {"identity.ErrInvalidParameters",
                                     "identity.ErrPasswordTooShort"},
               login            |-> {}]      \* (but see LoginError)

Success(kind) == IF kind \in {"get_property", "update_property", "login"}
                 THEN 200 ELSE 201

Status(kind, err) ==
    IF err = "" THEN Success(kind)
    ELSE IF err \in Known[kind] THEN StatusOf[err] ELSE 500
=============================================================================
