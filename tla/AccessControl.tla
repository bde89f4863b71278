---------------------------- MODULE AccessControl ----------------------------
(***************************************************************************)
(* Who may do what: the role matrix (src/auth/permissions), ownership and  *)
(* the field policy of PATCH /api/user/<id> (src/auth/policies). Operators *)
(* only: HttpPipeline uses the matrix, Members the policies.               *)
(*                                                                         *)
(* Definitions whose comment starts with "Variant:" are not the code's:    *)
(* each is the definition after it with one plausible bug.                 *)
(***************************************************************************)
EXTENDS Integers

Roles == 0..3
ADMIN == 0
PRESIDENT == 1
TREASURER == 2
MEMBER == 3

\* What request.authUser.profile?.role is for a user without a profile row.
NoRole == 99

-----------------------------------------------------------------------------
(* The role matrix. *)

\* The two forms of a rule: a ceiling and a list of roles.
Ceiling(n) == {r \in Roles : r <= n}
Anyone == Ceiling(MEMBER)
Bookkeepers == {ADMIN, TREASURER}

PERMISSION_MATRIX ==
    [LoanView               |-> [GET |-> Anyone, POST |-> Anyone, PATCH |-> Bookkeepers],
     LoanDetailView         |-> [GET |-> Anyone, PATCH |-> Bookkeepers],
     UserDetailView         |-> [GET |-> Anyone, PATCH |-> Anyone, DELETE |-> Ceiling(ADMIN)],
     UserView               |-> [POST |-> Ceiling(ADMIN), GET |-> Anyone, PATCH |-> Bookkeepers],
     ActivityYearView       |-> [GET |-> Anyone, POST |-> Ceiling(PRESIDENT)],
     ActivityYearDetailView |-> [GET |-> Anyone, POST |-> Ceiling(PRESIDENT)],
     ActivityDetailView     |-> [GET |-> Anyone, PATCH |-> Ceiling(PRESIDENT),
                                 DELETE |-> Ceiling(PRESIDENT)],
     LoanAppsView           |-> [POST |-> Anyone],
     NotificationView       |-> [POST |-> Anyone],
     FileView               |-> [POST |-> Ceiling(ADMIN), GET |-> Anyone],
     FileDetailView         |-> [GET |-> Anyone],
     UserAppsView           |-> [POST |-> Anyone],
     AdminView              |-> [GET |-> Ceiling(ADMIN)],
     SavingAccountView      |-> [GET |-> Anyone, POST |-> Anyone, PUT |-> Bookkeepers]]

V1_VIEW_NAMES == DOMAIN PERMISSION_MATRIX

\* Variant: a method the view's entry does not name is left to the view.
isRoleAllowedOpen(view, method, role) ==
    /\ view \in V1_VIEW_NAMES
    /\ method \in DOMAIN PERMISSION_MATRIX[view] => role \in PERMISSION_MATRIX[view][method]

\* Every miss denies: an unknown view, an unknown method, no role.
isRoleAllowed(view, method, role) ==
    /\ view \in V1_VIEW_NAMES
    /\ method \in DOMAIN PERMISSION_MATRIX[view]
    /\ role \in PERMISSION_MATRIX[view][method]

\* What was captured from the system this one replaces, role by role: the
\* requests that were let through to the view.
V1_ROLE_MATRIX ==
    LET member ==
            {<<"LoanView", "GET">>, <<"LoanView", "POST">>, <<"LoanDetailView", "GET">>,
             <<"UserDetailView", "GET">>, <<"UserDetailView", "PATCH">>, <<"UserView", "GET">>,
             <<"ActivityYearView", "GET">>, <<"ActivityYearDetailView", "GET">>,
             <<"ActivityDetailView", "GET">>, <<"LoanAppsView", "POST">>,
             <<"NotificationView", "POST">>, <<"FileView", "GET">>, <<"FileDetailView", "GET">>,
             <<"UserAppsView", "POST">>, <<"SavingAccountView", "GET">>,
             <<"SavingAccountView", "POST">>}
        activities == {<<"ActivityYearView", "POST">>, <<"ActivityYearDetailView", "POST">>,
                       <<"ActivityDetailView", "PATCH">>, <<"ActivityDetailView", "DELETE">>}
        money == {<<"LoanView", "PATCH">>, <<"LoanDetailView", "PATCH">>, <<"UserView", "PATCH">>,
                  <<"SavingAccountView", "PUT">>}
        administration == {<<"UserView", "POST">>, <<"UserDetailView", "DELETE">>,
                           <<"FileView", "POST">>, <<"AdminView", "GET">>}
    IN  [r \in Roles |-> CASE r = ADMIN     -> member \cup activities \cup money \cup administration
                           [] r = PRESIDENT -> member \cup activities
                           [] r = TREASURER -> member \cup money
                           [] r = MEMBER    -> member]

-----------------------------------------------------------------------------
(* Ownership. *)

Self == -1

\* GET and PATCH take -1 for the caller, DELETE never does (D14).
resolveDetailUserId(requested, actor, verb) ==
    IF requested = Self /\ verb # "DELETE" THEN actor ELSE requested

\* The owner, or one of the roles also allowed (D2, D10, D25).
mayAccess(actor, role, target, alsoAllowRoles) == actor = target \/ role \in alsoAllowRoles

USER_READ_PRIVILEGED_ROLES == {ADMIN, PRESIDENT, TREASURER}

-----------------------------------------------------------------------------
(* The sections of PATCH /api/user/<id> and their fields (D1, D16). *)

\* Anything that is not "personal" or "finance" is "preferences".
resolveSection(type) == IF type \in {"personal", "finance"} THEN type ELSE "preferences"

SECTION_FIELDS ==
    [personal    |-> {"first_name", "last_name", "email", "identification", "role", "birthdate"},
     preferences |-> {"notifications", "primary_color", "secondary_color"},
     finance     |-> {"contributions", "balance_contributions", "total_quota", "utilized_quota"}]

PRIVILEGED_FIELDS == {"role", "identification"}

\* The section gate: who may write the section at all.
canWriteSection(actor, role, target, section) ==
    /\ role # NoRole
    /\ IF section = "finance" THEN role \in Bookkeepers
                              ELSE actor = target \/ role = ADMIN

\* Variant: who may write the section may write its every field.
userPatchAllowlistWhole(actor, role, target, section) ==
    IF canWriteSection(actor, role, target, section) THEN SECTION_FIELDS[section] ELSE {}

\* The field gate: the section's fields within the caller's rights.
userPatchAllowlist(actor, role, target, section) ==
    IF canWriteSection(actor, role, target, section)
    THEN {f \in SECTION_FIELDS[section] : f \in PRIVILEGED_FIELDS => role = ADMIN}
    ELSE {}

\* An empty allowlist denies an empty set of fields as well.
permits(allowlist, fields) == allowlist # {} /\ fields \subseteq allowlist

\* The fields of the section whose submitted value differs from the stored
\* one. What the client echoes back unchanged, and what is no column of the
\* section, is no change.
changedSectionFields(section, submitted, stored) ==
    {f \in DOMAIN submitted \cap SECTION_FIELDS[section] :
        f \in DOMAIN stored => submitted[f] # stored[f]}
=============================================================================
