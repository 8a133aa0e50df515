---------------------------- MODULE Permissions ----------------------------
(****************************************************************************)
(* AuthorizationChecker (security/rbac.py), of one user and one repository. *)
(* check_repository_access asks whether the repository is public, whether   *)
(* the user is a member of its organization, and for an entry in the access *)
(* list, and stops at the first yes; get_accessible_repositories asks all   *)
(* three.  Rights change between the queries.                               *)
(*                                                                          *)
(* A request carries the scopes of the role that the user had when they     *)
(* logged in, and AuthorizationMiddleware compares them with the endpoint.  *)
(****************************************************************************)
EXTENDS Naturals, Sequences, FiniteSets

CONSTANTS
    MaxChanges,     \* bound: how often rights and roles change
    NoRole, NoScope

ASSUME PermissionAssumption == MaxChanges \in Nat

Reading == {"repo:read", "code:read", "deps:read"}
Scopes == Reading \cup {"repo:write", "index:trigger", "admin:users", "admin:keys", "admin:system"}

\* ROLE_PERMISSIONS; a service account only reads.
RolePermissions ==
    [viewer |-> Reading, developer |-> Reading \cup {"index:trigger"},
     admin |-> Scopes, service |-> Reading]
Roles == DOMAIN RolePermissions

\* ENDPOINT_SCOPES; "other" stands for the paths that are not listed.
EndpointScopes ==
    [search |-> "code:read", trace |-> "code:read", dependencies |-> "deps:read",
     radius |-> "deps:read", file |-> "code:read", diff |-> "code:read",
     batch |-> "code:read", health |-> NoScope, other |-> NoScope]

Actions == {"read", "write"}
Sources == <<"public", "member", "acl">>

VARIABLES
    isPublic, isMember,
    acl,            \* the actions in the access list
    role,           \* in table users, or NoRole without a row
    scopes,         \* of the user's token
    check,          \* the check in progress, and what became of it
    changes

rightVars == <<isPublic, isMember, acl, role, scopes, check, changes>>

NoCheck == [at |-> "idle", task |-> "read", asked |-> 0, found |-> FALSE,
            ever |-> FALSE, always |-> FALSE, gained |-> FALSE]

RightsInit ==
    /\ isPublic \in BOOLEAN /\ isMember \in BOOLEAN
    /\ acl \in SUBSET Actions
    /\ role \in Roles \cup {NoRole} /\ scopes = {}
    /\ check = NoCheck
    /\ changes = 0

\* get_user_role, get_user_scopes: without a row, a viewer.
UserScopes == RolePermissions[IF role = NoRole THEN "viewer" ELSE role]

CheckPermission(required) == "admin:system" \in scopes \/ required \in scopes
CheckEndpoint(e) == EndpointScopes[e] = NoScope \/ CheckPermission(EndpointScopes[e])

\* A slip: any entry will do.
InAcl_Any(task, list) == list # {}
\* _has_acl_access wants the very action; the list of repositories, either.
InAcl(task, list) == IF task = "list" THEN list # {} ELSE task \in list

Right(source, task) ==
    CASE source = "public" -> isPublic
      [] source = "member" -> isMember
      [] source = "acl" -> InAcl(task, acl)

(****************************************************************************)
(* Changes                                                                  *)
(****************************************************************************)
\* What the access list itself says, for the history of a check.
Held(public, member, list) ==
    [public |-> public, member |-> member,
     acl |-> IF check.task = "list" THEN list # {} ELSE check.task \in list]

HasAccess(held) == held.public \/ held.member \/ held.acl

\* A check in progress notes what it missed: a source that it has asked and that
\* gives the right only now.
Change(public, member, list) ==
    LET old == Held(isPublic, isMember, acl)
        new == Held(public, member, list)
        missed == \E n \in 1 .. check.asked : new[Sources[n]] /\ ~old[Sources[n]]
    IN
    /\ changes < MaxChanges /\ changes' = changes + 1
    /\ isPublic' = public /\ isMember' = member /\ acl' = list
    /\ check' = IF check.at # "asking" THEN check
                ELSE [check EXCEPT !.ever = @ \/ HasAccess(new),
                                   !.always = @ /\ HasAccess(new),
                                   !.gained = @ \/ missed]
    /\ UNCHANGED <<role, scopes>>

\* grant_repository_access and revoke_repository_access; members and repositories
\* change otherwise.
Grant(action) == Change(isPublic, isMember, acl \cup {action})
Revoke(actions) == Change(isPublic, isMember, acl \ actions)
Publish == Change(~isPublic, isMember, acl)
JoinOrLeave == Change(isPublic, ~isMember, acl)

\* UPDATE finds no row of an unknown user.
AssignRole(r) ==
    /\ changes < MaxChanges /\ changes' = changes + 1
    /\ role' = IF role = NoRole THEN NoRole ELSE r
    /\ UNCHANGED <<isPublic, isMember, acl, scopes, check>>

LogIn ==
    /\ scopes' = UserScopes
    /\ UNCHANGED <<isPublic, isMember, acl, role, check, changes>>

(****************************************************************************)
(* A request                                                                *)
(****************************************************************************)
BeginCheck(e, task) ==
    /\ check.at \in {"idle", "granted", "refused"}
    /\ check' =
        IF ~CheckEndpoint(e) THEN NoCheck
        ELSE LET held == isPublic \/ isMember \/ (IF task = "list" THEN acl # {} ELSE task \in acl)
             IN [at |-> "asking", task |-> task, asked |-> 0, found |-> FALSE,
                 ever |-> held, always |-> held, gained |-> FALSE]
    /\ UNCHANGED <<isPublic, isMember, acl, role, scopes, changes>>

\* One query; a check ends with the first yes, a list with the last query.
AskSource ==
    /\ check.at = "asking"
    /\ LET asked == check.asked + 1
           yes == check.found \/ Right(Sources[asked], check.task)
       IN check' = [check EXCEPT !.asked = asked, !.found = yes,
                !.at = CASE yes /\ check.task # "list" -> "granted"
                         [] asked = Len(Sources) -> IF yes THEN "granted" ELSE "refused"
                         [] OTHER -> "asking"]
    /\ UNCHANGED <<isPublic, isMember, acl, role, scopes, changes>>

RightsNext ==
    \/ \E a \in Actions : Grant(a) \/ Revoke({a})
    \/ Revoke(Actions) \/ Publish \/ JoinOrLeave
    \/ \E r \in Roles : AssignRole(r)
    \/ LogIn
    \/ \E e \in DOMAIN EndpointScopes, task \in Actions \cup {"list"} : BeginCheck(e, task)
    \/ AskSource

RightsSpec == RightsInit /\ [][RightsNext]_rightVars

-----------------------------------------------------------------------------
\* Access is granted only to who had it at some moment of the check.  Who had it
\* all the time is refused only if one right replaced another behind the back of
\* the check: a source gave it after it had been asked (check_repository_access,
\* get_accessible_repositories).
CheckMeansAccess ==
    /\ check.at = "granted" => check.ever
    /\ check.at = "refused" => ~check.always \/ check.gained
=============================================================================
