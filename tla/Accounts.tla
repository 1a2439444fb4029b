------------------------------ MODULE Accounts ------------------------------
(***************************************************************************)
(* Accounts of IAM: registration, confirmation codes and the janitor that  *)
(* clears them, passwords, the personal workspace that confirming an       *)
(* e-mail address provisions, organizations, projects and their owners.    *)
(*                                                                         *)
(* Handlers that decide on an object loaded earlier are two actions. A     *)
(* code is a number; its age is "fresh" or, an hour later, "old".          *)
(***************************************************************************)
EXTENDS Integers, FiniteSets, Api

CONSTANTS
    Users, Orgs, Projects,  \* ids of rows
    MaxCode,                \* bound: codes made
    Acts                    \* bound: requests to the API

ASSUME AccountsAssumption ==
    /\ MaxCode \in Nat /\ Acts \in Nat
    /\ None \notin Nat \union Users \union {"OWNER", "MEMBER", "fresh", "old"}

VARIABLES
    user,       \* rows of iam_users
    known,      \* users that are or were registered
    newcomer,   \* number of bindings of the newcomer role
    org,        \* rows of iam_organizations: whose personal workspace, if any
    member,     \* rows of iam_organization_members
    project,    \* rows of iam_projects: their organization
    owners,     \* number of bindings of the owner role, by project and user
    janitor,    \* users that the janitor has loaded
    act,        \* requests in flight, by worker
    acts,       \* requests still to come
    codes,      \* codes made so far
    mail,       \* history: code in the last mail, until used, cleared or expired
    left,       \* history: users that lost a membership or changed their role
    overlap     \* do requests overlap, with each other and with the janitor?

accountsVars == <<user, known, newcomer, org, member, project, owners, janitor, act, acts,
                  codes, mail, left, overlap>>

orgVars == <<org, member, project, owners, left>>

UserRows == [verified : BOOLEAN, code : Nat \union {None},
             made : {"fresh", "old", None}, secret : {"first", "changed"},
             auto : BOOLEAN]

OrgRows == [personal : Users \union {None}]

Roles == {"OWNER", "MEMBER", None}

ActRows ==
    [op : {"send", "confirm", "reset"}, user : Users, row : UserRows, mailed : BOOLEAN]
    \union [op : {"deleteUser"}, user : Users, owned : [Projects -> Nat], newcomer : Nat]
    \union [op : {"addUser"}, user : Users, project : Projects, insert : BOOLEAN]
    \union [op : {"deleteProject"}, project : Projects, owned : [Users -> Nat]]

AccountsTypeOK ==
    /\ user \in [Users -> UserRows \union {None}]
    /\ known \subseteq Users /\ left \subseteq Users
    /\ newcomer \in [Users -> Nat]
    /\ org \in [Orgs -> OrgRows \union {None}]
    /\ member \in [Orgs -> [Users -> Roles]]
    /\ project \in [Projects -> Orgs \union {None}]
    /\ owners \in [Projects -> [Users -> Nat]]
    /\ janitor = None \/ \E us \in SUBSET Users : janitor \in [us -> UserRows]
    /\ act \in [Workers -> ActRows \union {None}]
    /\ acts \in Nat /\ codes \in Nat
    /\ mail \in [Users -> Nat \union {None}]
    /\ overlap \in BOOLEAN

AccountsInit ==
    /\ user = [u \in Users |-> None]
    /\ known = {} /\ left = {}
    /\ newcomer = [u \in Users |-> 0]
    /\ org = [o \in Orgs |-> None]
    /\ member = [o \in Orgs |-> [u \in Users |-> None]]
    /\ project = [p \in Projects |-> None]
    /\ owners = [p \in Projects |-> [u \in Users |-> 0]]
    /\ janitor = None
    /\ act = [w \in Workers |-> None]
    /\ acts = Acts /\ codes = 0
    /\ mail = [u \in Users |-> None]
    /\ overlap \in BOOLEAN

Quiet == janitor = None /\ \A w \in Workers : act[w] = None

Act ==
    /\ acts > 0
    /\ acts' = acts - 1
    /\ overlap \/ Quiet

-----------------------------------------------------------------------------
\* Confirmation codes. Changed columns are compared with the object as loaded.

CodeMadeOnce(row) ==
    IF row.code = None THEN [code |-> codes + 1, made |-> "fresh"] ELSE [code |-> row.code]

\* A code that is there is sent again and its age starts again.
CodeMade(row) ==
    IF row.code = None THEN [code |-> codes + 1, made |-> "fresh"] ELSE [made |-> "fresh"]

CodeCleared(row) ==
    [f \in {g \in {"code", "made"} : row[g] # None} |-> None]

CodeAccepted(row, code) ==
    /\ row.code # None
    /\ row.made = "fresh"
    /\ row.code = code

Register(u, auto) ==
    /\ Act
    /\ u \notin known /\ codes < MaxCode
    /\ user' = [user EXCEPT ![u] =
                   [verified |-> FALSE, code |-> codes + 1, made |-> "fresh",
                    secret |-> "first", auto |-> auto]]
    /\ known' = known \union {u}
    /\ codes' = codes + 1
    /\ mail' = [mail EXCEPT ![u] = codes + 1]
    /\ UNCHANGED <<newcomer, orgVars, janitor, act, overlap>>

Expire(u) ==
    /\ user[u] # None /\ user[u].made = "fresh"
    /\ user' = [user EXCEPT ![u].made = "old"]
    /\ mail' = [mail EXCEPT ![u] = None]
    /\ UNCHANGED <<known, newcomer, orgVars, janitor, act, acts, codes, overlap>>

-----------------------------------------------------------------------------
\* The first half of a request: objects are loaded and checked.

BeginAct(w, a) ==
    /\ Act
    /\ act[w] = None
    /\ act' = [act EXCEPT ![w] = a]
    /\ UNCHANGED <<user, known, newcomer, orgVars, janitor, codes, mail, overlap>>

Loaded(op, u, mailed) == [op |-> op, user |-> u, row |-> user[u], mailed |-> mailed]

\* Resending the confirmation, or sending a code to reset the password.
BeginSend(w, u) ==
    /\ user[u] # None
    /\ codes < MaxCode
    /\ BeginAct(w, Loaded("send", u, FALSE))

\* Confirming the address, or resetting the password, with a code that was mailed.
BeginByCode(w, op, u, code) ==
    /\ user[u] # None
    /\ CodeAccepted(user[u], code)
    /\ BeginAct(w, Loaded(op, u, TRUE))

\* The same by an administrator, without a code.
BeginForced(w, op, u) ==
    /\ user[u] # None
    /\ BeginAct(w, Loaded(op, u, FALSE))

BeginDeleteUser(w, u) ==
    /\ user[u] # None
    /\ BeginAct(w, [op |-> "deleteUser", user |-> u,
                    owned |-> [p \in Projects |-> owners[p][u]],
                    newcomer |-> newcomer[u]])

\* get_one_or_none raises when it finds two bindings; the caller must be an owner.
BeginAddUser(w, caller, u, p) ==
    /\ project[p] # None /\ user[u] # None
    /\ owners[p][caller] = 1
    /\ owners[p][u] <= 1
    /\ BeginAct(w, [op |-> "addUser", user |-> u, project |-> p,
                    insert |-> owners[p][u] = 0])

BeginDeleteProject(w, caller, p) ==
    /\ project[p] # None
    /\ owners[p][caller] > 0
    /\ BeginAct(w, [op |-> "deleteProject", project |-> p, owned |-> owners[p]])

-----------------------------------------------------------------------------
\* The second half: what was decided is written.

End(w) == act' = [act EXCEPT ![w] = None]

\* A row that is gone fails the request.
Fails(w) ==
    /\ act[w] # None /\ act[w].op \in {"send", "confirm", "reset"}
    /\ user[act[w].user] = None
    /\ End(w)
    /\ UNCHANGED <<user, known, newcomer, orgVars, janitor, acts, codes, mail, overlap>>

FinishSend(w) ==
    LET u == act[w].user
        change == CodeMade(act[w].row)
    IN  /\ act[w] # None /\ act[w].op = "send"
        /\ user[u] # None
        /\ codes < MaxCode
        /\ user' = [user EXCEPT ![u] = Saved(@, change)]
        /\ codes' = IF act[w].row.code = None THEN codes + 1 ELSE codes
        /\ mail' = [mail EXCEPT ![u] =
                       IF act[w].row.code = None THEN codes + 1 ELSE act[w].row.code]
        /\ End(w)
        /\ UNCHANGED <<known, newcomer, orgVars, janitor, acts, overlap>>

\* Organization.get_default: an organization that the user owns.
HasDefault(u) == \E o \in Orgs : member[o][u] = "OWNER"

\* Project.add_owner inserts a binding of the owner role.
OwnerAdded(p, u) == [owners EXCEPT ![p][u] = @ + 1]

NeedsWorkspaceUnlocked(u, row) == row.auto /\ ~ row.verified

\* The user row is locked before the default organization is looked up, so that the
\* lookup sees what concurrent confirmations have provisioned.
NeedsWorkspace(u, row) == row.auto /\ ~ HasDefault(u)

ProvisionWorkspace(u) ==
    \E o \in Orgs, p \in Projects :
        /\ org[o] = None /\ project[p] = None
        /\ \A x \in Users : member[o][x] = None
        /\ org' = [org EXCEPT ![o] = [personal |-> u]]
        /\ member' = [member EXCEPT ![o][u] = "OWNER"]
        /\ project' = [project EXCEPT ![p] = o]
        /\ owners' = OwnerAdded(p, u)
        /\ UNCHANGED left

FinishEmail(w) ==
    LET u == act[w].user
        row == act[w].row
    IN  /\ act[w] # None /\ act[w].op = "confirm"
        /\ user[u] # None
        /\ user' = [user EXCEPT ![u] =
                       Saved([@ EXCEPT !.verified = TRUE], CodeCleared(row))]
        /\ newcomer' = [newcomer EXCEPT ![u] = @ + 1]
        /\ IF NeedsWorkspace(u, row) THEN ProvisionWorkspace(u) ELSE UNCHANGED orgVars
        /\ mail' = [mail EXCEPT ![u] = None]
        /\ End(w)
        /\ UNCHANGED <<known, janitor, acts, codes, overlap>>

FinishReset(w) ==
    LET u == act[w].user
    IN  /\ act[w] # None /\ act[w].op = "reset"
        /\ user[u] # None
        /\ user' = [user EXCEPT ![u] =
                       Saved([@ EXCEPT !.secret = "changed"], CodeCleared(act[w].row))]
        /\ mail' = [mail EXCEPT ![u] = None]
        /\ End(w)
        /\ UNCHANGED <<known, newcomer, orgVars, janitor, acts, codes, overlap>>

\* Bindings loaded before are removed, memberships go with the row. A binding made
\* meanwhile refers to the row, which then stays with everything else.
FinishDeleteUser(w) ==
    LET u == act[w].user
        refused == \/ newcomer[u] > act[w].newcomer
                   \/ \E p \in Projects : owners[p][u] > act[w].owned[p]
    IN  /\ act[w] # None /\ act[w].op = "deleteUser"
        /\ IF user[u] = None \/ refused
           THEN UNCHANGED <<user, newcomer, owners, member, mail>>
           ELSE /\ user' = [user EXCEPT ![u] = None]
                /\ newcomer' = [newcomer EXCEPT ![u] = 0]
                /\ owners' = [p \in Projects |-> [owners[p] EXCEPT ![u] = 0]]
                /\ member' = [o \in Orgs |-> [member[o] EXCEPT ![u] = None]]
                /\ mail' = [mail EXCEPT ![u] = None]
        /\ End(w)
        /\ UNCHANGED <<known, org, project, left, janitor, acts, codes, overlap>>

FinishAddUser(w) ==
    LET u == act[w].user
        p == act[w].project
    IN  /\ act[w] # None /\ act[w].op = "addUser"
        /\ owners' = IF act[w].insert /\ user[u] # None /\ project[p] # None
                     THEN [owners EXCEPT ![p][u] = @ + 1] ELSE owners
        /\ End(w)
        /\ UNCHANGED <<user, known, newcomer, org, member, project, left, janitor, acts,
                       codes, mail, overlap>>

FinishDeleteProject(w) ==
    LET p == act[w].project
        refused == \E u \in Users : owners[p][u] > act[w].owned[u]
    IN  /\ act[w] # None /\ act[w].op = "deleteProject"
        /\ IF refused THEN UNCHANGED <<project, owners>>
           ELSE /\ project' = [project EXCEPT ![p] = None]
                /\ owners' = [owners EXCEPT ![p] = [u \in Users |-> 0]]
        /\ End(w)
        /\ UNCHANGED <<user, known, newcomer, org, member, left, janitor, acts, codes, mail,
                       overlap>>

-----------------------------------------------------------------------------
\* Organizations and projects, one transaction each.

CreateOrganization(u, o) ==
    /\ Act
    /\ user[u] # None /\ org[o] = None
    /\ org' = [org EXCEPT ![o] = [personal |-> None]]
    /\ member' = [member EXCEPT ![o][u] = "OWNER"]
    /\ UNCHANGED <<user, known, newcomer, project, owners, left, janitor, act, codes, mail,
                   overlap>>

\* Organization.are_i_owner.
IsOwner(u, o) == member[o][u] = "OWNER"

\* By an owner. A user is a member of an organization once.
AddMember(owner, o, u, role) ==
    /\ Act
    /\ user[u] # None /\ org[o] # None
    /\ IsOwner(owner, o) /\ member[o][u] = None
    /\ member' = [member EXCEPT ![o][u] = role]
    /\ UNCHANGED <<user, known, newcomer, org, project, owners, left, janitor, act, codes,
                   mail, overlap>>

ChangeRole(owner, o, u, role) ==
    /\ Act
    /\ IsOwner(owner, o) /\ member[o][u] \notin {None, role}
    /\ member' = [member EXCEPT ![o][u] = role]
    /\ left' = left \union {u}
    /\ UNCHANGED <<user, known, newcomer, org, project, owners, janitor, act, codes, mail,
                   overlap>>

RemoveMember(owner, o, u) ==
    /\ Act
    /\ IsOwner(owner, o) /\ member[o][u] # None
    /\ member' = [member EXCEPT ![o][u] = None]
    /\ left' = left \union {u}
    /\ UNCHANGED <<user, known, newcomer, org, project, owners, janitor, act, codes, mail,
                   overlap>>

\* Projects keep their organization; memberships go with it.
DeleteOrganization(owner, o) ==
    /\ Act
    /\ org[o] # None /\ IsOwner(owner, o)
    /\ \A p \in Projects : project[p] # o
    /\ org' = [org EXCEPT ![o] = None]
    /\ left' = left \union {u \in Users : member[o][u] # None}
    /\ member' = [member EXCEPT ![o] = [u \in Users |-> None]]
    /\ UNCHANGED <<user, known, newcomer, project, owners, janitor, act, codes, mail, overlap>>

CreateProject(u, o, p) ==
    /\ Act
    /\ user[u] # None
    /\ org[o] # None /\ IsOwner(u, o)
    /\ project[p] = None
    /\ project' = [project EXCEPT ![p] = o]
    /\ owners' = OwnerAdded(p, u)
    /\ UNCHANGED <<user, known, newcomer, org, member, left, janitor, act, codes, mail,
                   overlap>>

-----------------------------------------------------------------------------
\* The janitor (janitor/service.py): one transaction loads users with expired codes, or
\* codes without a time, and clears them.

BadCodeOldOnly(row) == row.code # None /\ row.made = "old"

BadCode(row) == row.made = "old" \/ (row.code # None /\ row.made = None)

JanitorLoads ==
    /\ janitor = None
    /\ overlap \/ Quiet
    /\ LET bad == {u \in Users : user[u] # None /\ BadCode(user[u])}
       IN  bad # {} /\ janitor' = [u \in bad |-> user[u]]
    /\ UNCHANGED <<user, known, newcomer, orgVars, act, acts, codes, mail, overlap>>

\* A user deleted meanwhile raises, and the transaction is rolled back.
JanitorClears ==
    /\ janitor # None
    /\ user' = IF \A u \in DOMAIN janitor : user[u] # None
               THEN [u \in Users |-> IF u \in DOMAIN janitor
                                     THEN Saved(user[u], CodeCleared(janitor[u]))
                                     ELSE user[u]]
               ELSE user
    /\ janitor' = None
    /\ UNCHANGED <<known, newcomer, orgVars, act, acts, codes, mail, overlap>>

Account ==
    \/ \E u \in Users, auto \in BOOLEAN : Register(u, auto)
    \/ \E u \in Users : Expire(u)
    \/ \E w \in Workers, u \in Users :
          \/ BeginSend(w, u)
          \/ \E op \in {"confirm", "reset"} :
                \/ \E code \in 1..codes : BeginByCode(w, op, u, code)
                \/ BeginForced(w, op, u)
          \/ BeginDeleteUser(w, u)

Workspace ==
    \/ \E u \in Users, o \in Orgs : CreateOrganization(u, o) \/ DeleteOrganization(u, o)
    \/ \E a, u \in Users, o \in Orgs :
          RemoveMember(a, o, u)
             \/ \E r \in {"OWNER", "MEMBER"} : AddMember(a, o, u, r) \/ ChangeRole(a, o, u, r)
    \/ \E u \in Users, o \in Orgs, p \in Projects : CreateProject(u, o, p)
    \/ \E w \in Workers, a \in Users, p \in Projects :
          BeginDeleteProject(w, a, p) \/ \E u \in Users : BeginAddUser(w, a, u, p)

Commit(w) ==
    \/ Fails(w) \/ FinishSend(w) \/ FinishEmail(w) \/ FinishReset(w)
    \/ FinishDeleteUser(w) \/ FinishAddUser(w) \/ FinishDeleteProject(w)

AccountsNext ==
    \/ Account
    \/ Workspace
    \/ \E w \in Workers : Commit(w)
    \/ JanitorLoads \/ JanitorClears

AccountsFairness ==
    /\ WF_accountsVars(JanitorLoads) /\ WF_accountsVars(JanitorClears)
    /\ \A w \in Workers : WF_accountsVars(Commit(w))

AccountsSpec == AccountsInit /\ [][AccountsNext]_accountsVars /\ AccountsFairness

-----------------------------------------------------------------------------
\* However many confirmations of an address race, one personal workspace is provisioned
\* (UserController._maybe_provision_workspace locks the user row).
OneWorkspace ==
    \A u \in Users \ left :
        Cardinality({o \in Orgs : org[o] # None /\ org[o].personal = u}) <= 1

\* Where requests do not overlap, the code of the last mail is accepted until it is
\* used, cleared or an hour old (User.create_confirmation_code, the janitor).
EmailedCodeWorks ==
    ~ overlap => \A u \in Users : mail[u] # None /\ user[u] # None =>
                                      CodeAccepted(user[u], mail[u])

\* A code an hour old, or one without a time, does not stay in the row: the janitor gets
\* rid of what is left there, also by racing requests.
CodesCleared ==
    \A u \in Users :
        LET stray == \/ user[u].made = "old"
                     \/ user[u].code # None /\ user[u].made = None
        IN  (user[u] # None /\ stray) ~> (user[u] = None \/ ~ stray)
=============================================================================
