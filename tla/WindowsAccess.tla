--------------------------- MODULE WindowsAccess ---------------------------
(***************************************************************************)
(* Who may touch a private directory on Windows: the policies of           *)
(* src/src/fs_safety/windows.rs (state) and src/src/log/windows_rotating.rs *)
(* (logs), the directories and files that programs make under them and     *)
(* verify before every use.  A path is a chain of directories that ends in *)
(* a file; other processes, one of them another service of the same        *)
(* account, make and change what the access control lists let them.        *)
(***************************************************************************)
EXTENDS Naturals, FiniteSets

CONSTANTS
  Token,     \* of each process: its user, its groups, its enabled service
             \* identities, and the owner of what it makes
  Programs,  \* the processes that run this code
  Service,   \* the identity of the product's service
  Account,   \* the built-in account it runs as, LocalService
  Depth,     \* the level of the file; level 1 is a directory everybody may write
  MaxDeeds,  \* bound: what the other processes do
  Nothing

Processes == DOMAIN Token
Levels == 1..Depth
Directory(l) == l < Depth

System == "system"
Administrators == "administrators"
Everybody == "users"
OwnerRights == "owner rights"
Sids(a) == {Token[a].user, Everybody} \cup Token[a].groups \cup Token[a].services

\* The user and the default owner of a token (current_sid, creation_owner_sid).
UserSid(a) == Token[a].user
OwnerSid(a) == Token[a].owner

Privileged == {System, Administrators}
Own(a) == {UserSid(a)} \cup Token[a].services
Identities == Privileged \cup {Service, Account, Everybody} \cup UNION {Sids(a) : a \in Processes}

\* Lists, policies and what there is at a level, as far as their form goes.
AccessLists == UNION {[sids -> {"full", "modify", "add", "control"}] : sids \in SUBSET (Identities \cup {OwnerRights})}
Rules == [service : Identities \cup {Nothing}, principals : SUBSET Identities, owner : Identities \cup {Nothing}]
Securables ==
  [owner : Identities, protected : BOOLEAN, inherit : BOOLEAN, list : AccessLists,
   rewriters : SUBSET Processes, policy : Rules \cup {Nothing}]

\* What a process makes belongs to one of its identities.  Programs run as the
\* built-in account or as administrators; only what runs as that account has a
\* service identity of the product.  The others are neither administrators nor the
\* service: these may do with its directories what they want.  Who else has an
\* identity of a program's own runs as the built-in account, like its services.
ASSUME WindowsAccessAssumption ==
  /\ Programs \subseteq Processes /\ Depth \in Nat \ {0}
  /\ OwnerRights \notin Identities /\ Nothing \notin Identities \cup Rules \cup Securables
  /\ Everybody \notin Privileged \cup {Service, Account} \cup UNION {Own(p) : p \in Programs}
  /\ \A a \in Processes :
       /\ OwnerSid(a) \in Sids(a)
       /\ Sids(a) \cap {Service, Account} # {} => UserSid(a) = Account
  /\ \A p \in Programs : IF UserSid(p) = Account THEN OwnerSid(p) = Account ELSE OwnerSid(p) \in Privileged
  /\ \A a \in Processes \ Programs :
       /\ Sids(a) \cap (Privileged \cup {Service}) = {}
       /\ \A p \in Programs : Sids(a) \cap Own(p) # {} => {UserSid(a), UserSid(p)} = {Account}

VARIABLES
  object,  \* what is at each level: owner, list, where the list comes from, who
           \* can still change it through a handle, and the policy it was made under
  call,    \* what each program is doing and holds
  use,     \* whose directories these are: of a service, an account, or a process
  deeds

accessVars == <<object, call, use, deeds>>

-----------------------------------------------------------------------------
\* The policies.

\* Owners that are accepted, the service they are for, and the owner of logs.
Policy(service, principals, owner) ==
  [service |-> service, principals |-> principals, owner |-> owner]

ForService == Policy(Service, Privileged \cup {Service, Account}, Nothing)
ForServiceAccount == Policy(Nothing, Privileged \cup {Account}, Nothing)
CurrentProcess(p) == Policy(Nothing, Privileged \cup {UserSid(p)} \cup Token[p].services, Nothing)
ForCurrentUser(p) == Policy(Nothing, Privileged \cup {UserSid(p)}, Nothing)
LogForService == Policy(Service, {Account}, Account)
LogCurrentProcess(p) == Policy(Nothing, {UserSid(p)}, UserSid(p))

\* The product's directories belong to its service, to the built-in account, or to
\* whoever runs the program; it does not mix the policies of these in one path.
StatePolicies(p) ==
  CASE use = "service" -> {ForService}
    [] use = "account" -> {ForServiceAccount}
    [] use = "process" -> {CurrentProcess(p), ForCurrentUser(p)}
LogPolicies(p) == {IF use = "service" THEN LogForService ELSE LogCurrentProcess(p)}
OfLog(policy) == policy.owner # Nothing
OfService(policy) == policy.service # Nothing

\* Faulty variant: whoever may own a descendant may own the anchor.
AcceptsEveryOwner(policy, owner) == owner \in Privileged \cup {policy.service} \cup policy.principals

AcceptsAnchorOwner(policy, owner) == owner \in Privileged \cup {policy.service}

\* A list is a function from identities to rights.  "full" includes changing the
\* list, "modify" does not, "control" only reads it.
Grant(sids, rights) == [s \in sids |-> rights]
Combine(f, g) == [s \in DOMAIN f \cup DOMAIN g |-> IF s \in DOMAIN f THEN f[s] ELSE g[s]]

ServiceList(policy) ==
  Combine(Grant(Privileged, "full"), Combine(Grant({policy.service}, "modify"), Grant({OwnerRights}, "control")))

\* WindowsLogAccess::trustees.
Trustees(policy) ==
  IF OfService(policy) THEN ServiceList(policy) ELSE Grant(Privileged \cup {policy.owner}, "full")

\* Faulty variant: the owner's implicit rights are not taken away.
WithoutOwnerRights(policy) ==
  IF OfService(policy) THEN Combine(Grant(Privileged, "full"), Grant({policy.service}, "modify"))
  ELSE Grant(policy.principals \cup Privileged, "full")

\* What a new protected object is given (descriptor, of both modules).
Descriptor(policy) ==
  IF OfService(policy) THEN ServiceList(policy) ELSE Grant(policy.principals \cup Privileged, "full")

\* Whom a policy trusts with what it protects.
Grantees(policy) == DOMAIN Descriptor(policy) \ {OwnerRights}
Trusts(policy, a) == Sids(a) \cap Grantees(policy) # {}

-----------------------------------------------------------------------------
\* Verification of what is there.

Within(policy, list) ==
  /\ DOMAIN list # {}
  /\ \A s \in DOMAIN list : s \in policy.principals \/ (s = OwnerRights /\ list[s] = "control")

\* verify_acl: a service's list is the declared one, any other is protected and
\* names no stranger.
StateAccepted(policy, l) ==
  /\ object[l].owner \in policy.principals
  /\ IF OfService(policy) THEN object[l].list = ServiceList(policy) /\ object[l].inherit = Directory(l)
     ELSE object[l].protected /\ Within(policy, object[l].list)

\* inspect_acl: the list of a log is always the declared one.
LogAccepted(policy, l) ==
  /\ \/ object[l].owner = policy.owner
     \/ Directory(l) /\ OfService(policy) /\ AcceptsAnchorOwner(policy, object[l].owner)
  /\ OfService(policy) \/ object[l].protected
  /\ object[l].list = Trustees(policy) /\ object[l].inherit = Directory(l)

Accepted(policy, l) ==
  /\ object[l] # Nothing
  /\ IF OfLog(policy) THEN LogAccepted(policy, l) ELSE StateAccepted(policy, l)

Anchors(policy, l) == object[l].protected /\ AcceptsAnchorOwner(policy, object[l].owner)

\* The directories that authenticate level l, no other segment skipped
\* (service_anchor, find_anchor); elsewhere the directory stands for itself.
AnchorsOf(policy, l) ==
  IF OfService(policy)
  THEN {k \in 1..l : (\A j \in k..l : Accepted(policy, j)) /\ Anchors(policy, k)}
  ELSE {k \in {l} : Accepted(policy, l)}

Nearest(anchors) == {k \in anchors : \A j \in anchors : j <= k}

\* The chain that handles pin is still what it was (verify_directory, verify_chain).
ChainVerified(policy, anchor, l) ==
  /\ \A k \in anchor..l : Accepted(policy, k)
  /\ OfService(policy) => Anchors(policy, anchor)

\* A directory of logs also belongs to their owner (verify_namespace).
Usable(policy, anchor, l) ==
  /\ ChainVerified(policy, anchor, l)
  /\ OfLog(policy) => object[l].owner = policy.owner

-----------------------------------------------------------------------------
\* The operating system: rights, creation and inheritance.

\* The rights of a process: its entries, and what an owner has without any.
Allowed(a, l) ==
  LET list == object[l].list IN
    {list[s] : s \in Sids(a) \cap DOMAIN list} \cup
    (IF object[l].owner \notin Sids(a) THEN {}
     ELSE IF OwnerRights \in DOMAIN list THEN {list[OwnerRights]} ELSE {"rewrite"})

MayRead(a, l) == object[l] # Nothing /\ Allowed(a, l) # {}
MayWrite(a, l) == object[l] # Nothing /\ Allowed(a, l) \cap {"full", "modify"} # {}
MayAdd(a, l) == object[l] # Nothing /\ Allowed(a, l) \cap {"full", "modify", "add"} # {}
MayRewrite(a, l) == Allowed(a, l) \cap {"full", "rewrite"} # {} \/ a \in object[l].rewriters

\* No descriptor at all: the inheritable part of the parent's list.
Inheriting(a, l, policy) ==
  [owner |-> OwnerSid(a), protected |-> FALSE, inherit |-> Directory(l) /\ object[l - 1].inherit,
   list |-> IF object[l - 1].inherit THEN object[l - 1].list
            ELSE Grant({System, OwnerSid(a)}, "full"),
   rewriters |-> {}, policy |-> policy]

Protecting(owner, l, list, rewriters, policy) ==
  [owner |-> owner, protected |-> TRUE, inherit |-> Directory(l), list |-> list,
   rewriters |-> rewriters, policy |-> policy]

\* A process may reach an object whose directories it may list, and opens for
\* reading and writing.
Reaches(a, l) == \A k \in 1..(l - 1) : MayRead(a, k)
Opens(a, l) == Reaches(a, l) /\ MayWrite(a, l)

-----------------------------------------------------------------------------
\* Calls.  A program holds the directories down to a level, or a file in them.

Idle == [at |-> "idle", policy |-> Nothing, anchor |-> 0, level |-> 0]
Calls(p, at, policy, anchor, level) ==
  call' = [call EXCEPT ![p] = [at |-> at, policy |-> policy, anchor |-> anchor, level |-> level]]
Holds(p) == call[p].at = "held"

\* A directory like ProgramData: everybody may add to it, and hands that down.
Ambient == Protecting(System, 1, Combine(Grant(Privileged, "full"), Grant({Everybody}, "add")), {}, Nothing)

AccessInit ==
  /\ object = [l \in Levels |-> IF l = 1 THEN Ambient ELSE Nothing]
  /\ call = [p \in Programs |-> Idle]
  /\ use \in {"service", "account", "process"}
  /\ deeds = 0

\* open_directory.  What is there is held below its anchor, or refused.  What is
\* missing is made by the next step, a root for a service only where its owner will
\* be one of those who may anchor.
OpenRoot(p, policy, l) ==
  /\ call[p].at = "idle" /\ policy \in StatePolicies(p)
  /\ CASE object[l] # Nothing /\ Opens(p, l) /\ AnchorsOf(policy, l) # {} ->
            \E anchor \in Nearest(AnchorsOf(policy, l)) : Calls(p, "held", policy, anchor, l)
       [] /\ object[l] = Nothing /\ Reaches(p, l)
          /\ OfService(policy) => AcceptsAnchorOwner(policy, OwnerSid(p)) ->
            Calls(p, "root", policy, l, l)
       [] OTHER -> UNCHANGED call
  /\ UNCHANGED <<object, use, deeds>>

\* create_private_with_access: logs are only made by their owner, for a service
\* below a parent that is already authenticated.
OpenLog(p, policy, l) ==
  /\ call[p].at = "idle" /\ policy \in LogPolicies(p) /\ l + 1 = Depth
  /\ UserSid(p) = policy.owner
  /\ Reaches(p, l)
  /\ \/ ~OfService(policy) /\ Calls(p, "root", policy, l, l)
     \/ /\ OfService(policy)
        /\ \E anchor \in Nearest(AnchorsOf(policy, l - 1)) : Calls(p, "make", policy, anchor, l)
  /\ UNCHANGED <<object, use, deeds>>

\* create_private_child, or the file (create_file, open_private) below what is held;
\* without a service a child directory is a root of its own.
Below(p) ==
  /\ call[p].at = "held" /\ call[p].level < Depth
  /\ LET c == call[p] IN LET l == c.level + 1 IN
       /\ Usable(c.policy, c.anchor, c.level)
       /\ IF Directory(l) /\ ~OfService(c.policy) THEN Calls(p, "root", c.policy, l, l)
          ELSE Calls(p, "make", c.policy, c.anchor, l)
  /\ UNCHANGED <<object, use, deeds>>

\* A descriptor for logs names their owner; otherwise it is the token's.
OwnerOfNew(p, policy) == IF OfLog(policy) THEN policy.owner ELSE OwnerSid(p)

\* A service's descendants inherit, everything else is given its own list.
New(p) ==
  LET c == call[p] IN
    IF c.at = "make" /\ OfService(c.policy) THEN Inheriting(p, c.level, c.policy)
    ELSE Protecting(OwnerOfNew(p, c.policy), c.level, Descriptor(c.policy), {}, c.policy)

\* CreateDirectoryW or CreateFileW: a name that is taken by now is left as it is.
Make(p) ==
  /\ call[p].at \in {"root", "make"}
  /\ LET l == call[p].level IN
       \/ object[l] # Nothing /\ UNCHANGED object
       \/ object[l] = Nothing /\ MayAdd(p, l - 1) /\ object' = [object EXCEPT ![l] = New(p)]
  /\ call' = [call EXCEPT ![p].at = "check"]
  /\ UNCHANGED <<use, deeds>>

\* What the name leads to now is verified before it is used.
Check(p) ==
  /\ call[p].at = "check"
  /\ LET c == call[p] IN
       IF Opens(p, c.level) /\ Usable(c.policy, c.anchor, c.level)
       THEN Calls(p, "held", c.policy, c.anchor, c.level)
       ELSE call' = [call EXCEPT ![p] = Idle]
  /\ UNCHANGED <<object, use, deeds>>

\* A call fails, or handles are closed.
Leave(p) ==
  /\ call[p].at # "idle"
  /\ call' = [call EXCEPT ![p] = Idle]
  /\ UNCHANGED <<object, use, deeds>>

-----------------------------------------------------------------------------
\* The other processes, with what their rights let them do.

\* Open handles pin names: they do not share deletion.
Pins(p) == IF call[p].at = "idle" THEN 0 ELSE IF Holds(p) THEN call[p].level ELSE call[p].level - 1

\* Lists that another process gives an object: one of its own, or one that a
\* policy expects to find.
Lists(a) == {Grant({UserSid(a)}, "full"), ServiceList(ForService),
             Grant(Privileged \cup {Account}, "full")}

Deed == deeds < MaxDeeds /\ deeds' = deeds + 1 /\ UNCHANGED <<call, use>>

Place(a, l) ==
  /\ Deed /\ object[l] = Nothing /\ MayAdd(a, l - 1)
  /\ \/ object' = [object EXCEPT ![l] = [Inheriting(a, l, Nothing) EXCEPT !.rewriters = {a}]]
     \/ \E list \in Lists(a) :
          object' = [object EXCEPT ![l] = Protecting(OwnerSid(a), l, list, {a}, Nothing)]

Rewrite(a, l) ==
  /\ Deed /\ object[l] # Nothing /\ MayRewrite(a, l)
  /\ \E list \in Lists(a), protected \in BOOLEAN :
       object' = [object EXCEPT ![l].list = list, ![l].protected = protected, ![l].inherit = Directory(l),
                                ![l].policy = IF @ # Nothing /\ Trusts(@, a) THEN Nothing ELSE @]

Remove(a, l) ==
  /\ Deed /\ object[l] # Nothing /\ (\A k \in Levels : k > l => object[k] = Nothing) /\ (\A p \in Programs : Pins(p) < l)
  /\ MayWrite(a, l) \/ (l > 1 /\ "full" \in Allowed(a, l - 1))
  /\ object' = [object EXCEPT ![l] = Nothing]

Deeds(a) == \E l \in Levels \ {1} : Place(a, l) \/ Rewrite(a, l) \/ Remove(a, l)

AccessNext ==
  \/ \E p \in Programs :
       \/ \E l \in Levels \ {1} : Directory(l) /\
            \/ \E policy \in StatePolicies(p) : OpenRoot(p, policy, l)
            \/ \E policy \in LogPolicies(p) : OpenLog(p, policy, l)
       \/ Below(p) \/ Make(p) \/ Check(p) \/ Leave(p)
  \/ \E a \in Processes \ Programs : Deeds(a)

AccessSpec == AccessInit /\ [][AccessNext]_accessVars

-----------------------------------------------------------------------------
\* Properties.

\* While a program holds what it has verified, no process that the policy does not
\* name can write it or change its list, neither through a right nor through a
\* handle it has kept from before; for a service that includes the other services
\* of its account and everything from the anchor down.
HeldStaysPrivate ==
  \A p \in Programs : Holds(p) =>
    LET c == call[p] IN \A k \in c.anchor..c.level : \A a \in Processes :
      Trusts(c.policy, a) \/ ~(MayWrite(a, k) \/ MayRewrite(a, k))

\* What a program makes passes its own verification from the first moment on, also
\* when it inherits the list and whoever interferes: a call never leaves something
\* behind that all later calls refuse.  Whom the policy trusts may spoil it.
OwnWorkIsAccepted ==
  \A l \in Levels : object[l] # Nothing /\ object[l].policy # Nothing => Accepted(object[l].policy, l)

\* The two implementations of the service policy agree: a directory authenticated
\* for state is authenticated, by the same anchor, for logs, and the other way round.
PoliciesAgree ==
  \A l \in Levels : Directory(l) => AnchorsOf(ForService, l) = AnchorsOf(LogForService, l)

\* A policy fits what is made under it and what the other one makes.
PoliciesFit == OwnWorkIsAccepted /\ PoliciesAgree
=============================================================================
