-------------------------- MODULE FsSafety_proofs --------------------------
(***************************************************************************)
(* Proofs about FilePublication, for any processes, files, transactions    *)
(* and mishaps, and about WindowsAccess, for any processes, depth and      *)
(* deeds.                                                                  *)
(***************************************************************************)
EXTENDS FilePublication, WindowsAccess, FiniteSetTheorems, TLAPS

-----------------------------------------------------------------------------
\* The invariant of the handles.

Others == Processes \ Programs
There(l) == object[l] # Nothing
Policies(p) == StatePolicies(p) \cup LogPolicies(p)

ServicePolicies == {ForService, LogForService}
OwnPolicies(p) == {ForServiceAccount, CurrentProcess(p), ForCurrentUser(p), LogCurrentProcess(p)}
Declared == ServiceList(ForService)
Strange(a) == Sids(a) \cap (Privileged \cup {Service}) = {}

-----------------------------------------------------------------------------
\* Lemmas about the operators.

LEMMA PoliciesByUse ==
  ASSUME NEW p \in Programs, NEW policy \in Policies(p), use \in {"service", "account", "process"}
  PROVE  policy \in IF use = "service" THEN ServicePolicies ELSE OwnPolicies(p)
BY DEF Policies, StatePolicies, LogPolicies, ServicePolicies, OwnPolicies

\* The declared list of a service's directories.
LEMMA DeclaredList ==
  /\ DOMAIN Declared = Privileged \cup {Service, OwnerRights}
  /\ Declared[OwnerRights] = "control"
  /\ Declared \in AccessLists
<1>1. OwnerRights \notin Privileged \cup {Service}
  BY WindowsAccessAssumption DEF Identities
<1> DEFINE sids == Privileged \cup {Service, OwnerRights}
<1>2. Declared = [s \in sids |-> IF s \in Privileged THEN "full" ELSE IF s = Service THEN "modify" ELSE "control"]
  BY DEF Declared, ServiceList, ForService, Policy, Combine, Grant
<1>3. sids \in SUBSET (Identities \cup {OwnerRights})
  BY DEF Identities
<1>4. Declared \in [sids -> {"full", "modify", "add", "control"}]
  BY <1>2
<1> HIDE DEF sids
<1>5. Declared \in AccessLists
  BY <1>3, <1>4 DEF AccessLists
<1> QED BY <1>1, <1>2, <1>5 DEF sids

LEMMA ServicePolicyFacts ==
  ASSUME NEW policy \in ServicePolicies
  PROVE  /\ OfService(policy) /\ policy.service = Service
         /\ ServiceList(policy) = Declared /\ Trustees(policy) = Declared /\ Descriptor(policy) = Declared
         /\ Grantees(policy) = Privileged \cup {Service}
         /\ OfLog(policy) <=> policy = LogForService
         /\ policy \in Rules
<1>1. Service # Nothing /\ Account # Nothing /\ Nothing \notin Privileged
  BY WindowsAccessAssumption DEF Identities
<1>2. OfService(policy) /\ policy.service = Service
  BY <1>1 DEF ServicePolicies, ForService, LogForService, Policy, OfService
<1>3. ServiceList(policy) = Declared
  BY <1>2 DEF ServiceList, Declared, ForService, Policy
<1>4. Trustees(policy) = Declared /\ Descriptor(policy) = Declared
  BY <1>2, <1>3 DEF Trustees, Descriptor
<1>5. OwnerRights \notin Privileged \cup {Service}
  BY WindowsAccessAssumption DEF Identities
<1>6. Grantees(policy) = Privileged \cup {Service}
  BY <1>4, <1>5, DeclaredList DEF Grantees
<1>7. OfLog(policy) <=> policy = LogForService
  BY <1>1 DEF OfLog, ServicePolicies, ForService, LogForService, Policy
<1>8. policy \in Rules
  BY DEF ServicePolicies, ForService, LogForService, Policy, Rules, Identities
<1> QED BY <1>2, <1>3, <1>4, <1>6, <1>7, <1>8

LEMMA GrantFacts ==
  ASSUME NEW sids \in SUBSET (Identities \cup {OwnerRights}), NEW rights \in {"full", "modify", "add", "control"}
  PROVE  /\ DOMAIN Grant(sids, rights) = sids
         /\ \A s \in sids : Grant(sids, rights)[s] = rights
         /\ Grant(sids, rights) \in AccessLists
<1>1. Grant(sids, rights) \in [sids -> {"full", "modify", "add", "control"}]
  BY DEF Grant
<1> QED BY <1>1 DEF Grant, AccessLists

LEMMA OwnPolicyFacts ==
  ASSUME NEW p \in Programs, NEW policy \in OwnPolicies(p)
  PROVE  /\ ~OfService(policy)
         /\ Grantees(policy) = Privileged \cup policy.principals
         /\ Descriptor(policy) = Grant(Privileged \cup policy.principals, "full")
         /\ policy.principals \subseteq Privileged \cup Own(p) \cup {Account}
         /\ Account \in policy.principals \/ policy.principals \subseteq Privileged \cup Own(p)
         /\ UserSid(p) = Account => Account \in policy.principals
         /\ IF OfLog(policy) THEN policy = LogCurrentProcess(p) ELSE Privileged \subseteq policy.principals
         /\ OwnerRights \notin Grantees(policy)
         /\ policy \in Rules
<1>0. p \in Processes
  BY WindowsAccessAssumption
<1>1. UserSid(p) # Nothing /\ Account # Nothing /\ Own(p) \subseteq Identities
  BY <1>0, WindowsAccessAssumption DEF Identities, Sids, UserSid, Own
<1>2. policy.service = Nothing /\ ~OfService(policy)
  BY DEF OwnPolicies, ForServiceAccount, CurrentProcess, ForCurrentUser, LogCurrentProcess, Policy, OfService
<1>3. Descriptor(policy) = Grant(Privileged \cup policy.principals, "full")
  <2>1. policy.principals \cup Privileged = Privileged \cup policy.principals
    OBVIOUS
  <2> QED BY <1>2, <2>1 DEF Descriptor
<1>4. /\ policy.principals \subseteq Privileged \cup Own(p) \cup {Account}
      /\ Account \in policy.principals \/ policy.principals \subseteq Privileged \cup Own(p)
      /\ UserSid(p) = Account => Account \in policy.principals
  BY DEF OwnPolicies, ForServiceAccount, CurrentProcess, ForCurrentUser, LogCurrentProcess, Policy, Own
<1>5. IF OfLog(policy) THEN policy = LogCurrentProcess(p) ELSE Privileged \subseteq policy.principals
  BY <1>1 DEF OfLog, OwnPolicies, ForServiceAccount, CurrentProcess, ForCurrentUser, LogCurrentProcess, Policy
<1>6. Privileged \cup policy.principals \subseteq Identities
  BY <1>1, <1>4 DEF Identities
<1>7. OwnerRights \notin Identities
  BY WindowsAccessAssumption
<1>8. DOMAIN Descriptor(policy) = Privileged \cup policy.principals
  BY <1>3 DEF Grant
<1>9. Grantees(policy) = Privileged \cup policy.principals /\ OwnerRights \notin Grantees(policy)
  BY <1>6, <1>7, <1>8 DEF Grantees
<1>10. policy \in Rules
  BY <1>1, <1>6 DEF Rules, OwnPolicies, ForServiceAccount, CurrentProcess, ForCurrentUser, LogCurrentProcess, Policy
<1> QED BY <1>2, <1>3, <1>4, <1>5, <1>9, <1>10

LEMMA TokenFacts ==
  ASSUME NEW a \in Processes
  PROVE  /\ Sids(a) \subseteq Identities /\ OwnerRights \notin Sids(a)
         /\ OwnerSid(a) \in Sids(a) /\ UserSid(a) \in Sids(a)
         /\ Sids(a) \cap {Service, Account} # {} => UserSid(a) = Account
BY WindowsAccessAssumption DEF Identities, Sids, UserSid

LEMMA OthersAreStrange ==
  ASSUME NEW a \in Others
  PROVE  a \in Processes /\ Strange(a)
BY WindowsAccessAssumption DEF Others, Strange

\* Whom a policy for programs trusts, beside them, runs as the built-in account.
LEMMA TrustedOthers ==
  ASSUME NEW p \in Programs, NEW policy \in OwnPolicies(p), NEW a \in Others, Trusts(policy, a)
  PROVE  UserSid(a) = Account /\ Account \in Grantees(policy)
<1>1. PICK s \in Sids(a) : s \in Privileged \cup policy.principals
  BY OwnPolicyFacts DEF Trusts
<1>2. s \notin Privileged
  BY OthersAreStrange DEF Strange
<1>3. CASE s \in Own(p)
  <2>1. UserSid(a) = Account /\ UserSid(p) = Account
    BY <1>3, WindowsAccessAssumption DEF Others
  <2> QED BY <2>1, OwnPolicyFacts
<1>4. CASE s = Account
  BY <1>1, <1>2, <1>4, OthersAreStrange, TokenFacts, OwnPolicyFacts
<1> QED BY <1>1, <1>2, <1>3, <1>4, OwnPolicyFacts

-----------------------------------------------------------------------------
\* What the lists let processes do.

\* Closed to everybody whom the policy does not trust, by its list and handles.
Closed(policy, l) ==
  /\ There(l) /\ object[l].owner \in Grantees(policy)
  /\ \A a \in Processes : Trusts(policy, a) \/ ~(MayWrite(a, l) \/ MayRewrite(a, l))

LEMMA StrangeAtDeclared ==
  ASSUME NEW a \in Processes, Strange(a), NEW l \in Levels, There(l), object[l].list = Declared
  PROVE  ~MayWrite(a, l) /\ ~MayAdd(a, l) /\ (MayRewrite(a, l) => a \in object[l].rewriters)
<1>1. Sids(a) \cap DOMAIN object[l].list = {}
  BY DeclaredList, TokenFacts DEF Strange
<1>2. Allowed(a, l) \subseteq {"control"}
  BY <1>1, DeclaredList DEF Allowed
<1> QED BY <1>2 DEF MayWrite, MayAdd, MayRewrite

LEMMA ServiceAccepts ==
  ASSUME NEW policy \in ServicePolicies, NEW l \in Levels, Accepted(policy, l)
  PROVE  There(l) /\ object[l].list = Declared /\ object[l].inherit = Directory(l)
BY ServicePolicyFacts DEF Accepted, StateAccepted, LogAccepted, There

LEMMA OwnAccepts ==
  ASSUME NEW p \in Programs, NEW policy \in OwnPolicies(p), NEW l \in Levels, Accepted(policy, l),
         \A a \in object[l].rewriters : a \in Processes /\ object[l].owner = OwnerSid(a)
  PROVE  Closed(policy, l)
<1>1. There(l)
  BY DEF Accepted, There
<1>2. CASE OfLog(policy)
  <2>1. object[l].owner = policy.owner /\ object[l].list = Trustees(policy)
    BY <1>2, OwnPolicyFacts DEF Accepted, LogAccepted
  <2>2. policy.principals = {policy.owner}
    <3>1. policy = LogCurrentProcess(p)
      BY <1>2, OwnPolicyFacts
    <3> QED BY <3>1 DEF LogCurrentProcess, Policy
  <2>3. Trustees(policy) = Grant(Privileged \cup policy.principals, "full")
    BY <2>2, OwnPolicyFacts DEF Trustees
  <2>4. object[l].owner \in Grantees(policy)
    BY <2>1, <2>2, OwnPolicyFacts
  <2>a. DOMAIN object[l].list = Grantees(policy)
    <3>1. Grantees(policy) = Privileged \cup policy.principals
      BY OwnPolicyFacts
    <3> QED BY <2>1, <2>3, <3>1 DEF Grant
  <2>5. ASSUME NEW a \in Processes, ~Trusts(policy, a)
        PROVE  ~(MayWrite(a, l) \/ MayRewrite(a, l))
    <3>1. Sids(a) \cap Grantees(policy) = {}
      BY <2>5 DEF Trusts
    <3>2. Allowed(a, l) = {}
      BY <2>4, <2>a, <3>1 DEF Allowed
    <3>3. a \notin object[l].rewriters
      BY <2>4, <3>1, TokenFacts
    <3> QED BY <3>2, <3>3 DEF MayWrite, MayRewrite
  <2> QED BY <1>1, <2>4, <2>5 DEF Closed
<1>3. CASE ~OfLog(policy)
  <2>1. object[l].owner \in policy.principals /\ Within(policy, object[l].list)
    BY <1>3, OwnPolicyFacts DEF Accepted, StateAccepted
  <2>2. object[l].owner \in Grantees(policy)
    BY <2>1, OwnPolicyFacts
  <2>3. ASSUME NEW a \in Processes, ~Trusts(policy, a)
        PROVE  ~(MayWrite(a, l) \/ MayRewrite(a, l))
    <3>1. Sids(a) \cap Grantees(policy) = {} /\ object[l].owner \notin Sids(a)
      BY <2>2, <2>3 DEF Trusts
    <3>2. Sids(a) \cap DOMAIN object[l].list = {}
      BY <2>1, <3>1, TokenFacts, OwnPolicyFacts DEF Within
    <3>3. Allowed(a, l) = {}
      BY <3>1, <3>2 DEF Allowed
    <3>4. a \notin object[l].rewriters
      BY <3>1, TokenFacts
    <3> QED BY <3>3, <3>4 DEF MayWrite, MayRewrite
  <2> QED BY <1>1, <2>2, <2>3 DEF Closed
<1> QED BY <1>2, <1>3

-----------------------------------------------------------------------------
\* The invariant.

Callings == [at : {"idle", "root", "make", "check", "held"}, policy : Rules \cup {Nothing}, anchor : Nat, level : Nat]

AccessTypes ==
  /\ object \in [Levels -> Securables \cup {Nothing}]
  /\ call \in [Programs -> Callings]
  /\ use \in {"service", "account", "process"}

\* Nothing is below what does not exist, the public directory stays, and handles
\* from before belong to whoever made an object.
Tree ==
  /\ \A k, l \in Levels : k < l /\ There(l) => There(k)
  /\ object[1] = Ambient
  /\ \A l \in Levels : There(l) =>
       \A a \in object[l].rewriters : a \in Others /\ object[l].owner = OwnerSid(a)

\* What a program made, and nobody trusted has spoilt, is accepted.
Made(l, policy) ==
  /\ object[l].rewriters = {} /\ Accepted(policy, l)
  /\ \E p \in Programs : policy \in Policies(p)

Works == \A l \in Levels, policy \in Rules : There(l) /\ object[l].policy = policy => Made(l, policy)

\* In a service's path whatever somebody else made belongs to him, and nothing of it
\* is below what a program made.
Foreign ==
  use = "service" =>
    /\ \A l \in Levels : l > 1 /\ There(l) /\ object[l].policy = Nothing =>
         \E a \in Others : object[l].owner = OwnerSid(a)
    /\ \A k, l \in Levels : k < l /\ There(k) /\ There(l) /\ object[k].policy # Nothing =>
         object[l].policy # Nothing

\* What a call relies on.
Relies(p, c) ==
  c.at # "idle" =>
    /\ c.policy \in Policies(p) /\ (OfLog(c.policy) => UserSid(p) = c.policy.owner)
    /\ c.level \in 2..Depth /\ c.anchor \in 1..c.level
    /\ c.at = "root" => ~(OfLog(c.policy) /\ OfService(c.policy)) /\ Directory(c.level)
    /\ c.at = "make" /\ OfService(c.policy) =>
         c.anchor < c.level /\ ChainVerified(c.policy, c.anchor, c.level - 1)
    /\ c.at = "held" =>
         IF OfService(c.policy) THEN ChainVerified(c.policy, c.anchor, c.level)
         ELSE \A k \in c.anchor..c.level : Closed(c.policy, k)

Reliable == \A p \in Programs : Relies(p, call[p])

AccessInv == AccessTypes /\ Tree /\ Works /\ Foreign /\ Reliable

-----------------------------------------------------------------------------
LEMMA AmbientFacts ==
  /\ Ambient \in Securables /\ Ambient.owner = System /\ Ambient.policy = Nothing /\ Ambient.rewriters = {}
  /\ Ambient.list # Declared
<1> DEFINE sids == Privileged \cup {Everybody}
           list == Combine(Grant(Privileged, "full"), Grant({Everybody}, "add"))
<1>1. list = [s \in sids |-> IF s \in Privileged THEN "full" ELSE "add"]
  BY DEF Combine, Grant
<1>2. sids \in SUBSET (Identities \cup {OwnerRights})
  BY DEF Identities
<1>3. list \in [sids -> {"full", "modify", "add", "control"}] /\ DOMAIN list = sids
  BY <1>1
<1>4. Everybody \notin Privileged \cup {Service, OwnerRights}
  BY WindowsAccessAssumption DEF Identities
<1>5. list # Declared
  BY <1>3, <1>4, DeclaredList
<1>6. Ambient = [owner |-> System, protected |-> TRUE, inherit |-> Directory(1), list |-> list, rewriters |-> {}, policy |-> Nothing]
  BY DEF Ambient, Protecting
<1> HIDE DEF sids, list
<1>7. list \in AccessLists
  BY <1>2, <1>3 DEF AccessLists
<1>8. System \in Identities /\ Directory(1) \in BOOLEAN
  BY DEF Identities, Privileged, Directory
<1>9. Ambient \in Securables
  BY <1>6, <1>7, <1>8 DEF Securables
<1> QED BY <1>5, <1>6, <1>9

LEMMA AccessInitHolds == AccessInit => AccessInv
<1> SUFFICES ASSUME AccessInit PROVE AccessInv
  OBVIOUS
<1>0. Depth \in Nat \ {0} /\ 1 \in Levels /\ Nothing \notin Securables
  BY WindowsAccessAssumption DEF Levels
<1>1. object[1] = Ambient /\ \A l \in Levels : l # 1 => object[l] = Nothing
  BY <1>0 DEF AccessInit
<1>2. AccessTypes
  BY <1>0, AmbientFacts DEF AccessTypes, AccessInit, Idle, Callings
<1>3. Tree
  BY <1>0, <1>1, AmbientFacts DEF Tree, There, Levels
<1>4. Works
  BY <1>1, AmbientFacts, WindowsAccessAssumption DEF Works, There
<1>5. Foreign
  BY <1>1, AmbientFacts DEF Foreign, There, Levels
<1>6. Reliable
  BY DEF Reliable, Relies, AccessInit, Idle
<1> QED BY <1>2, <1>3, <1>4, <1>5, <1>6 DEF AccessInv

-----------------------------------------------------------------------------
\* What a program makes.

LEMMA ByUse ==
  ASSUME AccessInv, NEW p \in Programs, NEW policy \in Policies(p)
  PROVE  /\ use = "service" => policy \in ServicePolicies
         /\ use # "service" => policy \in OwnPolicies(p)
         /\ OfService(policy) <=> use = "service"
         /\ policy \in Rules
<1>1. policy \in IF use = "service" THEN ServicePolicies ELSE OwnPolicies(p)
  BY PoliciesByUse DEF AccessInv, AccessTypes
<1>2. CASE use = "service"
  BY <1>1, <1>2, ServicePolicyFacts
<1>3. CASE use # "service"
  BY <1>1, <1>3, OwnPolicyFacts
<1> QED BY <1>2, <1>3

LEMMA DescriptorTyped ==
  ASSUME AccessInv, NEW p \in Programs, NEW policy \in Policies(p)
  PROVE  Descriptor(policy) \in AccessLists
<1>1. CASE use = "service"
  BY <1>1, ByUse, ServicePolicyFacts, DeclaredList
<1>2. CASE use # "service"
  <2>1. policy \in OwnPolicies(p) /\ policy \in Rules
    BY <1>2, ByUse
  <2>2. Privileged \cup policy.principals \in SUBSET (Identities \cup {OwnerRights})
    BY <2>1 DEF Rules, Identities
  <2>3. Grant(Privileged \cup policy.principals, "full") \in AccessLists
    BY <2>2, GrantFacts
  <2> QED BY <2>1, <2>3, OwnPolicyFacts
<1> QED BY <1>1, <1>2

LEMMA ProgramOwns ==
  ASSUME NEW p \in Programs
  PROVE  /\ p \in Processes /\ OwnerSid(p) \in Privileged \cup {Account} /\ OwnerSid(p) \in Identities
         /\ UserSid(p) = Account => OwnerSid(p) = Account
         /\ UserSid(p) # Account => OwnerSid(p) \in Privileged
BY WindowsAccessAssumption DEF Identities

\* The object at a level after a program made it.
Fits(policy, l, o) ==
  /\ o \in Securables /\ o.policy = policy /\ o.rewriters = {}
  /\ IF OfService(policy)
     THEN /\ o.owner \in Privileged \cup {Account} /\ (OfLog(policy) => o.owner = Account)
          /\ o.list = Declared /\ o.inherit = Directory(l)
     ELSE /\ o.owner \in policy.principals /\ (OfLog(policy) => o.owner = policy.owner)
          /\ o.protected /\ o.list = Grant(Privileged \cup policy.principals, "full") /\ o.inherit = Directory(l)

LEMMA NewInheriting ==
  ASSUME AccessInv, NEW p \in Programs, NEW c, c = call[p], c.at = "make", OfService(c.policy)
  PROVE  Fits(c.policy, c.level, Inheriting(p, c.level, c.policy))
<1>1. /\ c.policy \in Policies(p) /\ (OfLog(c.policy) => UserSid(p) = c.policy.owner)
      /\ c.level \in 2..Depth /\ c.anchor \in 1..c.level
      /\ c.anchor < c.level /\ ChainVerified(c.policy, c.anchor, c.level - 1)
  BY DEF AccessInv, Reliable, Relies
<1>2. c.policy \in ServicePolicies /\ c.policy \in Rules
  BY <1>1, ByUse
<1>3. c.level \in Nat /\ Depth \in Nat /\ c.level - 1 \in c.anchor..(c.level - 1) /\ c.level - 1 \in Levels
      /\ Directory(c.level - 1)
  BY <1>1, WindowsAccessAssumption DEF Levels, Directory
<1>4. Accepted(c.policy, c.level - 1)
  BY <1>1, <1>3 DEF ChainVerified
<1>5. object[c.level - 1].list = Declared /\ object[c.level - 1].inherit = Directory(c.level - 1)
  BY <1>2, <1>3, <1>4, ServiceAccepts
<1> DEFINE above == object[c.level - 1]
<1>e. Inheriting(p, c.level, c.policy) =
        [owner |-> OwnerSid(p), protected |-> FALSE, inherit |-> Directory(c.level) /\ above.inherit,
         list |-> IF above.inherit THEN above.list ELSE Grant({System, OwnerSid(p)}, "full"),
         rewriters |-> {}, policy |-> c.policy]
  BY DEF Inheriting
<1>t. above.inherit = TRUE /\ above.list = Declared
  BY <1>3, <1>5 DEF Directory
<1> HIDE DEF above
<1>u. (Directory(c.level) /\ above.inherit) = Directory(c.level)
  BY <1>t DEF Directory
<1>6. Inheriting(p, c.level, c.policy) =
        [owner |-> OwnerSid(p), protected |-> FALSE, inherit |-> Directory(c.level), list |-> Declared,
         rewriters |-> {}, policy |-> c.policy]
  BY <1>e, <1>t, <1>u
<1>7. Directory(c.level) \in BOOLEAN
  BY DEF Directory
<1>8. Inheriting(p, c.level, c.policy) \in Securables
  BY <1>2, <1>6, <1>7, DeclaredList, ProgramOwns DEF Securables
<1>9. OfLog(c.policy) => OwnerSid(p) = Account
  <2>1. OfLog(c.policy) => c.policy.owner = Account
    BY <1>2, ServicePolicyFacts DEF LogForService, Policy
  <2> QED BY <1>1, <2>1, ProgramOwns
<1> QED BY <1>2, <1>6, <1>8, <1>9, ServicePolicyFacts, ProgramOwns DEF Fits

LEMMA NewProtecting ==
  ASSUME AccessInv, NEW p \in Programs, NEW c, c = call[p], c.at \in {"root", "make"},
         ~(c.at = "make" /\ OfService(c.policy))
  PROVE  Fits(c.policy, c.level, Protecting(OwnerOfNew(p, c.policy), c.level, Descriptor(c.policy), {}, c.policy))
<1> DEFINE new == Protecting(OwnerOfNew(p, c.policy), c.level, Descriptor(c.policy), {}, c.policy)
<1>1. /\ c.policy \in Policies(p) /\ (OfLog(c.policy) => UserSid(p) = c.policy.owner)
      /\ c.at = "root" => ~(OfLog(c.policy) /\ OfService(c.policy))
  BY DEF AccessInv, Reliable, Relies
<1>2. c.policy \in Rules /\ Descriptor(c.policy) \in AccessLists /\ Directory(c.level) \in BOOLEAN
  BY <1>1, ByUse, DescriptorTyped DEF Directory
<1>3. new = [owner |-> OwnerOfNew(p, c.policy), protected |-> TRUE, inherit |-> Directory(c.level),
             list |-> Descriptor(c.policy), rewriters |-> {}, policy |-> c.policy]
  BY DEF Protecting
<1> HIDE DEF new
<1>4. OwnerOfNew(p, c.policy) \in Identities
  BY <1>1, ProgramOwns, TokenFacts DEF OwnerOfNew
<1>5. new \in Securables
  BY <1>2, <1>3, <1>4 DEF Securables
<1>6. CASE OfService(c.policy)
  <2>1. c.policy \in ServicePolicies /\ ~OfLog(c.policy)
    BY <1>1, <1>6, ByUse
  <2> QED BY <1>3, <1>5, <1>6, <2>1, ServicePolicyFacts, ProgramOwns DEF Fits, OwnerOfNew, new
<1>7. CASE ~OfService(c.policy)
  <2>1. c.policy \in OwnPolicies(p)
    BY <1>1, <1>7, ByUse
  <2>2. CASE OfLog(c.policy)
    <3>1. c.policy = LogCurrentProcess(p)
      BY <2>1, <2>2, OwnPolicyFacts
    <3>2. c.policy.principals = {c.policy.owner}
      BY <3>1 DEF LogCurrentProcess, Policy
    <3>3. OwnerOfNew(p, c.policy) = c.policy.owner
      BY <2>2 DEF OwnerOfNew
    <3> QED BY <1>3, <1>5, <1>7, <2>1, <3>2, <3>3, OwnPolicyFacts DEF Fits, new
  <2>3. CASE ~OfLog(c.policy)
    <3>1. OwnerOfNew(p, c.policy) = OwnerSid(p)
      BY <2>3 DEF OwnerOfNew
    <3>2. OwnerSid(p) \in c.policy.principals
      BY <2>1, <2>3, OwnPolicyFacts, ProgramOwns
    <3> QED BY <1>3, <1>5, <1>7, <2>1, <2>3, <3>1, <3>2, OwnPolicyFacts DEF Fits, new
  <2> QED BY <2>2, <2>3
<1> QED BY <1>6, <1>7 DEF new

LEMMA NewFits ==
  ASSUME AccessInv, NEW p \in Programs, NEW c, c = call[p], c.at \in {"root", "make"}
  PROVE  Fits(c.policy, c.level, New(p))
<1>1. CASE c.at = "make" /\ OfService(c.policy)
  <2>1. New(p) = Inheriting(p, c.level, c.policy)
    BY <1>1 DEF New
  <2> QED BY <1>1, <2>1, NewInheriting
<1>2. CASE ~(c.at = "make" /\ OfService(c.policy))
  <2>1. New(p) = Protecting(OwnerOfNew(p, c.policy), c.level, Descriptor(c.policy), {}, c.policy)
    BY <1>2 DEF New
  <2> QED BY <1>2, <2>1, NewProtecting
<1> QED BY <1>1, <1>2

\* What fits is accepted, whichever step it is looked at.
LEMMA FitsIsAccepted ==
  ASSUME AccessInv, NEW p \in Programs, NEW policy \in Policies(p), NEW l \in Levels, NEW o, Fits(policy, l, o),
         object'[l] = o
  PROVE  Accepted(policy, l)'
<1>1. o # Nothing
  BY WindowsAccessAssumption DEF Fits
<1>2. CASE OfService(policy)
  <2>1. policy \in ServicePolicies
    BY <1>2, ByUse
  <2>2. o.owner \in Privileged \cup {Account} /\ (OfLog(policy) => o.owner = Account)
        /\ o.list = Declared /\ o.inherit = Directory(l)
    BY <1>2 DEF Fits
  <2>3. OfLog(policy) => policy.owner = Account
    BY <2>1, ServicePolicyFacts DEF LogForService, Policy
  <2>4. ~OfLog(policy) => policy.principals = Privileged \cup {Service, Account}
    BY <2>1, ServicePolicyFacts DEF ServicePolicies, ForService, Policy
  <2> QED BY <1>1, <1>2, <2>1, <2>2, <2>3, <2>4, ServicePolicyFacts DEF Accepted, StateAccepted, LogAccepted
<1>3. CASE ~OfService(policy)
  <2>1. policy \in OwnPolicies(p) /\ policy \in Rules
    BY <1>3, ByUse
  <2>2. o.owner \in policy.principals /\ (OfLog(policy) => o.owner = policy.owner)
        /\ o.protected /\ o.list = Grant(Privileged \cup policy.principals, "full") /\ o.inherit = Directory(l)
    BY <1>3 DEF Fits
  <2>3. CASE OfLog(policy)
    <3>1. policy = LogCurrentProcess(p)
      BY <2>1, <2>3, OwnPolicyFacts
    <3>2. policy.principals = {policy.owner}
      BY <3>1 DEF LogCurrentProcess, Policy
    <3>3. Trustees(policy) = Grant(Privileged \cup policy.principals, "full")
      BY <1>3, <3>2 DEF Trustees
    <3> QED BY <1>1, <1>3, <2>2, <2>3, <3>3 DEF Accepted, LogAccepted
  <2>4. CASE ~OfLog(policy)
    <3>1. Privileged \subseteq policy.principals
      BY <2>1, <2>4, OwnPolicyFacts
    <3>2. DOMAIN o.list = policy.principals
      BY <2>2, <3>1 DEF Grant
    <3>3. Within(policy, o.list)
      BY <3>1, <3>2 DEF Within, Privileged
    <3> QED BY <1>1, <1>3, <2>2, <2>4, <3>3 DEF Accepted, StateAccepted
  <2> QED BY <2>3, <2>4
<1> QED BY <1>2, <1>3

-----------------------------------------------------------------------------
\* Calls.

\* What is judged at a level depends on what is there alone.
LEMMA SameThere ==
  ASSUME NEW l, NEW policy, object'[l] = object[l]
  PROVE  /\ Accepted(policy, l)' <=> Accepted(policy, l)
         /\ Anchors(policy, l)' <=> Anchors(policy, l)
         /\ Closed(policy, l)' <=> Closed(policy, l)
<1>1. Accepted(policy, l)' <=> Accepted(policy, l)
  BY DEF Accepted, StateAccepted, LogAccepted
<1>2. Anchors(policy, l)' <=> Anchors(policy, l)
  BY DEF Anchors
<1>3. \A a \in Processes : (MayWrite(a, l) \/ MayRewrite(a, l))' <=> (MayWrite(a, l) \/ MayRewrite(a, l))
  BY DEF MayWrite, MayRewrite, Allowed
<1>4. Closed(policy, l)' <=> Closed(policy, l)
  BY <1>3 DEF Closed, There
<1> QED BY <1>1, <1>2, <1>4

LEMMA SameWay ==
  ASSUME NEW p, NEW policy, use' = use
  PROVE  policy \in Policies(p) => (policy \in Policies(p))'
BY DEF Policies, StatePolicies, LogPolicies

\* What the directories that authenticate a level, if they are left alone, go on doing.
LEMMA ChainKept ==
  ASSUME NEW policy, NEW anchor \in Nat, NEW l \in Nat, anchor <= l, ChainVerified(policy, anchor, l),
         \A k \in anchor..l : There(k) => object'[k] = object[k]
  PROVE  ChainVerified(policy, anchor, l)'
<1>1. \A k \in anchor..l : Accepted(policy, k) /\ object'[k] = object[k]
  BY DEF ChainVerified, Accepted, There
<1>2. \A k \in anchor..l : Accepted(policy, k)'
  BY <1>1, SameThere
<1>3. anchor \in anchor..l
  OBVIOUS
<1>4. OfService(policy) => Anchors(policy, anchor)'
  BY <1>1, <1>3, SameThere DEF ChainVerified
<1> QED BY <1>2, <1>4 DEF ChainVerified

\* A call goes on relying on what it relied on.
LEMMA ReliesAgain ==
  ASSUME NEW p, NEW c \in Callings, Relies(p, c), use' = use,
         c.at = "make" /\ OfService(c.policy) => ChainVerified(c.policy, c.anchor, c.level - 1)',
         c.at = "held" =>
           IF OfService(c.policy) THEN ChainVerified(c.policy, c.anchor, c.level)'
           ELSE \A k \in c.anchor..c.level : Closed(c.policy, k)'
  PROVE  Relies(p, c)'
<1> SUFFICES ASSUME c.at # "idle"
             PROVE  Relies(p, c)'
  BY DEF Relies
<1>1. /\ c.policy \in Policies(p) /\ (OfLog(c.policy) => UserSid(p) = c.policy.owner)
      /\ c.level \in 2..Depth /\ c.anchor \in 1..c.level
      /\ c.at = "root" => ~(OfLog(c.policy) /\ OfService(c.policy)) /\ Directory(c.level)
      /\ c.at = "make" /\ OfService(c.policy) => c.anchor < c.level
  BY DEF Relies
<1>2. (c.policy \in Policies(p))'
  BY <1>1, SameWay
<1> QED BY <1>1, <1>2 DEF Relies

\* A step that leaves alone what is there.
LEMMA ReliesKept ==
  ASSUME NEW p, NEW c \in Callings, Relies(p, c), use' = use, Depth \in Nat,
         \A k \in Levels : There(k) => object'[k] = object[k]
  PROVE  Relies(p, c)'
<1> SUFFICES ASSUME c.at # "idle"
             PROVE  Relies(p, c)'
  BY DEF Relies
<1>1. c.level \in 2..Depth /\ c.anchor \in 1..c.level /\ c.level \in Nat /\ c.level - 1 \in Nat /\ c.anchor \in Nat
  BY DEF Relies
<1>2. \A k \in c.anchor..c.level : There(k) => object'[k] = object[k]
  BY <1>1 DEF Levels
<1>3. c.at = "make" /\ OfService(c.policy) => ChainVerified(c.policy, c.anchor, c.level - 1)'
  <2> SUFFICES ASSUME c.at = "make", OfService(c.policy)
               PROVE  ChainVerified(c.policy, c.anchor, c.level - 1)'
    OBVIOUS
  <2>1. c.anchor < c.level /\ ChainVerified(c.policy, c.anchor, c.level - 1)
    BY DEF Relies
  <2>2. \A k \in c.anchor..(c.level - 1) : There(k) => object'[k] = object[k]
    BY <1>1, <1>2
  <2>3. c.anchor <= c.level - 1
    BY <1>1, <2>1
  <2> QED BY <1>1, <2>1, <2>2, <2>3, ChainKept
<1>4. c.at = "held" =>
        IF OfService(c.policy) THEN ChainVerified(c.policy, c.anchor, c.level)'
        ELSE \A k \in c.anchor..c.level : Closed(c.policy, k)'
  <2> SUFFICES ASSUME c.at = "held"
               PROVE  IF OfService(c.policy) THEN ChainVerified(c.policy, c.anchor, c.level)'
                      ELSE \A k \in c.anchor..c.level : Closed(c.policy, k)'
    OBVIOUS
  <2>1. CASE OfService(c.policy)
    <3>1. ChainVerified(c.policy, c.anchor, c.level) /\ c.anchor <= c.level
      BY <1>1, <2>1 DEF Relies
    <3> QED BY <1>1, <1>2, <2>1, <3>1, ChainKept
  <2>2. CASE ~OfService(c.policy)
    <3>1. \A k \in c.anchor..c.level : Closed(c.policy, k) /\ object'[k] = object[k]
      BY <1>2, <2>2 DEF Relies, Closed
    <3> QED BY <2>2, <3>1, SameThere
  <2> QED BY <2>1, <2>2
<1> QED BY <1>3, <1>4, ReliesAgain

\* A program's step changes its own call, and at most adds what it made.
LEMMA ReliableAfter ==
  ASSUME AccessInv, NEW p \in Programs, NEW c \in Callings, call' = [call EXCEPT ![p] = c],
         use' = use, \A k \in Levels : There(k) => object'[k] = object[k], Relies(p, c)'
  PROVE  Reliable' /\ call' \in [Programs -> Callings]
<1>1. call \in [Programs -> Callings] /\ Depth \in Nat
  BY WindowsAccessAssumption DEF AccessInv, AccessTypes
<1>2. ASSUME NEW q \in Programs
      PROVE  Relies(q, call[q])'
  <2>1. PICK d \in Callings : d = call'[q]
    BY <1>1
  <2>2. CASE q = p
    <3>1. d = c
      BY <1>1, <2>1, <2>2
    <3> QED BY <2>1, <2>2, <3>1 DEF Relies
  <2>3. CASE q # p
    <3>1. d = call[q]
      BY <1>1, <2>1, <2>3
    <3>2. Relies(q, d)
      BY <3>1 DEF AccessInv, Reliable
    <3>4. Relies(q, d)'
      BY <1>1, <3>2, ReliesKept
    <3> QED BY <2>1, <3>4 DEF Relies
  <2> QED BY <2>2, <2>3
<1> QED BY <1>1, <1>2 DEF Reliable

LEMMA UsableChain ==
  ASSUME AccessInv, NEW p \in Programs, NEW policy \in Policies(p), NEW anchor \in Nat, NEW l \in Levels,
         anchor \in 1..l, ChainVerified(policy, anchor, l)
  PROVE  ~OfService(policy) => \A k \in anchor..l : Closed(policy, k)
<1> SUFFICES ASSUME ~OfService(policy), NEW k \in anchor..l
             PROVE  Closed(policy, k)
  OBVIOUS
<1>1. k \in Levels
  BY WindowsAccessAssumption DEF Levels
<1>2. Accepted(policy, k) /\ There(k)
  BY DEF ChainVerified, Accepted, There
<1>3. policy \in OwnPolicies(p)
  BY ByUse
<1>4. \A a \in object[k].rewriters : a \in Processes /\ object[k].owner = OwnerSid(a)
  BY <1>1, <1>2 DEF AccessInv, Tree, Others
<1> QED BY <1>1, <1>2, <1>3, <1>4, OwnAccepts

LEMMA Chosen ==
  ASSUME NEW policy, NEW l \in Levels, NEW anchor \in Nearest(AnchorsOf(policy, l))
  PROVE  anchor \in 1..l /\ ChainVerified(policy, anchor, l)
<1>1. anchor \in AnchorsOf(policy, l)
  BY DEF Nearest
<1>2. l \in Nat /\ l >= 1
  BY WindowsAccessAssumption DEF Levels
<1>3. CASE OfService(policy)
  <2>1. anchor \in 1..l /\ (\A j \in anchor..l : Accepted(policy, j)) /\ Anchors(policy, anchor)
    BY <1>1, <1>3 DEF AnchorsOf
  <2> QED BY <2>1 DEF ChainVerified
<1>4. CASE ~OfService(policy)
  <2>1. anchor = l /\ Accepted(policy, l)
    BY <1>1, <1>4 DEF AnchorsOf
  <2>2. \A k \in l..l : k = l
    BY <1>2
  <2> QED BY <1>2, <1>4, <2>1, <2>2 DEF ChainVerified
<1> QED BY <1>3, <1>4

LEMMA StatePolicyFacts ==
  ASSUME AccessInv, NEW p \in Programs, NEW policy \in StatePolicies(p)
  PROVE  policy \in Policies(p) /\ ~OfLog(policy) /\ policy \in Rules
<1>1. policy \in Policies(p)
  BY DEF Policies
<1>2. policy.owner = Nothing
  BY DEF StatePolicies, ForService, ForServiceAccount, CurrentProcess, ForCurrentUser, Policy, AccessInv, AccessTypes
<1> QED BY <1>1, <1>2, ByUse DEF OfLog

\* What a call of a program keeps of the invariant.
LEMMA CallKeeps ==
  ASSUME AccessInv, NEW p \in Programs, NEW c \in Callings, call' = [call EXCEPT ![p] = c],
         UNCHANGED <<object, use>>, Relies(p, c)
  PROVE  AccessInv'
<1>0. Depth \in Nat
  BY WindowsAccessAssumption
<1>1. Relies(p, c)'
  BY <1>0, ReliesKept
<1>2. Reliable' /\ call' \in [Programs -> Callings]
  BY <1>1, ReliableAfter
<1>3. AccessTypes'
  BY <1>2 DEF AccessInv, AccessTypes
<1>4. Tree' /\ Foreign'
  BY DEF AccessInv, Tree, Foreign, There
<1>5. ASSUME NEW l \in Levels, NEW policy \in Rules, There(l), object[l].policy = policy
      PROVE  Made(l, policy)'
  <2>1. Made(l, policy)
    BY <1>5 DEF AccessInv, Works
  <2>2. Accepted(policy, l)'
    BY <2>1, SameThere DEF Made
  <2>3. PICK q \in Programs : policy \in Policies(q)
    BY <2>1 DEF Made
  <2>4. (policy \in Policies(q))'
    BY <2>3, SameWay
  <2>5. object'[l].rewriters = {}
    BY <2>1 DEF Made
  <2> QED BY <2>2, <2>4, <2>5 DEF Made
<1>6. Works'
  BY <1>5 DEF Works, There
<1> QED BY <1>2, <1>3, <1>4, <1>6 DEF AccessInv

LEMMA OpenRootKeeps ==
  ASSUME AccessInv, NEW p \in Programs, NEW l \in Levels \ {1}, Directory(l),
         NEW policy, policy \in StatePolicies(p), OpenRoot(p, policy, l)
  PROVE  AccessInv'
<1>0. l \in 2..Depth /\ l \in Nat /\ l \in 1..l
  BY WindowsAccessAssumption DEF Levels
<1>1. policy \in Policies(p) /\ ~OfLog(policy) /\ policy \in Rules
  BY StatePolicyFacts
<1>2. ASSUME NEW anchor \in Nearest(AnchorsOf(policy, l)), Calls(p, "held", policy, anchor, l)
      PROVE  AccessInv'
  <2>1. anchor \in 1..l /\ ChainVerified(policy, anchor, l)
    BY Chosen
  <2>2. PICK c : c = [at |-> "held", policy |-> policy, anchor |-> anchor, level |-> l]
    OBVIOUS
  <2>3. c \in Callings
    BY <1>0, <1>1, <2>1, <2>2 DEF Callings
  <2>4. ~OfService(policy) => \A k \in anchor..l : Closed(policy, k)
    BY <1>0, <1>1, <2>1, UsableChain
  <2>5. Relies(p, c)
    BY <1>0, <1>1, <2>1, <2>2, <2>4 DEF Relies
  <2>6. call' = [call EXCEPT ![p] = c] /\ UNCHANGED <<object, use>>
    BY <1>2, <2>2 DEF Calls, OpenRoot
  <2> QED BY <2>3, <2>5, <2>6, CallKeeps
<1>3. ASSUME Calls(p, "root", policy, l, l)
      PROVE  AccessInv'
  <2>1. PICK c : c = [at |-> "root", policy |-> policy, anchor |-> l, level |-> l]
    OBVIOUS
  <2>2. c \in Callings
    BY <1>0, <1>1, <2>1 DEF Callings
  <2>3. Relies(p, c)
    BY <1>0, <1>1, <2>1 DEF Relies
  <2>4. call' = [call EXCEPT ![p] = c] /\ UNCHANGED <<object, use>>
    BY <1>3, <2>1 DEF Calls, OpenRoot
  <2> QED BY <2>2, <2>3, <2>4, CallKeeps
<1>4. ASSUME UNCHANGED call
      PROVE  AccessInv'
  <2>1. PICK c \in Callings : c = call[p]
    BY DEF AccessInv, AccessTypes
  <2>2. Relies(p, c)
    BY <2>1 DEF AccessInv, Reliable
  <2>3. call' = [call EXCEPT ![p] = c]
    BY <1>4, <2>1 DEF AccessInv, AccessTypes
  <2> QED BY <2>2, <2>3, CallKeeps DEF OpenRoot
<1> QED BY <1>2, <1>3, <1>4 DEF OpenRoot

LEMMA OpenLogKeeps ==
  ASSUME AccessInv, NEW p \in Programs, NEW l \in Levels \ {1}, Directory(l),
         NEW policy, policy \in LogPolicies(p), OpenLog(p, policy, l)
  PROVE  AccessInv'
<1>0. l \in 2..Depth /\ l \in Nat /\ l \in 1..l /\ l - 1 \in Levels /\ l - 1 \in Nat
  BY WindowsAccessAssumption DEF Levels
<1>1. policy \in Policies(p) /\ policy \in Rules /\ UserSid(p) = policy.owner
  BY ByUse DEF Policies, OpenLog
<1>2. ASSUME ~OfService(policy), Calls(p, "root", policy, l, l)
      PROVE  AccessInv'
  <2>1. PICK c : c = [at |-> "root", policy |-> policy, anchor |-> l, level |-> l]
    OBVIOUS
  <2>2. c \in Callings
    BY <1>0, <1>1, <2>1 DEF Callings
  <2>3. Relies(p, c)
    BY <1>0, <1>1, <1>2, <2>1 DEF Relies
  <2>4. call' = [call EXCEPT ![p] = c] /\ UNCHANGED <<object, use>>
    BY <1>2, <2>1 DEF Calls, OpenLog
  <2> QED BY <2>2, <2>3, <2>4, CallKeeps
<1>3. ASSUME NEW anchor \in Nearest(AnchorsOf(policy, l - 1)), Calls(p, "make", policy, anchor, l)
      PROVE  AccessInv'
  <2>1. anchor \in 1..(l - 1) /\ ChainVerified(policy, anchor, l - 1)
    BY <1>0, Chosen
  <2>2. PICK c : c = [at |-> "make", policy |-> policy, anchor |-> anchor, level |-> l]
    OBVIOUS
  <2>3. c \in Callings /\ anchor \in 1..l /\ anchor < l
    BY <1>0, <1>1, <2>1, <2>2 DEF Callings
  <2>4. Relies(p, c)
    BY <1>0, <1>1, <2>1, <2>2, <2>3 DEF Relies
  <2>5. call' = [call EXCEPT ![p] = c] /\ UNCHANGED <<object, use>>
    BY <1>3, <2>2 DEF Calls, OpenLog
  <2> QED BY <2>3, <2>4, <2>5, CallKeeps
<1> QED BY <1>2, <1>3 DEF OpenLog

LEMMA BelowKeeps ==
  ASSUME AccessInv, NEW p \in Programs, Below(p)
  PROVE  AccessInv'
<1>1. PICK d \in Callings : d = call[p]
  BY DEF AccessInv, AccessTypes
<1>2. PICK l : l = d.level + 1
  OBVIOUS
<1>3. /\ d.policy \in Policies(p) /\ (OfLog(d.policy) => UserSid(p) = d.policy.owner)
      /\ d.level \in 2..Depth /\ d.anchor \in 1..d.level
  BY <1>1 DEF AccessInv, Reliable, Relies, Below
<1>4. d.level < Depth /\ ChainVerified(d.policy, d.anchor, d.level)
  BY <1>1 DEF Below, Usable
<1>5. l \in 2..Depth /\ l \in Nat /\ l \in 1..l /\ l - 1 = d.level /\ d.anchor \in 1..l /\ d.anchor < l
  BY <1>2, <1>3, <1>4, WindowsAccessAssumption
<1>6. d.policy \in Rules
  BY <1>3, ByUse
<1>7. ASSUME Directory(l), ~OfService(d.policy), Calls(p, "root", d.policy, l, l)
      PROVE  AccessInv'
  <2>1. PICK c : c = [at |-> "root", policy |-> d.policy, anchor |-> l, level |-> l]
    OBVIOUS
  <2>2. c \in Callings
    BY <1>5, <1>6, <2>1 DEF Callings
  <2>3. Relies(p, c)
    BY <1>3, <1>5, <1>7, <2>1 DEF Relies
  <2>4. call' = [call EXCEPT ![p] = c] /\ UNCHANGED <<object, use>>
    BY <1>7, <2>1 DEF Calls, Below
  <2> QED BY <2>2, <2>3, <2>4, CallKeeps
<1>8. ASSUME Calls(p, "make", d.policy, d.anchor, l)
      PROVE  AccessInv'
  <2>1. PICK c : c = [at |-> "make", policy |-> d.policy, anchor |-> d.anchor, level |-> l]
    OBVIOUS
  <2>2. c \in Callings
    BY <1>3, <1>5, <1>6, <2>1 DEF Callings
  <2>3. Relies(p, c)
    BY <1>3, <1>4, <1>5, <2>1 DEF Relies
  <2>4. call' = [call EXCEPT ![p] = c] /\ UNCHANGED <<object, use>>
    BY <1>8, <2>1 DEF Calls, Below
  <2> QED BY <2>2, <2>3, <2>4, CallKeeps
<1> QED BY <1>1, <1>2, <1>7, <1>8 DEF Below

LEMMA IdleKeeps ==
  ASSUME AccessInv, NEW p \in Programs, call' = [call EXCEPT ![p] = Idle], UNCHANGED <<object, use>>
  PROVE  AccessInv'
<1>1. Idle \in Callings
  BY DEF Idle, Callings
<1>2. Relies(p, Idle)
  BY DEF Relies, Idle
<1> QED BY <1>1, <1>2, CallKeeps

LEMMA CheckKeeps ==
  ASSUME AccessInv, NEW p \in Programs, Check(p)
  PROVE  AccessInv'
<1>1. PICK d \in Callings : d = call[p]
  BY DEF AccessInv, AccessTypes
<1>2. /\ d.policy \in Policies(p) /\ (OfLog(d.policy) => UserSid(p) = d.policy.owner)
      /\ d.level \in 2..Depth /\ d.anchor \in 1..d.level
  BY <1>1 DEF AccessInv, Reliable, Relies, Check
<1>3. d.policy \in Rules /\ d.level \in Levels /\ d.anchor \in Nat
  BY <1>2, ByUse, WindowsAccessAssumption DEF Levels
<1>4. ASSUME Usable(d.policy, d.anchor, d.level), Calls(p, "held", d.policy, d.anchor, d.level)
      PROVE  AccessInv'
  <2>1. PICK c : c = [at |-> "held", policy |-> d.policy, anchor |-> d.anchor, level |-> d.level]
    OBVIOUS
  <2>2. c \in Callings
    BY <1>2, <1>3, <2>1 DEF Callings
  <2>3. ChainVerified(d.policy, d.anchor, d.level)
    BY <1>4 DEF Usable
  <2>4. ~OfService(d.policy) => \A k \in d.anchor..d.level : Closed(d.policy, k)
    BY <1>2, <1>3, <2>3, UsableChain
  <2>5. Relies(p, c)
    BY <1>2, <2>1, <2>3, <2>4 DEF Relies
  <2>6. call' = [call EXCEPT ![p] = c] /\ UNCHANGED <<object, use>>
    BY <1>4, <2>1 DEF Calls, Check
  <2> QED BY <2>2, <2>5, <2>6, CallKeeps
<1>5. ASSUME call' = [call EXCEPT ![p] = Idle]
      PROVE  AccessInv'
  BY <1>5, IdleKeeps DEF Check
<1> QED BY <1>1, <1>4, <1>5 DEF Check

LEMMA LeaveKeeps ==
  ASSUME AccessInv, NEW p \in Programs, Leave(p)
  PROVE  AccessInv'
BY IdleKeeps DEF Leave

\* What is made where nothing was: nothing is below it yet.
LEMMA MadeKeeps ==
  ASSUME AccessInv, NEW p \in Programs, NEW d \in Callings, d = call[p], d.at \in {"root", "make"},
         object[d.level] = Nothing, MayAdd(p, d.level - 1), object' = [object EXCEPT ![d.level] = New(p)],
         call' = [call EXCEPT ![p] = [d EXCEPT !.at = "check"]], use' = use
  PROVE  AccessInv'
<1> DEFINE l == d.level
<1>1. /\ d.policy \in Policies(p) /\ (OfLog(d.policy) => UserSid(p) = d.policy.owner)
      /\ d.level \in 2..Depth /\ d.anchor \in 1..d.level
  BY DEF AccessInv, Reliable, Relies
<1>2. l \in Levels /\ l # 1 /\ l - 1 \in Levels /\ l \in Nat /\ Depth \in Nat /\ \A k \in Levels : k \in Nat
  BY <1>1, WindowsAccessAssumption DEF Levels
<1>3. PICK o : o = New(p)
  OBVIOUS
<1>4. Fits(d.policy, l, o) /\ o \in Securables /\ o # Nothing /\ o.policy = d.policy /\ o.rewriters = {}
  BY <1>3, NewFits, WindowsAccessAssumption DEF Fits
<1>5. object'[l] = o /\ \A k \in Levels : k # l => object'[k] = object[k]
  BY <1>2, <1>3 DEF AccessInv, AccessTypes
<1>6. There(l - 1) /\ ~There(l) /\ There(l)'
  BY <1>4, <1>5 DEF There, MayAdd
<1> HIDE DEF l
<1>t. /\ \A k, m \in Levels : k < m /\ There(m) => There(k)
      /\ object[1] = Ambient
      /\ \A m \in Levels : There(m) => \A a \in object[m].rewriters : a \in Others /\ object[m].owner = OwnerSid(a)
  BY DEF AccessInv, Tree
<1>7. \A m \in Levels : m > l => ~There(m)
  BY <1>2, <1>6, <1>t
<1>8. \A k \in Levels : k < l => There(k)
  <2>1. \A k \in Levels : k < l => k = l - 1 \/ k < l - 1
    BY <1>2
  <2> QED BY <1>2, <1>6, <1>t, <2>1
<1>9. Tree'
  <2>1. ASSUME NEW k \in Levels, NEW m \in Levels, k < m, There(m)'
        PROVE  There(k)'
    <3>1. m = l \/ There(m)
      BY <1>5, <2>1 DEF There
    <3>2. k = l \/ There(k)
      BY <1>8, <1>t, <2>1, <3>1
    <3> QED BY <1>5, <1>6, <3>2 DEF There
  <2>2. object'[1] = Ambient
    BY <1>2, <1>5, <1>t, WindowsAccessAssumption DEF Levels
  <2>3. ASSUME NEW m \in Levels, There(m)', NEW a \in object'[m].rewriters
        PROVE  a \in Others /\ object'[m].owner = OwnerSid(a)
    BY <1>4, <1>5, <1>t, <2>3 DEF There
  <2> QED BY <2>1, <2>2, <2>3 DEF Tree
<1>10. d.policy \in Rules /\ d.policy # Nothing
  BY <1>1, ByUse, WindowsAccessAssumption
<1>11. ASSUME NEW m \in Levels, NEW policy \in Rules, There(m)', object'[m].policy = policy
       PROVE  Made(m, policy)'
  <2>1. CASE m = l
    <3>1. policy = d.policy
      BY <1>4, <1>5, <1>11, <2>1
    <3>2. Accepted(policy, m)'
      BY <1>1, <1>2, <1>4, <1>5, <2>1, <3>1, FitsIsAccepted
    <3>3. (policy \in Policies(p))'
      BY <1>1, <3>1, SameWay
    <3>4. object'[m].rewriters = {}
      BY <1>4, <1>5, <2>1
    <3> QED BY <3>2, <3>3, <3>4 DEF Made
  <2>2. CASE m # l
    <3>1. object'[m] = object[m] /\ There(m)
      BY <1>5, <1>11, <2>2 DEF There
    <3>2. Made(m, policy)
      BY <1>11, <3>1 DEF AccessInv, Works
    <3>3. PICK q \in Programs : policy \in Policies(q)
      BY <3>2 DEF Made
    <3>4. (policy \in Policies(q))'
      BY <3>3, SameWay
    <3>5. Accepted(policy, m)' /\ object'[m].rewriters = {}
      BY <3>1, <3>2, SameThere DEF Made
    <3> QED BY <3>4, <3>5 DEF Made
  <2> QED BY <2>1, <2>2
<1>12. Works'
  BY <1>11 DEF Works
<1>13. Foreign'
  <2> SUFFICES ASSUME use = "service"
               PROVE  /\ \A m \in Levels : m > 1 /\ There(m)' /\ object'[m].policy = Nothing =>
                           \E a \in Others : object'[m].owner = OwnerSid(a)
                      /\ \A k, m \in Levels : k < m /\ There(k)' /\ There(m)' /\ object'[k].policy # Nothing =>
                           object'[m].policy # Nothing
    BY DEF Foreign
  <2>0. /\ \A m \in Levels : m > 1 /\ There(m) /\ object[m].policy = Nothing =>
             \E a \in Others : object[m].owner = OwnerSid(a)
        /\ \A k, m \in Levels : k < m /\ There(k) /\ There(m) /\ object[k].policy # Nothing =>
             object[m].policy # Nothing
    BY DEF AccessInv, Foreign
  <2>1. object'[l].policy # Nothing
    BY <1>4, <1>5, <1>10
  <2>2. \A m \in Levels : m # l /\ There(m)' => object'[m] = object[m] /\ There(m)
    BY <1>5 DEF There
  <2>3. ASSUME NEW k \in Levels, NEW m \in Levels, k < m, There(k)', There(m)', object'[k].policy # Nothing
        PROVE  object'[m].policy # Nothing
    <3>1. CASE m = l
      BY <2>1, <3>1
    <3>2. CASE m # l
      <4>1. k # l
        BY <1>2, <1>7, <2>2, <2>3, <3>2
      <4> QED BY <2>0, <2>2, <2>3, <3>2, <4>1
    <3> QED BY <3>1, <3>2
  <2> QED BY <2>0, <2>1, <2>2, <2>3
<1>14. AccessTypes'
  <2>1. object' \in [Levels -> Securables \cup {Nothing}]
    BY <1>2, <1>3, <1>4 DEF AccessInv, AccessTypes, l
  <2>2. [d EXCEPT !.at = "check"] \in Callings
    BY DEF Callings
  <2>3. call' \in [Programs -> Callings]
    BY <2>2 DEF AccessInv, AccessTypes
  <2> QED BY <2>1, <2>3 DEF AccessInv, AccessTypes
<1>15. Reliable'
  <2>1. PICK c : c = [d EXCEPT !.at = "check"]
    OBVIOUS
  <2>2. c \in Callings /\ c.at = "check" /\ c.policy = d.policy /\ c.anchor = d.anchor /\ c.level = d.level
    BY <2>1 DEF Callings
  <2>3. (c.policy \in Policies(p))'
    BY <1>1, <2>2, SameWay
  <2>4. Relies(p, c)'
    BY <1>1, <2>2, <2>3 DEF Relies
  <2>5. \A k \in Levels : There(k) => object'[k] = object[k]
    BY <1>5, <1>6
  <2> QED BY <2>1, <2>2, <2>4, <2>5, ReliableAfter
<1> QED BY <1>9, <1>12, <1>13, <1>14, <1>15 DEF AccessInv

LEMMA MakeKeeps ==
  ASSUME AccessInv, NEW p \in Programs, Make(p)
  PROVE  AccessInv'
<1>1. PICK d \in Callings : d = call[p]
  BY DEF AccessInv, AccessTypes
<1>2. PICK c : c = [d EXCEPT !.at = "check"]
  OBVIOUS
<1>3. call' = [call EXCEPT ![p] = c] /\ use' = use
  BY <1>1, <1>2 DEF Make
<1>4. c \in Callings /\ c.at = "check" /\ c.policy = d.policy /\ c.anchor = d.anchor /\ c.level = d.level
  BY <1>2 DEF Callings
<1>5. CASE UNCHANGED object
  <2>1. Relies(p, d) /\ d.at # "idle"
    BY <1>1 DEF AccessInv, Reliable, Make
  <2>2. Relies(p, c)
    BY <1>4, <2>1 DEF Relies
  <2> QED BY <1>3, <1>4, <1>5, <2>2, CallKeeps
<1>6. CASE object[d.level] = Nothing /\ MayAdd(p, d.level - 1) /\ object' = [object EXCEPT ![d.level] = New(p)]
  BY <1>1, <1>2, <1>3, <1>6, MadeKeeps DEF Make
<1> QED BY <1>1, <1>5, <1>6 DEF Make

-----------------------------------------------------------------------------
\* What the other processes do.

LEMMA ListsFacts ==
  ASSUME NEW a \in Others, NEW list \in Lists(a)
  PROVE  /\ list \in AccessLists
         /\ DOMAIN list \subseteq Privileged \cup {UserSid(a), Service, Account, OwnerRights}
<1>1. UserSid(a) \in Identities
  BY TokenFacts, OthersAreStrange
<1>2. CASE list = Grant({UserSid(a)}, "full")
  <2>1. {UserSid(a)} \in SUBSET (Identities \cup {OwnerRights})
    BY <1>1
  <2> QED BY <1>2, <2>1, GrantFacts
<1>3. CASE list = ServiceList(ForService)
  BY <1>3, DeclaredList DEF Declared
<1>4. CASE list = Grant(Privileged \cup {Account}, "full")
  <2>1. Privileged \cup {Account} \in SUBSET (Identities \cup {OwnerRights})
    BY DEF Identities
  <2> QED BY <1>4, <2>1, GrantFacts
<1> QED BY <1>2, <1>3, <1>4 DEF Lists

LEMMA RewriteFacts ==
  ASSUME AccessInv, NEW a \in Others, NEW l \in Levels, Rewrite(a, l)
  PROVE  /\ \A k \in Levels : k # l => object'[k] = object[k]
         /\ There(l) /\ MayRewrite(a, l) /\ object'[l] \in Securables
         /\ object'[l].owner = object[l].owner /\ object'[l].rewriters = object[l].rewriters
         /\ object'[l].list \in Lists(a)
         /\ object'[l].policy = IF object[l].policy # Nothing /\ Trusts(object[l].policy, a) THEN Nothing
                                ELSE object[l].policy
         /\ object' \in [Levels -> Securables \cup {Nothing}]
<1>1. There(l) /\ MayRewrite(a, l) /\ object[l] \in Securables /\ object \in [Levels -> Securables \cup {Nothing}]
  BY DEF Rewrite, There, AccessInv, AccessTypes
<1>2. PICK list \in Lists(a), protected \in BOOLEAN :
        object' = [object EXCEPT ![l].list = list, ![l].protected = protected, ![l].inherit = Directory(l),
                                 ![l].policy = IF @ # Nothing /\ Trusts(@, a) THEN Nothing ELSE @]
  BY DEF Rewrite
<1>3. PICK o : o = [object[l] EXCEPT !.list = list, !.protected = protected, !.inherit = Directory(l),
                                     !.policy = IF @ # Nothing /\ Trusts(@, a) THEN Nothing ELSE @]
  OBVIOUS
<1>4. object' = [object EXCEPT ![l] = o]
  BY <1>1, <1>2, <1>3
<1>5. PICK policy : policy = IF object[l].policy # Nothing /\ Trusts(object[l].policy, a) THEN Nothing
                             ELSE object[l].policy
  OBVIOUS
<1>6. o = [object[l] EXCEPT !.list = list, !.protected = protected, !.inherit = Directory(l), !.policy = policy]
  BY <1>1, <1>3, <1>5 DEF Securables
<1>7. list \in AccessLists /\ policy \in Rules \cup {Nothing} /\ Directory(l) \in BOOLEAN
  BY <1>1, <1>5, ListsFacts DEF Securables, Directory
<1>8. o \in Securables
  BY <1>1, <1>6, <1>7 DEF Securables
<1>9. o.owner = object[l].owner /\ o.rewriters = object[l].rewriters /\ o.list = list /\ o.policy = policy
  BY <1>1, <1>6 DEF Securables
<1>10. object'[l] = o /\ \A k \in Levels : k # l => object'[k] = object[k]
  BY <1>1, <1>4
<1>11. object' \in [Levels -> Securables \cup {Nothing}]
  BY <1>1, <1>4, <1>8
<1> QED BY <1>1, <1>5, <1>8, <1>9, <1>10, <1>11

LEMMA PlaceFacts ==
  ASSUME AccessInv, NEW a \in Others, NEW l \in Levels \ {1}, Place(a, l)
  PROVE  /\ \A k \in Levels : k # l => object'[k] = object[k]
         /\ ~There(l) /\ There(l - 1) /\ MayAdd(a, l - 1) /\ l - 1 \in Levels /\ There(l)'
         /\ object'[l].owner = OwnerSid(a) /\ object'[l].rewriters = {a} /\ object'[l].policy = Nothing
         /\ object' \in [Levels -> Securables \cup {Nothing}]
<1>1. l \in Nat /\ l - 1 \in Levels /\ object \in [Levels -> Securables \cup {Nothing}]
  BY WindowsAccessAssumption DEF Levels, AccessInv, AccessTypes
<1>2. ~There(l) /\ MayAdd(a, l - 1) /\ There(l - 1)
  BY DEF Place, There, MayAdd
<1>3. a \in Processes /\ OwnerSid(a) \in Identities /\ System \in Identities
  BY OthersAreStrange, TokenFacts DEF Identities, Privileged
<1>4. object[l - 1] \in Securables
  BY <1>1, <1>2 DEF There
<1>5. Directory(l) \in BOOLEAN
  BY DEF Directory
<1>6. ASSUME NEW o, o \in Securables, o.owner = OwnerSid(a), o.rewriters = {a}, o.policy = Nothing,
             object' = [object EXCEPT ![l] = o]
      PROVE  /\ \A k \in Levels : k # l => object'[k] = object[k]
             /\ There(l)' /\ object'[l].owner = OwnerSid(a) /\ object'[l].rewriters = {a} /\ object'[l].policy = Nothing
             /\ object' \in [Levels -> Securables \cup {Nothing}]
  <2>1. object'[l] = o /\ o # Nothing
    BY <1>1, <1>6, WindowsAccessAssumption
  <2> QED BY <1>1, <1>6, <2>1 DEF There
<1>7. CASE object' = [object EXCEPT ![l] = [Inheriting(a, l, Nothing) EXCEPT !.rewriters = {a}]]
  <2>1. PICK list : list = IF object[l - 1].inherit THEN object[l - 1].list ELSE Grant({System, OwnerSid(a)}, "full")
    OBVIOUS
  <2>2. {System, OwnerSid(a)} \in SUBSET (Identities \cup {OwnerRights})
    BY <1>3
  <2>3. Grant({System, OwnerSid(a)}, "full") \in AccessLists
    BY <2>2, GrantFacts
  <2>4. list \in AccessLists
    BY <1>4, <2>1, <2>3 DEF Securables
  <2> DEFINE inherit == Directory(l) /\ object[l - 1].inherit
  <2>5. inherit \in BOOLEAN
    BY <1>5
  <2>6. Inheriting(a, l, Nothing) =
          [owner |-> OwnerSid(a), protected |-> FALSE, inherit |-> inherit,
           list |-> IF object[l - 1].inherit THEN object[l - 1].list ELSE Grant({System, OwnerSid(a)}, "full"),
           rewriters |-> {}, policy |-> Nothing]
    BY DEF Inheriting
  <2> HIDE DEF inherit
  <2>7. PICK r : r = Inheriting(a, l, Nothing)
    OBVIOUS
  <2>8. r \in Securables /\ r.owner = OwnerSid(a) /\ r.policy = Nothing
    BY <1>3, <2>1, <2>4, <2>5, <2>6, <2>7 DEF Securables
  <2>9. PICK o : o = [r EXCEPT !.rewriters = {a}]
    OBVIOUS
  <2>10. o \in Securables /\ o.owner = OwnerSid(a) /\ o.rewriters = {a} /\ o.policy = Nothing
    BY <1>3, <2>8, <2>9 DEF Securables
  <2> QED BY <1>1, <1>2, <1>6, <1>7, <2>7, <2>9, <2>10
<1>8. ASSUME NEW list \in Lists(a), object' = [object EXCEPT ![l] = Protecting(OwnerSid(a), l, list, {a}, Nothing)]
      PROVE  /\ \A k \in Levels : k # l => object'[k] = object[k]
             /\ There(l)' /\ object'[l].owner = OwnerSid(a) /\ object'[l].rewriters = {a} /\ object'[l].policy = Nothing
             /\ object' \in [Levels -> Securables \cup {Nothing}]
  <2>1. PICK o : o = Protecting(OwnerSid(a), l, list, {a}, Nothing)
    OBVIOUS
  <2>2. list \in AccessLists
    BY ListsFacts
  <2>3. o \in Securables /\ o.owner = OwnerSid(a) /\ o.rewriters = {a} /\ o.policy = Nothing
    BY <1>3, <1>5, <2>1, <2>2 DEF Protecting, Securables
  <2> QED BY <1>6, <1>8, <2>1, <2>3
<1> QED BY <1>1, <1>2, <1>7, <1>8 DEF Place

\* What a program made is, in a service's path, shut to all others.
LEMMA OursInService ==
  ASSUME AccessInv, use = "service", NEW l \in Levels, There(l), object[l].policy # Nothing
  PROVE  object[l].list = Declared /\ object[l].rewriters = {}
<1>1. object[l] \in Securables
  BY DEF AccessInv, AccessTypes, There
<1>2. PICK policy \in Rules : policy = object[l].policy
  BY <1>1 DEF Securables
<1>3. Made(l, policy)
  BY <1>2 DEF AccessInv, Works
<1>4. PICK p \in Programs : policy \in Policies(p)
  BY <1>3 DEF Made
<1>5. policy \in ServicePolicies
  BY <1>4, ByUse
<1> QED BY <1>3, <1>5, ServiceAccepts DEF Made

LEMMA ShutToOthers ==
  ASSUME AccessInv, use = "service", NEW l \in Levels, There(l), object[l].policy # Nothing, NEW a \in Others
  PROVE  ~MayAdd(a, l) /\ ~MayRewrite(a, l)
BY OursInService, OthersAreStrange, StrangeAtDeclared

\* Only whom the policy trusts can change what a program made, and then it is no
\* longer as it was made.
LEMMA RewritesOurs ==
  ASSUME AccessInv, NEW a \in Others, NEW l \in Levels, Rewrite(a, l), object[l].policy # Nothing
  PROVE  use # "service" /\ object'[l].policy = Nothing
<1>1. There(l) /\ MayRewrite(a, l) /\ a \in Processes
  BY RewriteFacts, OthersAreStrange
<1>2. use # "service"
  BY <1>1, ShutToOthers
<1>3. object[l] \in Securables
  BY <1>1 DEF AccessInv, AccessTypes, There
<1>4. PICK policy \in Rules : policy = object[l].policy
  BY <1>3 DEF Securables
<1>5. Made(l, policy)
  BY <1>1, <1>4 DEF AccessInv, Works
<1>6. PICK p \in Programs : policy \in Policies(p)
  BY <1>5 DEF Made
<1>7. policy \in OwnPolicies(p)
  BY <1>2, <1>6, ByUse
<1>8. Closed(policy, l)
  BY <1>5, <1>7, OwnAccepts DEF Made
<1>9. Trusts(policy, a)
  BY <1>1, <1>8 DEF Closed
<1> QED BY <1>2, <1>4, <1>9, RewriteFacts

LEMMA MadeKept ==
  ASSUME NEW l, NEW policy, Made(l, policy), object'[l] = object[l], use' = use
  PROVE  Made(l, policy)'
<1>1. PICK p \in Programs : policy \in Policies(p)
  BY DEF Made
<1>2. (policy \in Policies(p))'
  BY <1>1, SameWay
<1> QED BY <1>2, SameThere DEF Made

LEMMA RemoveFacts ==
  ASSUME AccessInv, NEW a \in Others, NEW l \in Levels, Remove(a, l)
  PROVE  /\ \A k \in Levels : k # l => object'[k] = object[k]
         /\ ~There(l)' /\ (\A k \in Levels : k > l => ~There(k)) /\ (\A p \in Programs : Pins(p) < l)
         /\ object' \in [Levels -> Securables \cup {Nothing}]
BY DEF Remove, There, AccessInv, AccessTypes

LEMMA TreeThroughDeeds ==
  ASSUME AccessInv, NEW a \in Others, NEW l \in Levels \ {1}, Place(a, l) \/ Rewrite(a, l) \/ Remove(a, l)
  PROVE  Tree'
<1>t. /\ \A k, m \in Levels : k < m /\ There(m) => There(k)
      /\ object[1] = Ambient
      /\ \A m \in Levels : There(m) => \A b \in object[m].rewriters : b \in Others /\ object[m].owner = OwnerSid(b)
  BY DEF AccessInv, Tree
<1>0. 1 \in Levels /\ l \in Nat /\ \A k \in Levels : k \in Nat
  BY WindowsAccessAssumption DEF Levels
<1>1. CASE Place(a, l)
  <2>1. \A k \in Levels : k < l => There(k)
    <3>1. \A k \in Levels : k < l => k = l - 1 \/ k < l - 1
      BY <1>0
    <3> QED BY <1>1, <1>t, <3>1, PlaceFacts
  <2>2. \A k \in Levels : k # l => object'[k] = object[k]
    BY <1>1, PlaceFacts
  <2>3. There(l)' /\ object'[l].owner = OwnerSid(a) /\ object'[l].rewriters = {a}
    BY <1>1, PlaceFacts
  <2>4. ASSUME NEW k \in Levels, NEW m \in Levels, k < m, There(m)'
        PROVE  There(k)'
    <3>1. m = l \/ There(m)
      BY <2>2, <2>4 DEF There
    <3>2. k = l \/ There(k)
      BY <1>t, <2>1, <2>4, <3>1
    <3> QED BY <2>2, <2>3, <3>2 DEF There
  <2>5. object'[1] = Ambient
    BY <1>0, <1>t, <2>2
  <2>6. ASSUME NEW m \in Levels, There(m)', NEW b \in object'[m].rewriters
        PROVE  b \in Others /\ object'[m].owner = OwnerSid(b)
    BY <1>t, <2>2, <2>3, <2>6 DEF There
  <2> QED BY <2>4, <2>5, <2>6 DEF Tree
<1>2. CASE Rewrite(a, l)
  <2>1. \A k \in Levels : There(k)' => There(k)
    BY <1>2, RewriteFacts DEF There
  <2>2. \A k \in Levels : There(k) => There(k)'
    <3>1. object'[l] \in Securables /\ Nothing \notin Securables
      BY <1>2, RewriteFacts, WindowsAccessAssumption
    <3> QED BY <1>2, <3>1, RewriteFacts DEF There
  <2>3. \A k \in Levels : object'[k].owner = object[k].owner /\ object'[k].rewriters = object[k].rewriters
    BY <1>2, RewriteFacts
  <2>4. object'[1] = Ambient
    BY <1>0, <1>2, <1>t, RewriteFacts
  <2> QED BY <1>t, <2>1, <2>2, <2>3, <2>4 DEF Tree
<1>3. CASE Remove(a, l)
  <2>1. \A k \in Levels : k # l => object'[k] = object[k]
    BY <1>3, RemoveFacts
  <2>2. ~There(l)' /\ \A k \in Levels : k > l => ~There(k)
    BY <1>3, RemoveFacts
  <2>3. ASSUME NEW k \in Levels, NEW m \in Levels, k < m, There(m)'
        PROVE  There(k)'
    <3>1. m # l /\ There(m)
      BY <2>1, <2>2, <2>3 DEF There
    <3>2. There(k) /\ k # l
      BY <1>t, <2>2, <2>3, <3>1
    <3> QED BY <2>1, <3>2 DEF There
  <2>4. object'[1] = Ambient
    BY <1>0, <1>t, <2>1
  <2>5. ASSUME NEW m \in Levels, There(m)', NEW b \in object'[m].rewriters
        PROVE  b \in Others /\ object'[m].owner = OwnerSid(b)
    <3>1. m # l /\ There(m)
      BY <2>1, <2>2, <2>5 DEF There
    <3> QED BY <1>t, <2>1, <2>5, <3>1
  <2> QED BY <2>3, <2>4, <2>5 DEF Tree
<1> QED BY <1>1, <1>2, <1>3

LEMMA WorksThroughDeeds ==
  ASSUME AccessInv, NEW a \in Others, NEW l \in Levels \ {1}, Place(a, l) \/ Rewrite(a, l) \/ Remove(a, l)
  PROVE  Works'
<1>1. use' = use
  BY DEF Place, Rewrite, Remove, Deed
<1>2. \A k \in Levels : k # l => object'[k] = object[k]
  BY PlaceFacts, RewriteFacts, RemoveFacts
<1>3. There(l)' => object'[l].policy = Nothing
  <2>1. Place(a, l) => object'[l].policy = Nothing
    BY PlaceFacts
  <2>2. Rewrite(a, l) => object'[l].policy = Nothing
    BY RewriteFacts, RewritesOurs
  <2>3. Remove(a, l) => ~There(l)'
    BY RemoveFacts
  <2> QED BY <2>1, <2>2, <2>3
<1>4. ASSUME NEW m \in Levels, NEW policy \in Rules, There(m)', object'[m].policy = policy
      PROVE  Made(m, policy)'
  <2>1. m # l
    BY <1>3, <1>4, WindowsAccessAssumption
  <2>2. There(m) /\ object[m].policy = policy
    BY <1>2, <1>4, <2>1 DEF There
  <2>3. Made(m, policy)
    BY <2>2 DEF AccessInv, Works
  <2> QED BY <1>1, <1>2, <2>1, <2>3, MadeKept
<1> QED BY <1>4 DEF Works

LEMMA ForeignThroughDeeds ==
  ASSUME AccessInv, NEW a \in Others, NEW l \in Levels \ {1}, Place(a, l) \/ Rewrite(a, l) \/ Remove(a, l)
  PROVE  Foreign'
<1>0. use' = use /\ l \in Nat /\ \A k \in Levels : k \in Nat
  <2>1. use' = use
    BY DEF Place, Rewrite, Remove, Deed
  <2> QED BY <2>1, WindowsAccessAssumption DEF Levels
<1> SUFFICES ASSUME use = "service"
             PROVE  /\ \A m \in Levels : m > 1 /\ There(m)' /\ object'[m].policy = Nothing =>
                         \E b \in Others : object'[m].owner = OwnerSid(b)
                    /\ \A k, m \in Levels : k < m /\ There(k)' /\ There(m)' /\ object'[k].policy # Nothing =>
                         object'[m].policy # Nothing
  BY <1>0 DEF Foreign
<1>1. /\ \A m \in Levels : m > 1 /\ There(m) /\ object[m].policy = Nothing =>
           \E b \in Others : object[m].owner = OwnerSid(b)
      /\ \A k, m \in Levels : k < m /\ There(k) /\ There(m) /\ object[k].policy # Nothing =>
           object[m].policy # Nothing
  BY DEF AccessInv, Foreign
<1>2. \A k \in Levels : k # l => object'[k] = object[k]
  BY PlaceFacts, RewriteFacts, RemoveFacts
<1>3. CASE Place(a, l)
  <2>1. There(l - 1) /\ l - 1 \in Levels /\ object[l - 1].policy = Nothing
    BY <1>3, PlaceFacts, ShutToOthers
  <2>2. object'[l].owner = OwnerSid(a) /\ object'[l].policy = Nothing
    BY <1>3, PlaceFacts
  <2>3. \A k \in Levels : k < l => k = l - 1 \/ k < l - 1
    BY <1>0
  <2>4. \A k \in Levels : k < l /\ There(k) => object[k].policy = Nothing
    BY <1>1, <2>1, <2>3
  <2>5. \A m \in Levels : m # l /\ There(m)' => There(m)
    BY <1>2 DEF There
  <2>6. ASSUME NEW k \in Levels, NEW m \in Levels, k < m, There(k)', There(m)', object'[k].policy # Nothing
        PROVE  object'[m].policy # Nothing
    <3>1. k # l /\ There(k) /\ object[k].policy # Nothing
      BY <1>2, <2>2, <2>5, <2>6
    <3>2. m # l
      BY <2>4, <2>6, <3>1
    <3> QED BY <1>1, <1>2, <2>5, <2>6, <3>1, <3>2
  <2> QED BY <1>1, <1>2, <2>2, <2>5, <2>6
<1>4. CASE Rewrite(a, l)
  <2>1. There(l) /\ object[l].policy = Nothing /\ object'[l].policy = Nothing
    BY <1>4, RewriteFacts, RewritesOurs
  <2>2. object'[l].owner = object[l].owner
    BY <1>4, RewriteFacts
  <2>3. \A m \in Levels : /\ There(m)' => There(m)
                          /\ object'[m].policy = object[m].policy /\ object'[m].owner = object[m].owner
    BY <1>2, <2>1, <2>2 DEF There
  <2> QED BY <1>1, <2>3
<1>5. CASE Remove(a, l)
  <2>1. \A m \in Levels : There(m)' => m # l /\ There(m) /\ object'[m] = object[m]
    BY <1>2, <1>5, RemoveFacts DEF There
  <2> QED BY <1>1, <2>1
<1> QED BY <1>3, <1>4, <1>5

\* The chain that a service's call relies on is made by programs, all of it.
LEMMA ChainIsOurs ==
  ASSUME AccessInv, use = "service", NEW policy \in ServicePolicies, NEW l \in Levels, NEW anchor \in 1..l,
         ChainVerified(policy, anchor, l)
  PROVE  \A k \in anchor..l :
           k \in Levels /\ There(k) /\ object[k].policy # Nothing /\ object[k].list = Declared /\ object[k].rewriters = {}
<1>0. l \in Nat /\ anchor \in Levels /\ (\A k \in anchor..l : k \in Levels) /\ (\A k \in Levels : k \in Nat /\ k >= 1)
      /\ anchor \in anchor..l
  BY WindowsAccessAssumption DEF Levels
<1>1. \A k \in anchor..l : Accepted(policy, k)
  BY DEF ChainVerified
<1>2. \A k \in anchor..l : There(k) /\ object[k].list = Declared
  BY <1>0, <1>1, ServiceAccepts
<1>3. object[anchor].owner \in Privileged \cup {Service}
  <2>1. OfService(policy) /\ policy.service = Service
    BY ServicePolicyFacts
  <2> QED BY <2>1 DEF ChainVerified, Anchors, AcceptsAnchorOwner
<1>4. anchor > 1
  <2>1. anchor # 1
    BY <1>0, <1>2, AmbientFacts DEF AccessInv, Tree
  <2> QED BY <1>0, <2>1
<1>5. object[anchor].policy # Nothing
  <2>1. \A a \in Others : object[anchor].owner # OwnerSid(a)
    BY <1>3, OthersAreStrange, TokenFacts DEF Strange
  <2> QED BY <1>0, <1>2, <1>4, <2>1 DEF AccessInv, Foreign
<1>6. ASSUME NEW k \in anchor..l
      PROVE  object[k].policy # Nothing
  <2>1. k = anchor \/ anchor < k
    BY <1>0
  <2> QED BY <1>0, <1>2, <1>5, <2>1 DEF AccessInv, Foreign
<1> QED BY <1>0, <1>2, <1>6, OursInService

\* What is pinned and made by programs stays through whatever the others do.
LEMMA ChainThroughDeeds ==
  ASSUME AccessInv, use = "service", NEW policy \in ServicePolicies, NEW l \in Levels, NEW anchor \in 1..l,
         ChainVerified(policy, anchor, l), NEW p \in Programs, Pins(p) >= l, Pins(p) \in Nat,
         NEW a \in Others, NEW m \in Levels \ {1}, Place(a, m) \/ Rewrite(a, m) \/ Remove(a, m)
  PROVE  ChainVerified(policy, anchor, l)'
<1>0. l \in Nat /\ anchor \in Nat /\ anchor <= l /\ m \in Nat
  BY WindowsAccessAssumption DEF Levels
<1>1. \A k \in anchor..l : k \in Levels /\ There(k) /\ object[k].policy # Nothing
  BY ChainIsOurs
<1>2. m \notin anchor..l
  <2>1. CASE Place(a, m)
    BY <1>1, <2>1, PlaceFacts
  <2>2. CASE Rewrite(a, m)
    BY <1>1, <2>2, RewritesOurs
  <2>3. CASE Remove(a, m)
    <3>1. Pins(p) < m
      BY <2>3, RemoveFacts
    <3> QED BY <1>0, <3>1
  <2> QED BY <2>1, <2>2, <2>3
<1>3. \A k \in Levels : k # m => object'[k] = object[k]
  BY PlaceFacts, RewriteFacts, RemoveFacts
<1>4. \A k \in anchor..l : There(k) => object'[k] = object[k]
  BY <1>1, <1>2, <1>3
<1> QED BY <1>0, <1>4, ChainKept

\* A trusted process runs as the built-in account, and the lists it may give let in
\* nobody whom the policy does not trust.
LEMMA ClosedThroughRewrite ==
  ASSUME AccessInv, NEW p \in Programs, NEW policy \in OwnPolicies(p), NEW l \in Levels, Closed(policy, l),
         NEW a \in Others, Rewrite(a, l)
  PROVE  Closed(policy, l)'
<1>1. Trusts(policy, a)
  BY OthersAreStrange, RewriteFacts DEF Closed
<1>2. UserSid(a) = Account /\ Account \in Grantees(policy)
  BY <1>1, TrustedOthers
<1>3. Privileged \subseteq Grantees(policy) /\ OwnerRights \notin Grantees(policy)
  BY OwnPolicyFacts
<1>4. PICK o : o = object'[l]
  OBVIOUS
<1>5. o \in Securables /\ o # Nothing /\ o.owner = object[l].owner /\ o.rewriters = object[l].rewriters /\ o.list \in Lists(a)
  BY <1>4, RewriteFacts, WindowsAccessAssumption
<1>6. DOMAIN o.list \subseteq Grantees(policy) \cup {Service, OwnerRights}
  BY <1>2, <1>3, <1>5, ListsFacts
<1>7. o.owner \in Grantees(policy)
  BY <1>5 DEF Closed
<1>8. ASSUME NEW b \in Processes, ~Trusts(policy, b)
      PROVE  ~(MayWrite(b, l) \/ MayRewrite(b, l))'
  <2>1. Sids(b) \cap Grantees(policy) = {}
    BY <1>8 DEF Trusts
  <2>2. Service \notin Sids(b) /\ OwnerRights \notin Sids(b)
    BY <1>2, <2>1, TokenFacts
  <2>3. Sids(b) \cap DOMAIN o.list = {} /\ o.owner \notin Sids(b)
    BY <1>6, <1>7, <2>1, <2>2
  <2>4. Allowed(b, l)' = {}
    BY <1>4, <2>3 DEF Allowed
  <2>5. b \notin o.rewriters
    BY <1>5, <1>8 DEF Closed, MayRewrite
  <2> QED BY <1>4, <2>4, <2>5 DEF MayWrite, MayRewrite
<1>9. There(l)'
  BY <1>4, <1>5 DEF There
<1> QED BY <1>4, <1>7, <1>8, <1>9 DEF Closed

LEMMA ReliesThroughDeeds ==
  ASSUME AccessInv, NEW p \in Programs,
         NEW a \in Others, NEW m \in Levels \ {1}, Place(a, m) \/ Rewrite(a, m) \/ Remove(a, m)
  PROVE  Relies(p, call[p])'
<1>0. use' = use /\ call' = call /\ Depth \in Nat
  BY WindowsAccessAssumption DEF Place, Rewrite, Remove, Deed
<1>1. PICK c \in Callings : c = call[p]
  BY DEF AccessInv, AccessTypes
<1>2. Relies(p, c)
  BY <1>1 DEF AccessInv, Reliable
<1> SUFFICES ASSUME c.at # "idle"
             PROVE  Relies(p, c)'
  BY <1>0, <1>1 DEF Relies
<1>3. c.policy \in Policies(p) /\ c.level \in 2..Depth /\ c.anchor \in 1..c.level
  BY <1>2 DEF Relies
<1>4. c.level \in Nat /\ c.level \in Levels /\ c.level - 1 \in Levels /\ \A k \in c.anchor..c.level : k \in Levels
  BY <1>0, <1>3 DEF Levels
<1>5. c.policy \in IF OfService(c.policy) THEN ServicePolicies ELSE OwnPolicies(p)
  BY <1>3, ByUse
<1>6. OfService(c.policy) <=> use = "service"
  BY <1>3, ByUse
<1>7. c.at = "make" /\ OfService(c.policy) => ChainVerified(c.policy, c.anchor, c.level - 1)'
  <2> SUFFICES ASSUME c.at = "make", OfService(c.policy)
               PROVE  ChainVerified(c.policy, c.anchor, c.level - 1)'
    OBVIOUS
  <2>1. c.anchor < c.level /\ ChainVerified(c.policy, c.anchor, c.level - 1)
    BY <1>2 DEF Relies
  <2>2. c.anchor \in 1..(c.level - 1)
    BY <1>3, <1>4, <2>1
  <2>3. Pins(p) = c.level - 1 /\ Pins(p) \in Nat /\ Pins(p) >= c.level - 1
    BY <1>1, <1>3, <1>4 DEF Pins, Holds
  <2> QED BY <1>4, <1>5, <1>6, <2>1, <2>2, <2>3, ChainThroughDeeds
<1>8. c.at = "held" /\ OfService(c.policy) => ChainVerified(c.policy, c.anchor, c.level)'
  <2> SUFFICES ASSUME c.at = "held", OfService(c.policy)
               PROVE  ChainVerified(c.policy, c.anchor, c.level)'
    OBVIOUS
  <2>1. ChainVerified(c.policy, c.anchor, c.level)
    BY <1>2 DEF Relies
  <2>2. Pins(p) = c.level /\ Pins(p) \in Nat /\ Pins(p) >= c.level
    BY <1>1, <1>4 DEF Pins, Holds
  <2> QED BY <1>3, <1>4, <1>5, <1>6, <2>1, <2>2, ChainThroughDeeds
<1>9. c.at = "held" /\ ~OfService(c.policy) => \A k \in c.anchor..c.level : Closed(c.policy, k)'
  <2> SUFFICES ASSUME c.at = "held", ~OfService(c.policy), NEW k \in c.anchor..c.level
               PROVE  Closed(c.policy, k)'
    OBVIOUS
  <2>1. Closed(c.policy, k) /\ There(k) /\ k \in Levels /\ k \in Nat /\ k <= c.level
    BY <1>2, <1>3, <1>4 DEF Relies, Closed
  <2>2. CASE k # m
    <3>1. object'[k] = object[k]
      BY <2>1, <2>2, PlaceFacts, RewriteFacts, RemoveFacts
    <3> QED BY <2>1, <3>1, SameThere
  <2>3. CASE k = m
    <3>1. ~Place(a, m)
      BY <2>1, <2>3, PlaceFacts
    <3>2. ~Remove(a, m)
      <4>1. Pins(p) = c.level
        BY <1>1 DEF Pins, Holds
      <4> QED BY <1>4, <2>1, <2>3, <4>1, RemoveFacts
    <3>3. Rewrite(a, k)
      BY <2>3, <3>1, <3>2
    <3> QED BY <1>5, <2>1, <3>3, ClosedThroughRewrite
  <2> QED BY <2>2, <2>3
<1> QED BY <1>0, <1>2, <1>7, <1>8, <1>9, ReliesAgain

LEMMA DeedsKeep ==
  ASSUME AccessInv, NEW a \in Others, NEW l \in Levels \ {1}, Place(a, l) \/ Rewrite(a, l) \/ Remove(a, l)
  PROVE  AccessInv'
<1>1. UNCHANGED <<call, use>>
  BY DEF Place, Rewrite, Remove, Deed
<1>2. object' \in [Levels -> Securables \cup {Nothing}]
  BY PlaceFacts, RewriteFacts, RemoveFacts
<1>3. AccessTypes'
  BY <1>1, <1>2 DEF AccessInv, AccessTypes
<1>4. Reliable'
  BY ReliesThroughDeeds DEF Reliable
<1> QED BY <1>3, <1>4, TreeThroughDeeds, WorksThroughDeeds, ForeignThroughDeeds DEF AccessInv

LEMMA StepKeepsAccess == AccessInv /\ [AccessNext]_accessVars => AccessInv'
<1> SUFFICES ASSUME AccessInv, [AccessNext]_accessVars
             PROVE  AccessInv'
  OBVIOUS
<1>1. ASSUME NEW p \in Programs, NEW l \in Levels \ {1}, Directory(l),
             NEW policy, policy \in StatePolicies(p), OpenRoot(p, policy, l)
      PROVE  AccessInv'
  BY <1>1, OpenRootKeeps
<1>2. ASSUME NEW p \in Programs, NEW l \in Levels \ {1}, Directory(l),
             NEW policy, policy \in LogPolicies(p), OpenLog(p, policy, l)
      PROVE  AccessInv'
  BY <1>2, OpenLogKeeps
<1>3. ASSUME NEW p \in Programs, Below(p)
      PROVE  AccessInv'
  BY <1>3, BelowKeeps
<1>4. ASSUME NEW p \in Programs, Make(p)
      PROVE  AccessInv'
  BY <1>4, MakeKeeps
<1>5. ASSUME NEW p \in Programs, Check(p)
      PROVE  AccessInv'
  BY <1>5, CheckKeeps
<1>6. ASSUME NEW p \in Programs, Leave(p)
      PROVE  AccessInv'
  BY <1>6, LeaveKeeps
<1>7. ASSUME NEW a \in Processes \ Programs, Deeds(a)
      PROVE  AccessInv'
  <2>1. PICK l \in Levels \ {1} : Place(a, l) \/ Rewrite(a, l) \/ Remove(a, l)
    BY <1>7 DEF Deeds
  <2> QED BY <2>1, DeedsKeep DEF Others
<1>8. ASSUME UNCHANGED accessVars
      PROVE  AccessInv'
  <2>0. object' = object /\ call' = call /\ use' = use /\ Depth \in Nat
    BY <1>8, WindowsAccessAssumption DEF accessVars
  <2>1. AccessTypes' /\ Tree' /\ Foreign'
    BY <2>0 DEF AccessInv, AccessTypes, Tree, Foreign, There
  <2>2. ASSUME NEW l \in Levels, NEW policy \in Rules, There(l), object[l].policy = policy
        PROVE  Made(l, policy)'
    <3>1. Made(l, policy)
      BY <2>2 DEF AccessInv, Works
    <3> QED BY <2>0, <3>1, MadeKept
  <2>3. Works'
    BY <2>0, <2>2 DEF Works, There
  <2>4. ASSUME NEW p \in Programs
        PROVE  Relies(p, call[p])'
    <3>1. PICK c \in Callings : c = call[p]
      BY DEF AccessInv, AccessTypes
    <3>2. Relies(p, c)
      BY <3>1 DEF AccessInv, Reliable
    <3>3. Relies(p, c)'
      BY <2>0, <3>2, ReliesKept
    <3> QED BY <2>0, <3>1, <3>3 DEF Relies
  <2>5. Reliable'
    BY <2>4 DEF Reliable
  <2> QED BY <2>1, <2>3, <2>5 DEF AccessInv
<1> QED BY <1>1, <1>2, <1>3, <1>4, <1>5, <1>6, <1>7, <1>8 DEF AccessNext

-----------------------------------------------------------------------------
\* Theorems, for any tokens, programs, depth and number of deeds.

\* Through whatever programs and other processes do in any order: the directories
\* form one path below the public one; what a program made is accepted until somebody
\* whom its policy trusts changes it; in a service's path what others made stays theirs
\* and above all that is ours; and what a call relies on still holds
\* (src/src/fs_safety/windows.rs, src/src/log/windows_rotating.rs).
THEOREM AccessInductive == AccessSpec => []AccessInv
BY AccessInitHolds, StepKeepsAccess, PTL DEF AccessSpec

\* Nobody whom the policy does not trust can write what a program holds, or change its
\* list, by a right or by a handle from before: verify_chain and verify_directory
\* authenticate the whole chain from the anchor down.
THEOREM HeldIsPrivate == AccessSpec => []HeldStaysPrivate
<1>1. AccessInv => HeldStaysPrivate
  <2> SUFFICES ASSUME AccessInv, NEW p \in Programs, call[p].at = "held", NEW k \in call[p].anchor..call[p].level,
                      NEW a \in Processes, ~Trusts(call[p].policy, a)
               PROVE  ~(MayWrite(a, k) \/ MayRewrite(a, k))
    BY DEF HeldStaysPrivate, Holds
  <2>1. PICK c \in Callings : c = call[p]
    BY DEF AccessInv, AccessTypes
  <2>2. Relies(p, c) /\ c.at = "held"
    BY <2>1 DEF AccessInv, Reliable
  <2>3. c.policy \in Policies(p) /\ c.level \in 2..Depth /\ c.anchor \in 1..c.level
    BY <2>2 DEF Relies
  <2>4. CASE OfService(c.policy)
    <3>1. use = "service" /\ c.policy \in ServicePolicies /\ c.level \in Levels
      BY <2>3, <2>4, ByUse, WindowsAccessAssumption DEF Levels
    <3>2. ChainVerified(c.policy, c.anchor, c.level)
      BY <2>2, <2>4 DEF Relies
    <3>3. k \in Levels /\ There(k) /\ object[k].list = Declared /\ object[k].rewriters = {}
      BY <2>1, <2>3, <3>1, <3>2, ChainIsOurs
    <3>4. Strange(a)
      BY <2>1, <3>1, ServicePolicyFacts DEF Trusts, Strange
    <3> QED BY <3>3, <3>4, StrangeAtDeclared
  <2>5. CASE ~OfService(c.policy)
    <3>1. Closed(c.policy, k)
      BY <2>1, <2>2, <2>5 DEF Relies
    <3> QED BY <2>1, <3>1 DEF Closed
  <2> QED BY <2>4, <2>5
<1> QED BY <1>1, AccessInductive, PTL

LEMMA TheTwoAgree == AccessInv => PoliciesAgree
<1> SUFFICES ASSUME AccessInv, NEW l \in Levels, Directory(l)
             PROVE  AnchorsOf(ForService, l) = AnchorsOf(LogForService, l)
  BY DEF PoliciesAgree
<1>1. /\ ForService \in ServicePolicies /\ LogForService \in ServicePolicies
      /\ ForService.principals = Privileged \cup {Service, Account} /\ LogForService.owner = Account
      /\ ~OfLog(ForService) /\ OfLog(LogForService)
  <2>1. ForService \in ServicePolicies /\ LogForService \in ServicePolicies
    BY DEF ServicePolicies
  <2>2. ForService.principals = Privileged \cup {Service, Account} /\ LogForService.owner = Account
        /\ ForService.owner = Nothing
    BY DEF ForService, LogForService, Policy
  <2>3. Account # Nothing
    BY WindowsAccessAssumption DEF Identities
  <2> QED BY <2>1, <2>2, <2>3 DEF OfLog
<1>2. ASSUME NEW k \in 1..l
      PROVE  /\ Accepted(ForService, k) <=> Accepted(LogForService, k)
             /\ Anchors(ForService, k) <=> Anchors(LogForService, k)
  <2>1. Directory(k)
    BY WindowsAccessAssumption DEF Levels, Directory
  <2>2. \A policy \in ServicePolicies : AcceptsAnchorOwner(policy, object[k].owner) <=> object[k].owner \in Privileged \cup {Service}
    BY ServicePolicyFacts DEF AcceptsAnchorOwner
  <2>3. StateAccepted(ForService, k) <=>
          object[k].owner \in Privileged \cup {Service, Account} /\ object[k].list = Declared /\ object[k].inherit = Directory(k)
    BY <1>1, ServicePolicyFacts DEF StateAccepted
  <2>4. LogAccepted(LogForService, k) <=>
          object[k].owner \in Privileged \cup {Service, Account} /\ object[k].list = Declared /\ object[k].inherit = Directory(k)
    BY <1>1, <2>1, <2>2, ServicePolicyFacts DEF LogAccepted
  <2> QED BY <1>1, <2>2, <2>3, <2>4 DEF Accepted, Anchors
<1>3. ASSUME NEW k \in 1..l, NEW j \in k..l
      PROVE  j \in 1..l
  BY WindowsAccessAssumption DEF Levels
<1>4. AnchorsOf(ForService, l) = {k \in 1..l : (\A j \in k..l : Accepted(ForService, j)) /\ Anchors(ForService, k)}
  BY <1>1, ServicePolicyFacts DEF AnchorsOf
<1>5. AnchorsOf(LogForService, l) = {k \in 1..l : (\A j \in k..l : Accepted(LogForService, j)) /\ Anchors(LogForService, k)}
  BY <1>1, ServicePolicyFacts DEF AnchorsOf
<1>6. \A k \in 1..l : (\A j \in k..l : Accepted(ForService, j)) <=> (\A j \in k..l : Accepted(LogForService, j))
  BY <1>2, <1>3
<1> QED BY <1>2, <1>4, <1>5, <1>6

\* What a program makes passes its own verification until somebody it trusts changes
\* it, and the two implementations of the service's policy authenticate the same
\* directories by the same anchors (verify_acl of both modules).
THEOREM PoliciesAlwaysFit == AccessSpec => []PoliciesFit
<1>1. AccessInv => OwnWorkIsAccepted
  <2> SUFFICES ASSUME AccessInv, NEW l \in Levels, object[l] # Nothing, object[l].policy # Nothing
               PROVE  Accepted(object[l].policy, l)
    BY DEF OwnWorkIsAccepted
  <2>1. object[l] \in Securables
    BY DEF AccessInv, AccessTypes
  <2>2. PICK policy \in Rules : policy = object[l].policy
    BY <2>1 DEF Securables
  <2>3. Made(l, policy)
    BY <2>2 DEF AccessInv, Works, There
  <2> QED BY <2>2, <2>3 DEF Made
<1>2. AccessInv => PoliciesFit
  BY <1>1, TheTwoAgree DEF PoliciesFit
<1> QED BY <1>2, AccessInductive, PTL

-----------------------------------------------------------------------------
\* The invariant of the publications.

Files == [ino : Objects, text : SUBSET Nat, meta : Metas, synced : BOOLEAN]
Folders == [Names -> Objects \cup {None}]
Expectations == [ino : Objects, meta : Metas, links : Nat]
Jobs ==
  [locked : BOOLEAN, update : Nat, seen : SUBSET Nat, create : BOOLEAN, opened : Objects \cup {None},
   held : BOOLEAN, expected : Expectations \cup {None}, temp : Temporaries \cup {None}, late : BOOLEAN]

Waiting == {"idle", "lockopen", "lockown", "lockwait", "unlock"}
Deciding == {"reopen", "prepare", "write", "revalidate", "publish"}
Filled == {"revalidate", "publish"}
After == {"linksync", "unlink", "confirm", "syncdir"}
Making == {"mkdir", "opendir", "owndir", "checkdir"}
Calling == Waiting \cup {"locksync", "open", "read", "cleanup"} \cup Deciding \cup After \cup Making

\* What is there and who is where, as far as their form goes.
FolderTypes ==
  /\ dirs \in Seq(Folders) /\ dirs # <<>>
  /\ file \in [Objects -> Files]

CountTypes ==
  /\ platform \in {"linux", "unix", "windows"} /\ kind \in {"private", "configuration", "child"}
  /\ holder \in Procs \cup {None} /\ acked \subseteq Nat
  /\ updates \in Nat /\ mishaps \in 0..MaxMishaps /\ edited \in BOOLEAN

ProcTypes == pc \in [Procs -> Calling] /\ job \in [Procs -> Jobs]

\* What a call at h remembers: who gets where with what.
Shape(p, h, j) ==
  /\ j.locked => j.update # 0 /\ ~Child
  /\ Configuration /\ j.update # 0 => j.locked
  /\ j.create => j.update # 0
  /\ j.temp # None => j.temp[1] = p /\ ~Child
  /\ h \in {"write", "linksync", "unlink", "confirm", "cleanup"} \cup Filled => j.temp # None
  /\ j.temp # None => h \in {"write", "cleanup"} \cup Filled \cup After
  /\ h \in {"lockopen", "lockown", "lockwait", "locksync", "open", "read", "mkdir"} => ~j.create
  /\ h = "idle" => ~j.locked /\ ~j.create
  /\ h \in {"lockopen", "lockown", "lockwait", "locksync", "open", "read"} => ~Child
  /\ h = "reopen" => j.locked /\ Configuration
  /\ h \in Deciding => j.locked \/ j.create
  /\ h \in Deciding \cup After \cup {"mkdir"} => j.update # 0
  /\ h \in Making => Child
  /\ h \in (Deciding \cup After) \ {"syncdir"} => ~Child
  /\ Child /\ h \in {"owndir", "syncdir"} => j.create
  /\ h \in {"read", "owndir", "checkdir"} => j.opened \in Objects
  /\ h = "read" => j.held
  /\ j.expected # None => j.expected.meta \in {"private", "shared"}
  /\ h \in {"linksync", "unlink"} => platform = "unix"

\* Transactions exclude each other.
Exclusive(p, h, j) == j.locked /\ h \notin Waiting => holder = p

\* A temporary is its writer's alone, and complete once it has been written.
Private(h, j) ==
  h \in {"write"} \cup Filled =>
    /\ names[j.temp] # None
    /\ \A d \in Possible : d[document] # names[j.temp]
    /\ h \in Filled =>
         /\ file[names[j.temp]].synced /\ file[names[j.temp]].text = j.seen \cup {j.update}
         /\ file[names[j.temp]].meta \in {"private", "shared"}

\* On Windows the name stays where the open file is.
Looking(h, j) == Windows /\ h = "read" => j.opened = Document

\* A transaction has read what is still there, and what has been published is there.
Done(h, j) == h \in After \/ (h \in Making /\ j.create)
Based(h, j) ==
  ~edited =>
    /\ h \in Deciding /\ j.locked /\ ~j.create => Document # None /\ j.seen = file[Document].text
    /\ h = "reopen" /\ j.create => Document = None
    /\ Done(h, j) => Document # None /\ j.update \in file[Document].text

Ongoing(p, h, j) ==
  Shape(p, h, j) /\ Exclusive(p, h, j) /\ Private(h, j) /\ Looking(h, j) /\ Based(h, j)
Working == \A p \in Procs : Ongoing(p, pc[p], job[p])

\* Two names of a file are those of a publication by a link.
Shared(d) ==
  \A n, m \in Names : n # m /\ d[n] = d[m] /\ d[n] # None =>
    platform = "unix" /\ ((n = document /\ m \in Temporaries) \/ (m = document /\ n \in Temporaries))
Sound(d) ==
  LET o == d[document] IN o # None =>
    /\ file[o].synced /\ file[o].text # Torn
    /\ file[o].meta = "open" => edited
    /\ file[o].meta = "root" => Child
Whole == \A d \in Possible : Shared(d) /\ Sound(d)

\* While nothing goes wrong, the second name is about to go, and a directory of
\* root's is about to be handed over.
Linking(h, j, n, m) == h \in {"linksync", "unlink"} /\ j.opened = names[n] /\ j.temp \in {n, m}
Paired ==
  mishaps = 0 =>
    \A n, m \in Names : n # m /\ names[n] = names[m] /\ names[n] # None =>
      \E p \in Procs : Linking(pc[p], job[p], n, m)
Handing(h, j) == j.create /\ (h = "opendir" \/ (h = "owndir" /\ j.opened = Document))
HandedOver ==
  mishaps = 0 /\ Child =>
    /\ \A d \in Possible : d[document] \in {None, Document}
    /\ Document # None /\ file[Document].meta = "root" => \E p \in Root : Handing(pc[p], job[p])

PublicationInv ==
  FolderTypes /\ CountTypes /\ ProcTypes /\ Working /\ Whole /\ Paired /\ HandedOver /\ AcknowledgedStays

-----------------------------------------------------------------------------
\* Names and directories.

LEMMA NamesAreApart ==
  /\ document \in Names /\ lock \in Names /\ document # lock
  /\ document \notin Temporaries /\ lock \notin Temporaries
  /\ \A n \in Temporaries : n \in Names /\ n[1] \in Procs
  /\ None \notin Objects /\ None \notin Temporaries
<1>1. "document" \notin Procs /\ "lock" \notin Procs /\ None \notin Objects
  BY FilePublicationAssumption DEF Objects
<1>2. document # lock
  BY DEF document, lock
<1>3. \A n \in Temporaries : n[1] \in Procs
  BY DEF Temporaries
<1>4. document[1] = "document" /\ lock[1] = "lock"
  BY DEF document, lock
<1>5. document \notin Temporaries /\ lock \notin Temporaries
  BY <1>1, <1>3, <1>4
<1>6. None \notin Temporaries
  BY FilePublicationAssumption DEF Temporaries
<1> QED BY <1>1, <1>2, <1>3, <1>5, <1>6 DEF Names

LEMMA NamesFacts ==
  ASSUME FolderTypes
  PROVE  names \in Folders /\ names \in Possible /\ \A d \in Possible : d \in Folders
<1>1. Len(dirs) \in DOMAIN dirs
  BY DEF FolderTypes
<1>2. \A k \in DOMAIN dirs : dirs[k] \in Folders
  BY DEF FolderTypes
<1> QED BY <1>1, <1>2 DEF names, Possible

LEMMA Appended ==
  ASSUME FolderTypes, NEW d \in Folders, dirs' = Append(dirs, d)
  PROVE  dirs' \in Seq(Folders) /\ dirs' # <<>> /\ names' = d /\ Possible' = Possible \cup {d}
<1>1. dirs \in Seq(Folders) /\ Len(dirs) \in Nat
  BY DEF FolderTypes
<1>2. /\ dirs' \in Seq(Folders) /\ dirs' # <<>> /\ Len(dirs') = Len(dirs) + 1
      /\ DOMAIN dirs' = DOMAIN dirs \cup {Len(dirs) + 1}
      /\ dirs'[Len(dirs) + 1] = d /\ \A k \in DOMAIN dirs : dirs'[k] = dirs[k]
  BY <1>1
<1>3. names' = d
  BY <1>2 DEF names
<1>4. Possible' = Possible \cup {d}
  BY <1>2 DEF Possible
<1> QED BY <1>2, <1>3, <1>4

LEMMA Replaced ==
  ASSUME NEW d \in Folders, dirs' = <<d>>
  PROVE  dirs' \in Seq(Folders) /\ dirs' # <<>> /\ names' = d /\ Possible' = {d}
<1>1. /\ dirs' \in Seq(Folders) /\ dirs' # <<>> /\ Len(dirs') = 1 /\ DOMAIN dirs' = {1} /\ dirs'[1] = d
  OBVIOUS
<1> QED BY <1>1 DEF names, Possible

LEMMA FreshIsNew ==
  ASSUME FolderTypes, ~(Objects \subseteq Existing)
  PROVE  /\ Fresh \in Objects /\ \A d \in Possible : \A n \in Names : d[n] # Fresh
         /\ \A p \in Procs : job[p].opened # Fresh
<1>1. Fresh \in Objects /\ Fresh \notin Existing
  BY DEF Fresh
<1>2. \A d \in Possible : \A n \in Names : d[n] \in Existing
  BY DEF Existing, Possible
<1>3. \A p \in Procs : job[p].opened \in Existing
  BY DEF Existing
<1> QED BY <1>1, <1>2, <1>3

LEMMA LinksAreCounted ==
  ASSUME NEW o
  PROVE  Links(o) \in Nat /\ (Links(o) > 1 => \E n, m \in Names : n # m /\ names[n] = o /\ names[m] = o)
<1>1. IsFiniteSet(Names)
  <2>1. IsFiniteSet(0..MaxMishaps)
    <3>1. MaxMishaps \in Nat
      BY FilePublicationAssumption
    <3> QED BY <3>1, FS_Interval
  <2>2. IsFiniteSet(Temporaries)
    BY <2>1, FilePublicationAssumption, FS_Product DEF Temporaries
  <2>3. IsFiniteSet({document, lock})
    <3>1. IsFiniteSet({document}) /\ IsFiniteSet({lock}) /\ {document, lock} = {document} \cup {lock}
      BY FS_Singleton
    <3>2. IsFiniteSet({document} \cup {lock})
      BY <3>1, FS_Union
    <3> QED BY <3>1, <3>2
  <2> QED BY <2>2, <2>3, FS_Union DEF Names
<1> DEFINE all == {n \in Names : names[n] = o}
<1>2. IsFiniteSet(all)
  BY <1>1, FS_Subset
<1>3. Cardinality(all) \in Nat
  BY <1>2, FS_CardinalityType
<1>4. ASSUME Cardinality(all) > 1
      PROVE  \E n, m \in all : n # m
  <2>1. all # {}
    BY <1>4, FS_EmptySet
  <2>2. PICK n \in all : TRUE
    BY <2>1
  <2>3. all # {n}
    <3>1. Cardinality({n}) = 1
      BY FS_Singleton
    <3> HIDE DEF all
    <3> QED BY <1>4, <3>1
  <2> QED BY <2>2, <2>3
<1> QED BY <1>3, <1>4 DEF Links

LEMMA PubInitHolds == Init => PublicationInv
<1> SUFFICES ASSUME Init PROVE PublicationInv
  OBVIOUS
<1>1. PICK d \in Folders : d = [n \in Names |-> None]
  BY DEF Folders
<1>2. dirs = <<d>> /\ names = d /\ Possible = {d} /\ dirs \in Seq(Folders) /\ dirs # <<>>
  <2>1. dirs = <<d>>
    BY <1>1 DEF Init
  <2> QED BY <2>1 DEF names, Possible
<1>3. Document = None /\ \A n \in Names : names[n] = None
  BY <1>1, <1>2, NamesAreApart DEF Document
<1>4. FolderTypes
  <2>1. \A o \in Objects : [ino |-> o, text |-> {}, meta |-> "private", synced |-> TRUE] \in Files
    BY DEF Files, Metas
  <2>2. file = [o \in Objects |-> [ino |-> o, text |-> {}, meta |-> "private", synced |-> TRUE]]
    BY DEF Init
  <2>3. file \in [Objects -> Files]
    BY <2>1, <2>2
  <2> QED BY <1>2, <2>3 DEF FolderTypes
<1>5. CountTypes
  <2>1. platform \in {"linux", "unix", "windows"}
    BY FilePublicationAssumption DEF Init
  <2>2. kind \in {"private", "configuration", "child"}
    BY DEF Init
  <2>3. 0 \in 0..MaxMishaps
    BY FilePublicationAssumption
  <2>4. holder = None /\ acked = {} /\ updates = 0 /\ mishaps = 0 /\ edited = FALSE
    BY DEF Init
  <2> QED BY <2>1, <2>2, <2>3, <2>4 DEF CountTypes
<1>6. ProcTypes
  BY DEF Init, ProcTypes, NoJob, Jobs, Calling, Waiting
<1>7. Working
  <2>1. \A p \in Procs : Ongoing(p, "idle", NoJob)
    BY DEF Ongoing, Shape, Exclusive, Private, Looking, Based, Done, NoJob, Deciding, Filled, After, Making, Waiting
  <2> QED BY <2>1 DEF Working, Init
<1>8. Whole /\ Paired /\ HandedOver
  BY <1>2, <1>3, NamesAreApart DEF Whole, Shared, Sound, Paired, HandedOver
<1>9. AcknowledgedStays
  BY DEF AcknowledgedStays, Init
<1> QED BY <1>4, <1>5, <1>6, <1>7, <1>8, <1>9 DEF PublicationInv

-----------------------------------------------------------------------------
\* What goes on while somebody else does something.

DocumentStays == Document' = Document /\ (Document # None => file'[Document].text = file[Document].text)
TemporariesStay(q) ==
  \A n \in Temporaries : n[1] = q /\ names[n] # None /\ (\A d \in Possible : d[document] # names[n]) =>
    /\ names'[n] = names[n] /\ file'[names[n]] = file[names[n]]
    /\ \A d \in Possible' : d[document] # names[n]

LEMMA PrivateKept ==
  ASSUME NEW q \in Procs, NEW g, NEW i \in Jobs, Shape(q, g, i), Private(g, i), TemporariesStay(q)
  PROVE  Private(g, i)'
<1> SUFFICES ASSUME g \in {"write"} \cup Filled
             PROVE  Private(g, i)'
  BY DEF Private
<1>1. i.temp # None /\ i.temp[1] = q
  BY DEF Shape
<1>2. i.temp \in Temporaries
  BY <1>1 DEF Jobs
<1>3. /\ names[i.temp] # None
      /\ \A d \in Possible : d[document] # names[i.temp]
      /\ g \in Filled =>
           /\ file[names[i.temp]].synced /\ file[names[i.temp]].text = i.seen \cup {i.update}
           /\ file[names[i.temp]].meta \in {"private", "shared"}
  BY DEF Private
<1>4. /\ names'[i.temp] = names[i.temp] /\ file'[names[i.temp]] = file[names[i.temp]]
      /\ \A d \in Possible' : d[document] # names[i.temp]
  BY <1>1, <1>2, <1>3 DEF TemporariesStay
<1> QED BY <1>3, <1>4 DEF Private

LEMMA BasedKept ==
  ASSUME NEW g, NEW i, Based(g, i), DocumentStays, edited => edited'
  PROVE  Based(g, i)'
BY DEF Based, DocumentStays, Done

LEMMA ShapeKept ==
  ASSUME NEW q, NEW g, NEW i, Shape(q, g, i), UNCHANGED setting
  PROVE  Shape(q, g, i)'
<1>1. platform' = platform /\ kind' = kind
  BY DEF setting
<1> QED BY <1>1 DEF Shape, Child, Configuration

LEMMA LookingKept ==
  ASSUME NEW g, NEW i, Looking(g, i), UNCHANGED setting, Windows /\ g = "read" => Document' = Document
  PROVE  Looking(g, i)'
BY DEF Looking, setting, Windows

LEMMA OthersGoOn ==
  ASSUME NEW q \in Procs, NEW g, NEW i \in Jobs, Ongoing(q, g, i), UNCHANGED setting,
         holder = q => holder' = q, edited => edited', DocumentStays, TemporariesStay(q)
  PROVE  Ongoing(q, g, i)'
<1>1. Shape(q, g, i)' /\ Private(g, i)' /\ Based(g, i)'
  BY ShapeKept, PrivateKept, BasedKept DEF Ongoing
<1>2. Looking(g, i)'
  BY LookingKept DEF Ongoing, DocumentStays
<1>3. Exclusive(q, g, i)'
  BY DEF Ongoing, Exclusive
<1> QED BY <1>1, <1>2, <1>3 DEF Ongoing

LEMMA ActorMoves ==
  ASSUME PublicationInv, NEW p \in Procs, NEW h \in Calling, NEW j \in Jobs,
         pc' = [pc EXCEPT ![p] = h], job' = [job EXCEPT ![p] = j], Ongoing(p, h, j)',
         \A q \in Procs \ {p}, g \in Calling, i \in Jobs :
           g = pc[q] /\ i = job[q] /\ Ongoing(q, g, i) => Ongoing(q, g, i)'
  PROVE  ProcTypes' /\ Working'
<1>1. pc \in [Procs -> Calling] /\ job \in [Procs -> Jobs]
  BY DEF PublicationInv, ProcTypes
<1>2. ProcTypes'
  BY <1>1 DEF ProcTypes
<1>3. ASSUME NEW q \in Procs
      PROVE  Ongoing(q, pc[q], job[q])'
  <2>1. PICK g \in Calling, i \in Jobs : g = pc'[q] /\ i = job'[q]
    BY <1>2 DEF ProcTypes
  <2>2. Ongoing(q, g, i)'
    <3>1. CASE q = p
      <4>1. g = h /\ i = j
        BY <1>1, <2>1, <3>1
      <4> QED BY <3>1, <4>1
    <3>2. CASE q # p
      <4>1. g = pc[q] /\ i = job[q]
        BY <1>1, <2>1, <3>2
      <4>2. Ongoing(q, g, i)
        BY <4>1 DEF PublicationInv, Working
      <4> QED BY <3>2, <4>1, <4>2
    <3> QED BY <3>1, <3>2
  <2>3. Shape(q, pc[q], job[q])'
    BY <2>1, <2>2 DEF Ongoing, Shape
  <2>4. Exclusive(q, pc[q], job[q])' /\ Looking(pc[q], job[q])'
    BY <2>1, <2>2 DEF Ongoing, Exclusive, Looking
  <2>5. Private(pc[q], job[q])'
    BY <2>1, <2>2 DEF Ongoing, Private
  <2>6. Based(pc[q], job[q])'
    BY <2>1, <2>2 DEF Ongoing, Based, Done
  <2> QED BY <2>3, <2>4, <2>5, <2>6 DEF Ongoing
<1> QED BY <1>2, <1>3 DEF Working

\* A step that leaves the files, the names and the documents alone.
LEMMA CalmKeeps ==
  ASSUME PublicationInv, NEW p \in Procs, NEW h \in Calling, NEW j \in Jobs,
         pc' = [pc EXCEPT ![p] = h], job' = [job EXCEPT ![p] = j],
         UNCHANGED setting, file' = file, names' = names,
         dirs' \in Seq(Folders), dirs' # <<>>, Possible' \subseteq Possible,
         edited' = edited, mishaps' \in mishaps..MaxMishaps, updates' \in Nat,
         holder' \in Procs \cup {None}, \A q \in Procs \ {p} : holder = q => holder' = q,
         acked' \subseteq Nat,
         ~edited => \A d \in Possible' : acked' \subseteq IF d[document] = None THEN {} ELSE file[d[document]].text,
         Shape(p, h, j), Exclusive(p, h, j)', Private(h, j), Looking(h, j), Based(h, j),
         mishaps' = 0 /\ pc[p] \in {"linksync", "unlink"} =>
           h \in {"linksync", "unlink"} /\ j.opened = job[p].opened /\ j.temp = job[p].temp,
         mishaps' = 0 /\ p \in Root /\ Document # None /\ file[Document].meta = "root" /\ Handing(pc[p], job[p]) =>
           Handing(h, j)
  PROVE  PublicationInv'
<1>0. mishaps \in Nat /\ (mishaps' = 0 => mishaps = 0) /\ mishaps' \in 0..MaxMishaps
  BY FilePublicationAssumption DEF PublicationInv, CountTypes
<1>1. Document' = Document /\ DocumentStays /\ \A q \in Procs : TemporariesStay(q)
  BY DEF DocumentStays, TemporariesStay, Document
<1>2. \A q \in Procs \ {p}, g \in Calling, i \in Jobs : g = pc[q] /\ i = job[q] /\ Ongoing(q, g, i) => Ongoing(q, g, i)'
  BY <1>1, OthersGoOn
<1>3. Ongoing(p, h, j)'
  BY <1>1, ShapeKept, PrivateKept, BasedKept, LookingKept DEF Ongoing
<1>4. ProcTypes' /\ Working'
  BY <1>2, <1>3, ActorMoves
<1>5. FolderTypes' /\ CountTypes'
  BY <1>0 DEF PublicationInv, FolderTypes, CountTypes, setting
<1>6. Whole'
  <2>1. \A d \in Possible' : Shared(d) /\ Sound(d)
    BY DEF PublicationInv, Whole
  <2>2. \A d : (Shared(d) => Shared(d)') /\ (Sound(d) => Sound(d)')
    BY DEF Shared, Sound, setting, Child
  <2> QED BY <2>1, <2>2 DEF Whole
<1>7. Paired'
  <2> SUFFICES ASSUME mishaps' = 0, NEW n \in Names, NEW m \in Names, n # m, names[n] = names[m], names[n] # None
               PROVE  \E q \in Procs : Linking(pc[q], job[q], n, m)'
    BY DEF Paired, Linking
  <2>1. PICK q \in Procs : Linking(pc[q], job[q], n, m)
    BY <1>0 DEF PublicationInv, Paired
  <2>2. CASE q # p
    <3>1. pc'[q] = pc[q] /\ job'[q] = job[q]
      BY <2>2 DEF PublicationInv, ProcTypes
    <3> QED BY <2>1, <3>1 DEF Linking
  <2>3. CASE q = p
    <3>1. pc'[q] = h /\ job'[q] = j
      BY <2>3 DEF PublicationInv, ProcTypes
    <3> QED BY <2>1, <2>3, <3>1 DEF Linking
  <2> QED BY <2>2, <2>3
<1>8. HandedOver'
  <2> SUFFICES ASSUME mishaps' = 0, Child
               PROVE  /\ \A d \in Possible' : d[document] \in {None, Document}
                      /\ Document # None /\ file[Document].meta = "root" =>
                           \E q \in Root : Handing(pc[q], job[q])'
    BY <1>1 DEF HandedOver, setting, Child
  <2>1. \A d \in Possible' : d[document] \in {None, Document}
    BY <1>0 DEF PublicationInv, HandedOver
  <2>2. ASSUME Document # None, file[Document].meta = "root"
        PROVE  \E q \in Root : Handing(pc[q], job[q])'
    <3>1. PICK q \in Root : Handing(pc[q], job[q])
      BY <1>0, <2>2 DEF PublicationInv, HandedOver
    <3>2. q \in Procs
      BY FilePublicationAssumption
    <3>3. CASE q # p
      <4>1. pc'[q] = pc[q] /\ job'[q] = job[q]
        BY <3>2, <3>3 DEF PublicationInv, ProcTypes
      <4> QED BY <1>1, <3>1, <4>1 DEF Handing
    <3>4. CASE q = p
      <4>1. pc'[q] = h /\ job'[q] = j
        BY <3>2, <3>4 DEF PublicationInv, ProcTypes
      <4>2. Handing(h, j)
        BY <2>2, <3>1, <3>4
      <4> QED BY <1>1, <3>4, <4>1, <4>2 DEF Handing
    <3> QED BY <3>3, <3>4
  <2> QED BY <2>1, <2>2
<1>9. AcknowledgedStays'
  BY DEF AcknowledgedStays
<1> QED BY <1>4, <1>5, <1>6, <1>7, <1>8, <1>9 DEF PublicationInv

\* What is known of the one that takes a step.
LEMMA Actor ==
  ASSUME PublicationInv, NEW p \in Procs
  PROVE  /\ pc[p] \in Calling /\ job[p] \in Jobs /\ Ongoing(p, pc[p], job[p])
         /\ mishaps \in Nat /\ mishaps <= MaxMishaps /\ MaxMishaps \in Nat /\ updates \in Nat
BY FilePublicationAssumption DEF PublicationInv, ProcTypes, Working, CountTypes

\* A step of one's own that changes nothing else.
LEMMA QuietKeeps ==
  ASSUME PublicationInv, NEW p \in Procs, NEW h \in Calling, NEW j \in Jobs,
         pc' = [pc EXCEPT ![p] = h], job' = [job EXCEPT ![p] = j],
         UNCHANGED <<setting, disk, acked, edited>>, mishaps' \in mishaps..MaxMishaps, updates' \in Nat,
         holder' \in Procs \cup {None}, \A q \in Procs \ {p} : holder = q => holder' = q,
         Shape(p, h, j), Exclusive(p, h, j)', Private(h, j), Looking(h, j), Based(h, j),
         mishaps' = 0 => pc[p] \notin {"linksync", "unlink"},
         mishaps' = 0 /\ p \in Root /\ Document # None /\ file[Document].meta = "root" /\ Handing(pc[p], job[p]) =>
           Handing(h, j)
  PROVE  PublicationInv'
<1>1. dirs' = dirs /\ file' = file /\ acked' = acked /\ edited' = edited /\ UNCHANGED setting
  BY DEF disk
<1>2. names' = names /\ Possible' = Possible
  BY <1>1 DEF names, Possible
<1>3. dirs' \in Seq(Folders) /\ dirs' # <<>> /\ acked' \subseteq Nat
  BY <1>1 DEF PublicationInv, FolderTypes, CountTypes
<1>4. ~edited => \A d \in Possible' : acked' \subseteq IF d[document] = None THEN {} ELSE file[d[document]].text
  BY <1>1, <1>2 DEF PublicationInv, AcknowledgedStays
<1> QED BY <1>1, <1>2, <1>3, <1>4, CalmKeeps

LEMMA NoJobFacts ==
  ASSUME NEW p \in Procs
  PROVE  NoJob \in Jobs /\ Shape(p, "idle", NoJob)
BY DEF NoJob, Jobs, Shape, Deciding, Filled, After, Making

\* The end of a call, early or not.
LEMMA LeavingFacts ==
  ASSUME PublicationInv, NEW p \in Procs, Return(p) \/ Refuse(p)
  PROVE  \E h \in {"idle", "unlock", "cleanup"}, j \in Jobs :
           /\ pc' = [pc EXCEPT ![p] = h] /\ job' = [job EXCEPT ![p] = j] /\ Shape(p, h, j)
           /\ h = "cleanup" => j = job[p] /\ pc[p] \notin Waiting
<1>1. PICK i \in Jobs : i = job[p]
  BY Actor
<1>2. Shape(p, pc[p], i)
  BY <1>1, Actor DEF Ongoing
<1>3. CASE Return(p) /\ i.locked
  <2>1. PICK j : j = [NoJob EXCEPT !.locked = TRUE, !.update = i.update]
    OBVIOUS
  <2>2. j \in Jobs /\ j = [locked |-> TRUE, update |-> i.update, seen |-> {}, create |-> FALSE, opened |-> None,
                           held |-> FALSE, expected |-> None, temp |-> None, late |-> FALSE]
    BY <2>1 DEF NoJob, Jobs
  <2>3. i.update # 0 /\ ~Child
    BY <1>2, <1>3 DEF Shape
  <2>4. Shape(p, "unlock", j)
    BY <2>2, <2>3 DEF Shape, Deciding, Filled, After, Making
  <2>5. pc' = [pc EXCEPT ![p] = "unlock"] /\ job' = [job EXCEPT ![p] = j]
    BY <1>1, <1>3, <2>1 DEF Return, Goto, Keep
  <2> QED BY <2>2, <2>4, <2>5
<1>4. CASE Return(p) /\ ~i.locked
  <2>1. pc' = [pc EXCEPT ![p] = "idle"] /\ job' = [job EXCEPT ![p] = NoJob]
    BY <1>1, <1>4 DEF Return, Goto, Keep
  <2> QED BY <2>1, NoJobFacts
<1>5. CASE i.temp # None /\ Goto(p, "cleanup") /\ UNCHANGED job
  <2>1. pc' = [pc EXCEPT ![p] = "cleanup"] /\ job' = [job EXCEPT ![p] = i]
    BY <1>1, <1>5 DEF Goto, PublicationInv, ProcTypes
  <2>2. Shape(p, "cleanup", i) /\ pc[p] \notin Waiting
    BY <1>2, <1>5 DEF Shape, Deciding, Filled, After, Making, Waiting
  <2> QED BY <1>1, <2>1, <2>2
<1> QED BY <1>1, <1>3, <1>4, <1>5 DEF Refuse

LEMMA LeavingKeeps ==
  ASSUME PublicationInv, NEW p \in Procs, Return(p) \/ Refuse(p),
         UNCHANGED <<setting, disk, holder, acked, edited>>, mishaps' \in mishaps..MaxMishaps, updates' = updates,
         mishaps' = 0 => pc[p] \notin {"linksync", "unlink"},
         mishaps' = 0 /\ p \in Root /\ Document # None /\ file[Document].meta = "root" => ~Handing(pc[p], job[p])
  PROVE  PublicationInv'
<1>1. PICK h \in {"idle", "unlock", "cleanup"}, j \in Jobs :
        /\ pc' = [pc EXCEPT ![p] = h] /\ job' = [job EXCEPT ![p] = j] /\ Shape(p, h, j)
        /\ h = "cleanup" => j = job[p] /\ pc[p] \notin Waiting
  BY LeavingFacts
<1>2. h \in Calling /\ Private(h, j) /\ Looking(h, j) /\ Based(h, j)
  BY DEF Calling, Waiting, Private, Looking, Based, Done, Deciding, Filled, After, Making
<1>3. Exclusive(p, h, j)'
  <2>1. CASE h = "cleanup"
    BY <1>1, <2>1, Actor DEF Ongoing, Exclusive
  <2>2. CASE h # "cleanup"
    BY <2>2 DEF Exclusive, Waiting
  <2> QED BY <2>1, <2>2
<1>4. holder' \in Procs \cup {None} /\ updates' \in Nat
  BY DEF PublicationInv, CountTypes
<1> QED BY <1>1, <1>2, <1>3, <1>4, QuietKeeps

-----------------------------------------------------------------------------
\* The steps that only look.

LEMMA KindFacts == (Child => ~Configuration) /\ (Writes \in {"reopen", "prepare"}) /\ (Writes = "reopen" <=> Configuration)
BY DEF Child, Configuration, Writes

LEMMA BeginUpdateKeeps ==
  ASSUME PublicationInv, NEW p \in Procs, NEW locked \in BOOLEAN, BeginUpdate(p, locked)
  PROVE  PublicationInv'
<1>1. PICK h : h = IF locked THEN "lockopen" ELSE IF Child THEN "mkdir" ELSE "open"
  OBVIOUS
<1>2. PICK j : j = [NoJob EXCEPT !.locked = locked, !.update = updates + 1]
  OBVIOUS
<1>3. pc' = [pc EXCEPT ![p] = h] /\ job' = [job EXCEPT ![p] = j] /\ At(p, "idle") /\ updates' = updates + 1
  BY <1>1, <1>2 DEF BeginUpdate, Goto, Keep
<1>4. updates \in Nat /\ updates + 1 \in Nat /\ updates + 1 # 0 /\ mishaps \in Nat /\ mishaps <= MaxMishaps /\ MaxMishaps \in Nat
  BY Actor
<1>5. j \in Jobs /\ j = [locked |-> locked, update |-> updates + 1, seen |-> {}, create |-> FALSE, opened |-> None,
                         held |-> FALSE, expected |-> None, temp |-> None, late |-> FALSE]
  BY <1>2, <1>4 DEF NoJob, Jobs
<1>6. h \in {"lockopen", "mkdir", "open"} /\ h \in Calling /\ (h = "mkdir" => Child) /\ (h # "mkdir" => ~Child)
      /\ (locked => h = "lockopen") /\ (locked => ~Child) /\ (Configuration => locked)
  BY <1>1 DEF BeginUpdate, Calling, Waiting, Making
<1>7. Shape(p, h, j)
  BY <1>4, <1>5, <1>6 DEF Shape, Deciding, Filled, After, Making
<1>8. Exclusive(p, h, j)' /\ Private(h, j) /\ Looking(h, j) /\ Based(h, j)
  BY <1>5, <1>6 DEF Exclusive, Private, Looking, Based, Done, Deciding, Filled, After, Making, Waiting
<1>9. /\ UNCHANGED <<setting, disk, acked, edited>> /\ mishaps' \in mishaps..MaxMishaps /\ holder' = holder
      /\ pc[p] = "idle"
  BY <1>3, <1>4 DEF BeginUpdate, At
<1>10. holder' \in Procs \cup {None}
  BY <1>9 DEF PublicationInv, CountTypes
<1> QED BY <1>3, <1>4, <1>5, <1>6, <1>7, <1>8, <1>9, <1>10, QuietKeeps DEF Handing

\* A step that only goes on.
LEMMA AdvanceKeeps ==
  ASSUME PublicationInv, NEW p \in Procs, NEW h \in Calling, Goto(p, h), UNCHANGED job,
         UNCHANGED <<setting, disk, holder, acked, counts>>,
         Shape(p, h, job[p]), Exclusive(p, h, job[p]), Private(h, job[p]), Looking(h, job[p]), Based(h, job[p]),
         pc[p] \notin {"linksync", "unlink", "opendir", "owndir"}
  PROVE  PublicationInv'
<1>1. PICK j \in Jobs : j = job[p]
  BY Actor
<1>2. pc' = [pc EXCEPT ![p] = h] /\ job' = [job EXCEPT ![p] = j]
  BY <1>1 DEF Goto, PublicationInv, ProcTypes
<1>3. Exclusive(p, h, j)'
  BY <1>1 DEF Exclusive
<1>4. mishaps' \in mishaps..MaxMishaps /\ updates' \in Nat /\ holder' \in Procs \cup {None} /\ edited' = edited
  BY Actor DEF counts, PublicationInv, CountTypes
<1> QED BY <1>1, <1>2, <1>3, <1>4, QuietKeeps DEF Handing

LEMMA BeginReadKeeps ==
  ASSUME PublicationInv, NEW p \in Procs, BeginRead(p)
  PROVE  PublicationInv'
<1>1. PICK h : h = IF Child THEN "opendir" ELSE "open"
  OBVIOUS
<1>2. pc[p] = "idle" /\ Goto(p, h) /\ UNCHANGED job /\ UNCHANGED <<setting, disk, holder, acked, counts>>
  BY <1>1 DEF BeginRead, Advance, At
<1>3. PICK j \in Jobs : j = job[p]
  BY Actor
<1>4. Shape(p, "idle", j)
  BY <1>2, <1>3, Actor DEF Ongoing
<1>5. h \in Calling /\ h \in {"open", "opendir"}
  BY <1>1 DEF Calling, Waiting, Making
<1>6. Shape(p, h, j) /\ ~j.locked /\ ~j.create
  BY <1>1, <1>4 DEF Shape, Deciding, Filled, After, Making
<1>7. Exclusive(p, h, j) /\ Private(h, j) /\ Looking(h, j) /\ Based(h, j)
  BY <1>5, <1>6 DEF Exclusive, Private, Looking, Based, Done, Deciding, Filled, After, Making
<1> QED BY <1>2, <1>3, <1>5, <1>6, <1>7, AdvanceKeeps

\* The ? of the code, where nothing else has happened.
LEMMA RefuseKeeps ==
  ASSUME PublicationInv, NEW p \in Procs, Return(p) \/ Refuse(p),
         UNCHANGED <<setting, disk, holder, acked, counts>>,
         pc[p] \notin {"linksync", "unlink", "opendir", "owndir"}
  PROVE  PublicationInv'
<1>1. mishaps' \in mishaps..MaxMishaps /\ updates' = updates /\ edited' = edited
  BY Actor DEF counts
<1> QED BY <1>1, LeavingKeeps DEF Handing

LEMMA OpenKeeps ==
  ASSUME PublicationInv, NEW p \in Procs, Open(p)
  PROVE  PublicationInv'
<1>1. pc[p] = "open" /\ UNCHANGED <<setting, disk, holder, acked, counts>>
  BY DEF Open, At
<1>2. PICK i \in Jobs : i = job[p]
  BY Actor
<1>3. Shape(p, "open", i) /\ Exclusive(p, "open", i)
  BY <1>1, <1>2, Actor DEF Ongoing
<1>4. mishaps' \in mishaps..MaxMishaps /\ updates' \in Nat /\ holder' = holder /\ edited' = edited
      /\ holder' \in Procs \cup {None}
  BY <1>1, Actor DEF counts, PublicationInv, CountTypes
<1>5. CASE Document = None /\ i.update # 0 /\ Absent(p, Writes)
  <2>1. PICK h, j : h = Writes /\ j = [i EXCEPT !.create = TRUE]
    OBVIOUS
  <2>2. pc' = [pc EXCEPT ![p] = h] /\ job' = [job EXCEPT ![p] = j]
    BY <1>2, <1>5, <2>1 DEF Absent, Goto, Keep
  <2>3. j \in Jobs /\ j.create /\ j.locked = i.locked /\ j.update = i.update /\ j.temp = i.temp /\ j.expected = i.expected
    BY <2>1 DEF Jobs
  <2>4. h \in {"reopen", "prepare"} /\ h \in Calling /\ (h = "reopen" => Configuration)
    BY <2>1, KindFacts DEF Calling, Deciding
  <2>5. Shape(p, h, j)
    BY <1>3, <1>5, <2>3, <2>4 DEF Shape, Deciding, Filled, After, Making
  <2>6. Exclusive(p, h, j)'
    BY <1>3, <1>4, <2>3 DEF Exclusive, Waiting
  <2>7. Private(h, j) /\ Looking(h, j) /\ Based(h, j)
    BY <1>5, <2>3, <2>4 DEF Private, Looking, Based, Done, Filled, After, Making
  <2> QED BY <1>1, <1>4, <2>2, <2>3, <2>4, <2>5, <2>6, <2>7, QuietKeeps DEF Handing
<1>6. CASE /\ Document # None /\ MayOpen(p, Document) /\ Goto(p, "read")
           /\ Keep(p, [job[p] EXCEPT !.opened = Document, !.held = TRUE])
  <2>1. PICK o : o = Document
    OBVIOUS
  <2>2. o \in Objects
    BY <1>6, <2>1, NamesFacts, NamesAreApart DEF Document, Folders, PublicationInv
  <2>3. PICK j : j = [i EXCEPT !.opened = o, !.held = TRUE]
    OBVIOUS
  <2>4. pc' = [pc EXCEPT ![p] = "read"] /\ job' = [job EXCEPT ![p] = j]
    BY <1>2, <1>6, <2>1, <2>3 DEF Goto, Keep
  <2>5. j \in Jobs /\ j.opened = o /\ j.held /\ j.create = i.create /\ j.locked = i.locked /\ j.update = i.update
        /\ j.temp = i.temp /\ j.expected = i.expected
    BY <2>2, <2>3 DEF Jobs
  <2>6. Shape(p, "read", j)
    BY <1>3, <2>2, <2>5 DEF Shape, Deciding, Filled, After, Making
  <2>7. Exclusive(p, "read", j)'
    BY <1>3, <1>4, <2>5 DEF Exclusive, Waiting
  <2>8. Private("read", j) /\ Looking("read", j) /\ Based("read", j) /\ "read" \in Calling
    BY <2>1, <2>5 DEF Private, Looking, Based, Done, Deciding, Filled, After, Making, Calling
  <2> QED BY <1>1, <1>4, <2>4, <2>5, <2>6, <2>7, <2>8, QuietKeeps DEF Handing
<1>7. CASE Return(p) \/ Refuse(p)
  BY <1>1, <1>7, RefuseKeeps
<1> QED BY <1>2, <1>5, <1>6, <1>7 DEF Open

LEMMA LockWaitKeeps ==
  ASSUME PublicationInv, NEW p \in Procs, LockWait(p)
  PROVE  PublicationInv'
<1>1. /\ pc[p] = "lockwait" /\ holder = None /\ holder' = p /\ Goto(p, "locksync") /\ UNCHANGED job
      /\ UNCHANGED <<setting, disk, acked, counts>>
  BY DEF LockWait, Advance, At
<1>2. PICK j \in Jobs : j = job[p]
  BY Actor
<1>3. Shape(p, "lockwait", j)
  BY <1>1, <1>2, Actor DEF Ongoing
<1>4. Shape(p, "locksync", j)
  BY <1>3 DEF Shape, Deciding, Filled, After, Making
<1>5. Exclusive(p, "locksync", j)'
  BY <1>1 DEF Exclusive
<1>6. Private("locksync", j) /\ Looking("locksync", j) /\ Based("locksync", j) /\ "locksync" \in Calling
  BY DEF Private, Looking, Based, Done, Deciding, Filled, After, Making, Calling
<1>7. pc' = [pc EXCEPT ![p] = "locksync"] /\ job' = [job EXCEPT ![p] = j]
  BY <1>1, <1>2 DEF Goto, PublicationInv, ProcTypes
<1>8. \A q \in Procs \ {p} : holder = q => holder' = q
  BY <1>1, FilePublicationAssumption
<1>9. mishaps' \in mishaps..MaxMishaps /\ updates' \in Nat /\ edited' = edited /\ holder' \in Procs \cup {None}
  BY <1>1, Actor DEF counts
<1> QED BY <1>1, <1>4, <1>5, <1>6, <1>7, <1>8, <1>9, QuietKeeps DEF Handing

LEMMA DocumentIsTyped ==
  ASSUME PublicationInv
  PROVE  /\ Document \in Objects \cup {None} /\ Document = names[document] /\ names \in Possible
         /\ Document # None => Document \in Objects /\ file[Document] \in Files
BY NamesFacts, NamesAreApart DEF Document, Folders, PublicationInv, FolderTypes

LEMMA ReadKeeps ==
  ASSUME PublicationInv, NEW p \in Procs, Read(p)
  PROVE  PublicationInv'
<1>1. pc[p] = "read" /\ UNCHANGED <<setting, disk, holder, acked, counts>>
  BY DEF Read, At
<1>2. PICK i \in Jobs : i = job[p]
  BY Actor
<1>3. Shape(p, "read", i) /\ Exclusive(p, "read", i) /\ Looking("read", i)
  BY <1>1, <1>2, Actor DEF Ongoing
<1>4. mishaps' \in mishaps..MaxMishaps /\ updates' \in Nat /\ holder' = holder /\ edited' = edited
      /\ holder' \in Procs \cup {None}
  BY <1>1, Actor DEF counts, PublicationInv, CountTypes
<1>5. CASE /\ Verified(i.opened) /\ i.locked /\ Goto(p, Writes)
           /\ Keep(p, [job[p] EXCEPT !.opened = None, !.held = FALSE, !.seen = file[job[p].opened].text])
  <2>1. i.opened = Document /\ Document \in Objects /\ Document # None
    BY <1>3, <1>5, DocumentIsTyped, NamesAreApart DEF Verified, Looking, Shape
  <2>2. PICK seen : seen = file[Document].text
    OBVIOUS
  <2>3. seen \in SUBSET Nat
    BY <2>1, <2>2, DocumentIsTyped DEF Files
  <2>4. PICK h, j : h = Writes /\ j = [i EXCEPT !.opened = None, !.held = FALSE, !.seen = seen]
    OBVIOUS
  <2>5. pc' = [pc EXCEPT ![p] = h] /\ job' = [job EXCEPT ![p] = j]
    BY <1>2, <1>5, <2>1, <2>2, <2>4 DEF Goto, Keep
  <2>6. j \in Jobs /\ j.create = i.create /\ j.locked = i.locked /\ j.update = i.update /\ j.temp = i.temp
        /\ j.expected = i.expected /\ j.seen = seen
    BY <2>3, <2>4 DEF Jobs
  <2>7. h \in {"reopen", "prepare"} /\ h \in Calling /\ (h = "reopen" => Configuration)
    BY <2>4, KindFacts DEF Calling, Deciding
  <2>8. Shape(p, h, j) /\ ~j.create
    BY <1>3, <1>5, <2>6, <2>7 DEF Shape, Deciding, Filled, After, Making
  <2>9. Exclusive(p, h, j)'
    BY <1>3, <1>4, <2>6 DEF Exclusive, Waiting
  <2>10. Private(h, j) /\ Looking(h, j)
    BY <2>7 DEF Private, Looking, Filled
  <2>11. Based(h, j)
    BY <2>1, <2>2, <2>6, <2>7, <2>8 DEF Based, Done, After, Making
  <2> QED BY <1>1, <1>4, <2>5, <2>6, <2>7, <2>8, <2>9, <2>10, <2>11, QuietKeeps DEF Handing
<1>6. CASE Return(p)
  BY <1>1, <1>6, RefuseKeeps
<1> QED BY <1>2, <1>5, <1>6 DEF Read

LEMMA ReopenKeeps ==
  ASSUME PublicationInv, NEW p \in Procs, Reopen(p)
  PROVE  PublicationInv'
<1>1. pc[p] = "reopen" /\ UNCHANGED <<setting, disk, holder, acked, counts>>
  BY DEF Reopen, At
<1>2. PICK i \in Jobs : i = job[p]
  BY Actor
<1>3. Shape(p, "reopen", i) /\ Exclusive(p, "reopen", i) /\ Based("reopen", i)
  BY <1>1, <1>2, Actor DEF Ongoing
<1>4. mishaps' \in mishaps..MaxMishaps /\ updates' \in Nat /\ holder' = holder /\ edited' = edited
      /\ holder' \in Procs \cup {None}
  BY <1>1, Actor DEF counts, PublicationInv, CountTypes
<1>5. i.locked /\ Configuration /\ ~Child /\ "prepare" \in Calling
  BY <1>3, KindFacts DEF Shape, Calling, Deciding
<1>6. CASE Document = None /\ Absent(p, "prepare")
  <2>1. PICK j : j = [i EXCEPT !.create = TRUE]
    OBVIOUS
  <2>2. pc' = [pc EXCEPT ![p] = "prepare"] /\ job' = [job EXCEPT ![p] = j]
    BY <1>2, <1>6, <2>1 DEF Absent, Goto, Keep
  <2>3. j \in Jobs /\ j.create /\ j.locked = i.locked /\ j.update = i.update /\ j.temp = i.temp /\ j.expected = i.expected
    BY <2>1 DEF Jobs
  <2>4. Shape(p, "prepare", j)
    BY <1>3, <1>5, <2>3 DEF Shape, Deciding, Filled, After, Making
  <2>5. Exclusive(p, "prepare", j)'
    BY <1>3, <1>4, <2>3 DEF Exclusive, Waiting
  <2>6. Private("prepare", j) /\ Looking("prepare", j) /\ Based("prepare", j)
    BY <2>3 DEF Private, Looking, Based, Done, Deciding, Filled, After, Making
  <2> QED BY <1>1, <1>4, <1>5, <2>2, <2>3, <2>4, <2>5, <2>6, QuietKeeps DEF Handing
<1>7. CASE /\ Document # None /\ MayOpen(p, Document) /\ Verified(Document)
           /\ Goto(p, "prepare")
           /\ Keep(p, [job[p] EXCEPT !.create = FALSE, !.opened = Document, !.held = TRUE,
                                     !.expected = Identity(Document)])
  <2>1. PICK o : o = Document
    OBVIOUS
  <2>2. o \in Objects /\ o # None /\ file[o] \in Files /\ names \in Possible /\ o = names[document]
    BY <1>7, <2>1, DocumentIsTyped
  <2>3. PICK expected : expected = Identity(o)
    OBVIOUS
  <2>4. expected = [ino |-> file[o].ino, meta |-> file[o].meta, links |-> Links(o)]
    BY <2>3 DEF Identity
  <2>5. expected \in Expectations
    BY <2>2, <2>4, LinksAreCounted DEF Expectations, Files
  <2>6. file[o].meta \in {"private", "shared", "root"}
    BY <1>5, <1>7, <2>1 DEF Verified, Acceptable
  <2>7. file[o].meta # "root"
    BY <1>5, <2>2 DEF PublicationInv, Whole, Sound
  <2>8. expected.meta \in {"private", "shared"}
    BY <2>4, <2>6, <2>7
  <2>9. PICK j : j = [i EXCEPT !.create = FALSE, !.opened = o, !.held = TRUE, !.expected = expected]
    OBVIOUS
  <2>10. pc' = [pc EXCEPT ![p] = "prepare"] /\ job' = [job EXCEPT ![p] = j]
    BY <1>2, <1>7, <2>1, <2>3, <2>9 DEF Goto, Keep
  <2>11. j \in Jobs /\ ~j.create /\ j.locked = i.locked /\ j.update = i.update /\ j.temp = i.temp
         /\ j.expected = expected /\ j.seen = i.seen
    BY <2>2, <2>5, <2>9 DEF Jobs
  <2>12. Shape(p, "prepare", j)
    BY <1>3, <1>5, <2>8, <2>11 DEF Shape, Deciding, Filled, After, Making
  <2>13. Exclusive(p, "prepare", j)'
    BY <1>3, <1>4, <2>11 DEF Exclusive, Waiting
  <2>14. Private("prepare", j) /\ Looking("prepare", j)
    BY DEF Private, Looking, Filled
  <2>15. Based("prepare", j)
    BY <1>3, <1>5, <1>7, <2>11 DEF Based, Done, Deciding, After, Making
  <2> QED BY <1>1, <1>4, <1>5, <2>10, <2>11, <2>12, <2>13, <2>14, <2>15, QuietKeeps DEF Handing
<1>8. CASE Refuse(p)
  BY <1>1, <1>8, RefuseKeeps
<1> QED BY <1>2, <1>6, <1>7, <1>8 DEF Reopen

LEMMA RevalidateKeeps ==
  ASSUME PublicationInv, NEW p \in Procs, Revalidate(p)
  PROVE  PublicationInv'
<1>1. pc[p] = "revalidate" /\ UNCHANGED <<setting, disk, holder, acked, counts>>
  BY DEF Revalidate, At
<1>2. PICK i \in Jobs : i = job[p]
  BY Actor
<1>3. Shape(p, "revalidate", i) /\ Exclusive(p, "revalidate", i) /\ Private("revalidate", i) /\ Based("revalidate", i)
  BY <1>1, <1>2, Actor DEF Ongoing
<1>4. mishaps' \in mishaps..MaxMishaps /\ updates' \in Nat /\ holder' = holder /\ edited' = edited
      /\ holder' \in Procs \cup {None}
  BY <1>1, Actor DEF counts, PublicationInv, CountTypes
<1>5. CASE Goto(p, "publish") /\ Keep(p, [job[p] EXCEPT !.late = FALSE])
  <2>1. PICK j : j = [i EXCEPT !.late = FALSE]
    OBVIOUS
  <2>2. pc' = [pc EXCEPT ![p] = "publish"] /\ job' = [job EXCEPT ![p] = j]
    BY <1>2, <1>5, <2>1 DEF Goto, Keep
  <2>3. j \in Jobs /\ j.create = i.create /\ j.locked = i.locked /\ j.update = i.update /\ j.temp = i.temp
        /\ j.expected = i.expected /\ j.seen = i.seen
    BY <2>1 DEF Jobs
  <2>4. Shape(p, "publish", j) /\ "publish" \in Calling
    BY <1>3, <2>3 DEF Shape, Deciding, Filled, After, Making, Calling
  <2>5. Exclusive(p, "publish", j)'
    BY <1>3, <1>4, <2>3 DEF Exclusive, Waiting
  <2>6. Private("publish", j)
    BY <1>3, <2>3 DEF Private, Filled
  <2>7. Looking("publish", j) /\ Based("publish", j)
    BY <1>3, <2>3 DEF Looking, Based, Done, Deciding, After, Making
  <2> QED BY <1>1, <1>4, <2>2, <2>3, <2>4, <2>5, <2>6, <2>7, QuietKeeps DEF Handing
<1>6. CASE Refuse(p)
  BY <1>1, <1>6, RefuseKeeps
<1> QED BY <1>5, <1>6 DEF Revalidate

LEMMA ConfirmKeeps ==
  ASSUME PublicationInv, NEW p \in Procs, Confirm(p)
  PROVE  PublicationInv'
<1>1. pc[p] = "confirm" /\ UNCHANGED <<setting, disk, holder, acked, counts>>
  BY DEF Confirm, At
<1>2. PICK i \in Jobs : i = job[p]
  BY Actor
<1>3. Shape(p, "confirm", i) /\ Exclusive(p, "confirm", i) /\ Based("confirm", i)
  BY <1>1, <1>2, Actor DEF Ongoing
<1>4. CASE Goto(p, "syncdir") /\ UNCHANGED job
  <2>1. Shape(p, "syncdir", i) /\ "syncdir" \in Calling
    BY <1>3 DEF Shape, Deciding, Filled, After, Making, Calling
  <2>2. Exclusive(p, "syncdir", i) /\ Private("syncdir", i) /\ Looking("syncdir", i)
    BY <1>3 DEF Exclusive, Private, Looking, Waiting, Filled
  <2>3. Based("syncdir", i)
    BY <1>3 DEF Based, Done, Deciding, After
  <2> QED BY <1>1, <1>2, <1>4, <2>1, <2>2, <2>3, AdvanceKeeps
<1>5. CASE Refuse(p)
  BY <1>1, <1>5, RefuseKeeps
<1> QED BY <1>4, <1>5 DEF Confirm, Proceed

LEMMA EndKeeps ==
  ASSUME PublicationInv, NEW p \in Procs, End(p)
  PROVE  PublicationInv'
<1>1. /\ pc[p] = "unlock" /\ UNCHANGED <<setting, disk, acked, counts>> /\ holder' = Released(p)
      /\ pc' = [pc EXCEPT ![p] = "idle"] /\ job' = [job EXCEPT ![p] = NoJob]
  BY DEF End, At, Goto, Keep
<1>2. NoJob \in Jobs /\ Shape(p, "idle", NoJob) /\ "idle" \in Calling
  BY NoJobFacts DEF Calling, Waiting
<1>3. Exclusive(p, "idle", NoJob)' /\ Private("idle", NoJob) /\ Looking("idle", NoJob) /\ Based("idle", NoJob)
  BY DEF Exclusive, Private, Looking, Based, Done, Deciding, Filled, After, Making, Waiting
<1>4. mishaps' \in mishaps..MaxMishaps /\ updates' \in Nat /\ edited' = edited
  BY <1>1, Actor DEF counts
<1>5. holder' \in Procs \cup {None} /\ \A q \in Procs \ {p} : holder = q => holder' = q
  BY <1>1 DEF Released, PublicationInv, CountTypes
<1> QED BY <1>1, <1>2, <1>3, <1>4, <1>5, QuietKeeps DEF Handing

LEMMA LockFoundKeeps ==
  ASSUME PublicationInv, NEW p \in Procs, At(p, "lockopen"), NEW ok \in BOOLEAN, Proceed(p, ok, "lockwait"),
         UNCHANGED <<setting, disk, holder, acked, counts>>
  PROVE  PublicationInv'
<1>1. pc[p] = "lockopen"
  BY DEF At
<1>2. PICK i \in Jobs : i = job[p]
  BY Actor
<1>3. Shape(p, "lockopen", i)
  BY <1>1, <1>2, Actor DEF Ongoing
<1>4. CASE Goto(p, "lockwait") /\ UNCHANGED job
  <2>1. Shape(p, "lockwait", i) /\ "lockwait" \in Calling
    BY <1>3 DEF Shape, Deciding, Filled, After, Making, Calling, Waiting
  <2>2. Exclusive(p, "lockwait", i) /\ Private("lockwait", i) /\ Looking("lockwait", i) /\ Based("lockwait", i)
    BY DEF Exclusive, Private, Looking, Based, Done, Deciding, Filled, After, Making, Waiting
  <2> QED BY <1>1, <1>2, <1>4, <2>1, <2>2, AdvanceKeeps
<1>5. CASE Refuse(p)
  BY <1>1, <1>5, RefuseKeeps
<1> QED BY <1>4, <1>5 DEF Proceed

LEMMA OpenDirectoryKeeps ==
  ASSUME PublicationInv, NEW p \in Procs, OpenDirectory(p)
  PROVE  PublicationInv'
<1>1. pc[p] = "opendir" /\ UNCHANGED <<setting, disk, holder, acked, counts>>
  BY DEF OpenDirectory, At
<1>2. PICK i \in Jobs : i = job[p]
  BY Actor
<1>3. Shape(p, "opendir", i) /\ Exclusive(p, "opendir", i) /\ Based("opendir", i)
  BY <1>1, <1>2, Actor DEF Ongoing
<1>4. mishaps' \in mishaps..MaxMishaps /\ updates' \in Nat /\ updates' = updates /\ holder' = holder /\ edited' = edited
      /\ holder' \in Procs \cup {None}
  BY <1>1, Actor DEF counts, PublicationInv, CountTypes
<1>5. CASE /\ Document # None /\ Goto(p, IF job[p].create THEN "owndir" ELSE "checkdir")
           /\ Keep(p, [job[p] EXCEPT !.opened = Document, !.held = TRUE])
  <2>1. PICK o : o = Document
    OBVIOUS
  <2>2. o \in Objects
    BY <1>5, <2>1, DocumentIsTyped
  <2>3. PICK h, j : h = (IF i.create THEN "owndir" ELSE "checkdir") /\ j = [i EXCEPT !.opened = o, !.held = TRUE]
    OBVIOUS
  <2>4. pc' = [pc EXCEPT ![p] = h] /\ job' = [job EXCEPT ![p] = j]
    BY <1>2, <1>5, <2>1, <2>3 DEF Goto, Keep
  <2>5. j \in Jobs /\ j.opened = o /\ j.held /\ j.create = i.create /\ j.locked = i.locked /\ j.update = i.update
        /\ j.temp = i.temp /\ j.expected = i.expected
    BY <2>2, <2>3 DEF Jobs
  <2>6. h \in {"owndir", "checkdir"} /\ h \in Calling /\ (h = "owndir" => i.create) /\ (i.create => h = "owndir")
    BY <2>3 DEF Calling, Making
  <2>7. Shape(p, h, j) /\ ~j.locked
    BY <1>3, <2>2, <2>5, <2>6 DEF Shape, Deciding, Filled, After, Making
  <2>8. Exclusive(p, h, j)' /\ Private(h, j) /\ Looking(h, j)
    BY <2>6, <2>7 DEF Exclusive, Private, Looking, Filled
  <2>9. Based(h, j)
    BY <1>3, <2>5, <2>6 DEF Based, Done, Deciding, After, Making
  <2>10. Handing(pc[p], job[p]) => Handing(h, j)
    BY <1>1, <1>2, <2>1, <2>5, <2>6 DEF Handing
  <2> QED BY <1>1, <1>4, <2>4, <2>5, <2>6, <2>7, <2>8, <2>9, <2>10, QuietKeeps
<1>6. CASE ~(Document # None /\ MayOpen(p, Document)) /\ Refuse(p)
  <2>1. p \in Root /\ Document # None => FALSE
    BY <1>6 DEF MayOpen
  <2> QED BY <1>1, <1>4, <1>6, <2>1, LeavingKeeps
<1> QED BY <1>5, <1>6 DEF OpenDirectory

LEMMA CheckDirectoryKeeps ==
  ASSUME PublicationInv, NEW p \in Procs, CheckDirectory(p)
  PROVE  PublicationInv'
<1>1. pc[p] = "checkdir" /\ UNCHANGED <<setting, disk, holder, acked, counts>>
  BY DEF CheckDirectory, At
<1>2. PICK i \in Jobs : i = job[p]
  BY Actor
<1>3. Shape(p, "checkdir", i) /\ Exclusive(p, "checkdir", i) /\ Based("checkdir", i)
  BY <1>1, <1>2, Actor DEF Ongoing
<1>4. CASE i.create /\ Goto(p, "syncdir") /\ UNCHANGED job
  <2>1. Shape(p, "syncdir", i) /\ "syncdir" \in Calling
    BY <1>3, <1>4 DEF Shape, Deciding, Filled, After, Making, Calling
  <2>2. Exclusive(p, "syncdir", i) /\ Private("syncdir", i) /\ Looking("syncdir", i)
    BY <1>3 DEF Exclusive, Private, Looking, Waiting, Filled
  <2>3. Based("syncdir", i)
    BY <1>3, <1>4 DEF Based, Done, Deciding, After, Making
  <2> QED BY <1>1, <1>2, <1>4, <2>1, <2>2, <2>3, AdvanceKeeps
<1>5. CASE Return(p)
  BY <1>1, <1>5, RefuseKeeps
<1> QED BY <1>2, <1>4, <1>5 DEF CheckDirectory

\* A directory that is there already is opened.
LEMMA DirectoryFoundKeeps ==
  ASSUME PublicationInv, NEW p \in Procs, At(p, "mkdir"), Goto(p, "opendir"), UNCHANGED job,
         UNCHANGED <<setting, disk, holder, acked, counts>>
  PROVE  PublicationInv'
<1>1. pc[p] = "mkdir"
  BY DEF At
<1>2. PICK i \in Jobs : i = job[p]
  BY Actor
<1>3. Shape(p, "mkdir", i)
  BY <1>1, <1>2, Actor DEF Ongoing
<1>4. Shape(p, "opendir", i) /\ "opendir" \in Calling /\ ~i.create /\ ~i.locked
  BY <1>3 DEF Shape, Deciding, Filled, After, Making, Calling
<1>5. Exclusive(p, "opendir", i) /\ Private("opendir", i) /\ Looking("opendir", i) /\ Based("opendir", i)
  BY <1>4 DEF Exclusive, Private, Looking, Based, Done, Deciding, Filled, After, Making
<1> QED BY <1>1, <1>2, <1>4, <1>5, AdvanceKeeps

\* A failure, and the end of a process, with no file half written.
LEMMA FailureKeeps ==
  ASSUME PublicationInv, NEW p \in Procs, Fail(p), pc[p] # "write"
  PROVE  PublicationInv'
<1>1. Return(p) \/ Refuse(p)
  BY DEF Fail
<1>2. UNCHANGED <<setting, disk, holder, acked, edited>> /\ updates' = updates
  BY DEF Fail, disk
<1>3. mishaps' \in mishaps..MaxMishaps /\ mishaps' # 0
  BY Actor DEF Fail
<1> QED BY <1>1, <1>2, <1>3, LeavingKeeps

LEMMA KilledKeeps ==
  ASSUME PublicationInv, NEW p \in Procs, Kill(p), pc[p] # "write"
  PROVE  PublicationInv'
<1>1. pc' = [pc EXCEPT ![p] = "idle"] /\ job' = [job EXCEPT ![p] = NoJob]
  BY DEF Kill, Keep
<1>2. UNCHANGED <<setting, disk, acked, edited>> /\ updates' \in Nat
  BY Actor DEF Kill, disk
<1>3. mishaps' \in mishaps..MaxMishaps /\ mishaps' # 0
  BY Actor DEF Kill
<1>4. NoJob \in Jobs /\ Shape(p, "idle", NoJob) /\ "idle" \in Calling
  BY NoJobFacts DEF Calling, Waiting
<1>5. Exclusive(p, "idle", NoJob)' /\ Private("idle", NoJob) /\ Looking("idle", NoJob) /\ Based("idle", NoJob)
  BY DEF Exclusive, Private, Looking, Based, Done, Deciding, Filled, After, Making, Waiting
<1>6. holder' \in Procs \cup {None} /\ \A q \in Procs \ {p} : holder = q => holder' = q
  BY DEF Kill, PublicationInv, CountTypes
<1> QED BY <1>1, <1>2, <1>3, <1>4, <1>5, <1>6, QuietKeeps

-----------------------------------------------------------------------------
\* The steps that synchronize the directory.

LEMMA SyncedFacts ==
  ASSUME PublicationInv, SyncNames
  PROVE  /\ dirs' \in Seq(Folders) /\ dirs' # <<>> /\ names' = names /\ Possible' = {names} /\ Possible' \subseteq Possible
         /\ ~edited => \A d \in Possible' : acked \subseteq IF d[document] = None THEN {} ELSE file[d[document]].text
<1>1. names \in Folders /\ names \in Possible
  BY NamesFacts DEF PublicationInv
<1>2. dirs' \in Seq(Folders) /\ dirs' # <<>> /\ names' = names /\ Possible' = {names}
  BY <1>1, Replaced DEF SyncNames
<1> QED BY <1>1, <1>2 DEF PublicationInv, AcknowledgedStays

LEMMA LockSyncKeeps ==
  ASSUME PublicationInv, NEW p \in Procs, LockSync(p)
  PROVE  PublicationInv'
<1>1. /\ pc[p] = "locksync" /\ Goto(p, "open") /\ UNCHANGED job /\ SyncNames
      /\ UNCHANGED <<setting, file, holder, acked, counts>>
  BY DEF LockSync, Advance, At
<1>2. PICK j \in Jobs : j = job[p]
  BY Actor
<1>3. Shape(p, "locksync", j) /\ Exclusive(p, "locksync", j)
  BY <1>1, <1>2, Actor DEF Ongoing
<1>4. Shape(p, "open", j) /\ "open" \in Calling
  BY <1>3 DEF Shape, Deciding, Filled, After, Making, Calling
<1>5. holder' = holder /\ file' = file /\ acked' = acked /\ edited' = edited /\ UNCHANGED setting
  BY <1>1 DEF counts
<1>6. Exclusive(p, "open", j)' /\ Private("open", j) /\ Looking("open", j) /\ Based("open", j)
  BY <1>3, <1>5 DEF Exclusive, Private, Looking, Based, Done, Deciding, Filled, After, Making, Waiting
<1>7. pc' = [pc EXCEPT ![p] = "open"] /\ job' = [job EXCEPT ![p] = j]
  BY <1>1, <1>2 DEF Goto, PublicationInv, ProcTypes
<1>8. mishaps' \in mishaps..MaxMishaps /\ updates' \in Nat /\ holder' \in Procs \cup {None} /\ acked' \subseteq Nat
  BY <1>1, <1>5, Actor DEF counts, PublicationInv, CountTypes
<1>9. ~Handing(pc[p], job[p]) /\ pc[p] \notin {"linksync", "unlink"}
  BY <1>1 DEF Handing
<1> QED BY <1>1, <1>4, <1>5, <1>6, <1>7, <1>8, <1>9, SyncedFacts, CalmKeeps

LEMMA LinkSyncKeeps ==
  ASSUME PublicationInv, NEW p \in Procs, LinkSync(p)
  PROVE  PublicationInv'
<1>1. /\ pc[p] = "linksync" /\ Goto(p, "unlink") /\ UNCHANGED job /\ SyncNames
      /\ UNCHANGED <<setting, file, holder, acked, counts>>
  BY DEF LinkSync, Advance, At
<1>2. PICK j \in Jobs : j = job[p]
  BY Actor
<1>3. Shape(p, "linksync", j) /\ Exclusive(p, "linksync", j) /\ Based("linksync", j)
  BY <1>1, <1>2, Actor DEF Ongoing
<1>4. Shape(p, "unlink", j) /\ "unlink" \in Calling
  BY <1>3 DEF Shape, Deciding, Filled, After, Making, Calling
<1>5. holder' = holder /\ file' = file /\ acked' = acked /\ edited' = edited /\ UNCHANGED setting
  BY <1>1 DEF counts
<1>6. Exclusive(p, "unlink", j)' /\ Private("unlink", j) /\ Looking("unlink", j)
  BY <1>3, <1>5 DEF Exclusive, Private, Looking, Filled, Waiting
<1>7. Based("unlink", j)
  BY <1>3 DEF Based, Done, Deciding, After
<1>8. pc' = [pc EXCEPT ![p] = "unlink"] /\ job' = [job EXCEPT ![p] = j]
  BY <1>1, <1>2 DEF Goto, PublicationInv, ProcTypes
<1>9. mishaps' \in mishaps..MaxMishaps /\ updates' \in Nat /\ holder' \in Procs \cup {None} /\ acked' \subseteq Nat
  BY <1>1, <1>5, Actor DEF counts, PublicationInv, CountTypes
<1>10. ~Handing(pc[p], job[p])
  BY <1>1 DEF Handing
<1> QED BY <1>1, <1>2, <1>4, <1>5, <1>6, <1>7, <1>8, <1>9, <1>10, SyncedFacts, CalmKeeps

LEMMA SyncDirectoryKeeps ==
  ASSUME PublicationInv, NEW p \in Procs, SyncDirectory(p)
  PROVE  PublicationInv'
<1>1. /\ pc[p] = "syncdir" /\ Return(p) /\ SyncNames /\ acked' = acked \cup {job[p].update}
      /\ UNCHANGED <<setting, file, holder, counts>>
  BY DEF SyncDirectory, At
<1>2. PICK i \in Jobs : i = job[p]
  BY Actor
<1>3. Shape(p, "syncdir", i) /\ Exclusive(p, "syncdir", i) /\ Based("syncdir", i)
  BY <1>1, <1>2, Actor DEF Ongoing
<1>4. PICK h \in {"idle", "unlock", "cleanup"}, j \in Jobs :
        /\ pc' = [pc EXCEPT ![p] = h] /\ job' = [job EXCEPT ![p] = j] /\ Shape(p, h, j)
        /\ h = "cleanup" => j = job[p] /\ pc[p] \notin Waiting
  BY <1>1, LeavingFacts
<1>5. holder' = holder /\ file' = file /\ edited' = edited /\ UNCHANGED setting
  BY <1>1 DEF counts
<1>6. h \in Calling /\ Private(h, j) /\ Looking(h, j) /\ Based(h, j)
  BY DEF Calling, Waiting, Private, Looking, Based, Done, Deciding, Filled, After, Making
<1>7. Exclusive(p, h, j)'
  <2>1. CASE h = "cleanup"
    BY <1>2, <1>3, <1>4, <1>5, <2>1 DEF Exclusive, Waiting
  <2>2. CASE h # "cleanup"
    BY <2>2 DEF Exclusive, Waiting
  <2> QED BY <2>1, <2>2
<1>8. i.update \in Nat
  BY DEF Jobs
<1>9. acked' \subseteq Nat
  BY <1>1, <1>2, <1>8 DEF PublicationInv, CountTypes
<1>10. ~edited => \A d \in Possible' : acked' \subseteq IF d[document] = None THEN {} ELSE file[d[document]].text
  <2> SUFFICES ASSUME ~edited, NEW d \in Possible'
               PROVE  acked' \subseteq IF d[document] = None THEN {} ELSE file[d[document]].text
    OBVIOUS
  <2>1. Document # None /\ i.update \in file[Document].text
    BY <1>3 DEF Based, Done, After
  <2>2. d[document] = Document
    BY <1>1, SyncedFacts DEF Document
  <2>3. acked \subseteq IF d[document] = None THEN {} ELSE file[d[document]].text
    BY <1>1, SyncedFacts
  <2> QED BY <1>1, <1>2, <2>1, <2>2, <2>3
<1>11. mishaps' \in mishaps..MaxMishaps /\ updates' \in Nat /\ holder' \in Procs \cup {None}
  BY <1>1, <1>5, Actor DEF counts, PublicationInv, CountTypes
<1>12. ~Handing(pc[p], job[p]) /\ pc[p] \notin {"linksync", "unlink"}
  BY <1>1 DEF Handing
<1> QED BY <1>1, <1>4, <1>5, <1>6, <1>7, <1>9, <1>10, <1>11, <1>12, SyncedFacts, CalmKeeps

-----------------------------------------------------------------------------
\* The steps that change a file.

\* A step that leaves the names alone, and of the documents at most the owner.
LEMMA FilesKeep ==
  ASSUME PublicationInv, NEW p \in Procs, NEW h \in Calling, NEW j \in Jobs,
         pc' = [pc EXCEPT ![p] = h], job' = [job EXCEPT ![p] = j],
         UNCHANGED <<setting, dirs, acked, edited>>, file' \in [Objects -> Files],
         mishaps' \in mishaps..MaxMishaps, updates' \in Nat, holder' \in Procs \cup {None},
         Ongoing(p, h, j)',
         \A q \in Procs \ {p}, g \in Calling, i \in Jobs :
           g = pc[q] /\ i = job[q] /\ Ongoing(q, g, i) => Ongoing(q, g, i)',
         \A o \in Objects : (\E d \in Possible : d[document] = o) =>
           /\ file'[o].text = file[o].text /\ file'[o].synced = file[o].synced
           /\ file'[o].meta \in {file[o].meta, "private"},
         mishaps' = 0 => pc[p] \notin {"linksync", "unlink"},
         mishaps' = 0 /\ Document # None /\ file'[Document].meta = "root" => ~Handing(pc[p], job[p])
  PROVE  PublicationInv'
<1>0. mishaps \in Nat /\ (mishaps' = 0 => mishaps = 0) /\ mishaps' \in 0..MaxMishaps
  BY FilePublicationAssumption DEF PublicationInv, CountTypes
<1>1. dirs' = dirs /\ acked' = acked /\ edited' = edited /\ UNCHANGED setting
  OBVIOUS
<1>2. names' = names /\ Possible' = Possible /\ Document' = Document
  BY <1>1 DEF names, Possible, Document
<1>3. ProcTypes' /\ Working'
  BY ActorMoves
<1>4. FolderTypes' /\ CountTypes'
  BY <1>0, <1>1 DEF PublicationInv, FolderTypes, CountTypes, setting
<1>5. \A d \in Possible : d[document] \in Objects \cup {None}
  BY NamesFacts, NamesAreApart DEF Folders, PublicationInv
<1>6. Whole'
  <2> SUFFICES ASSUME NEW d \in Possible PROVE Shared(d)' /\ Sound(d)'
    BY <1>2 DEF Whole
  <2>1. Shared(d) /\ Sound(d)
    BY DEF PublicationInv, Whole
  <2>2. Shared(d)'
    BY <1>1, <2>1 DEF Shared, setting
  <2>3. PICK o : o = d[document]
    OBVIOUS
  <2>4. ASSUME o # None
        PROVE  /\ file'[o].synced /\ file'[o].text # Torn /\ (file'[o].meta = "open" => edited)
               /\ (file'[o].meta = "root" => Child)
    <3>1. o \in Objects
      BY <1>5, <2>3, <2>4
    <3>2. /\ file'[o].text = file[o].text /\ file'[o].synced = file[o].synced
          /\ file'[o].meta \in {file[o].meta, "private"}
      BY <2>3, <3>1
    <3>3. /\ file[o].synced /\ file[o].text # Torn /\ (file[o].meta = "open" => edited)
          /\ (file[o].meta = "root" => Child)
      BY <2>1, <2>3, <2>4 DEF Sound
    <3> QED BY <3>2, <3>3
  <2>5. Sound(d)'
    BY <1>1, <2>3, <2>4 DEF Sound, setting, Child
  <2> QED BY <2>2, <2>5
<1>7. Paired'
  <2> SUFFICES ASSUME mishaps' = 0, NEW n \in Names, NEW m \in Names, n # m, names[n] = names[m], names[n] # None
               PROVE  \E q \in Procs : Linking(pc[q], job[q], n, m)'
    BY <1>2 DEF Paired, Linking
  <2>1. PICK q \in Procs : Linking(pc[q], job[q], n, m)
    BY <1>0 DEF PublicationInv, Paired
  <2>2. q # p
    BY <2>1 DEF Linking
  <2>3. pc'[q] = pc[q] /\ job'[q] = job[q]
    BY <2>2 DEF PublicationInv, ProcTypes
  <2> QED BY <1>2, <2>1, <2>3 DEF Linking
<1>8. HandedOver'
  <2> SUFFICES ASSUME mishaps' = 0, Child
               PROVE  /\ \A d \in Possible : d[document] \in {None, Document}
                      /\ Document # None /\ file'[Document].meta = "root" =>
                           \E q \in Root : Handing(pc[q], job[q])'
    BY <1>1, <1>2 DEF HandedOver, setting, Child
  <2>1. \A d \in Possible : d[document] \in {None, Document}
    BY <1>0 DEF PublicationInv, HandedOver
  <2>2. ASSUME Document # None, file'[Document].meta = "root"
        PROVE  \E q \in Root : Handing(pc[q], job[q])'
    <3>1. Document \in Objects /\ Document = names[document] /\ names \in Possible
      BY <2>2, DocumentIsTyped
    <3>2. file[Document].meta = "root"
      BY <2>2, <3>1
    <3>3. PICK q \in Root : Handing(pc[q], job[q])
      BY <1>0, <2>2, <3>2 DEF PublicationInv, HandedOver
    <3>4. q \in Procs /\ q # p
      BY <2>2, <3>3, FilePublicationAssumption
    <3>5. pc'[q] = pc[q] /\ job'[q] = job[q]
      BY <3>4 DEF PublicationInv, ProcTypes
    <3> QED BY <1>2, <3>3, <3>5 DEF Handing
  <2> QED BY <2>1, <2>2
<1>9. AcknowledgedStays'
  <2> SUFFICES ASSUME ~edited, NEW d \in Possible
               PROVE  acked \subseteq IF d[document] = None THEN {} ELSE file'[d[document]].text
    BY <1>1, <1>2 DEF AcknowledgedStays
  <2>1. PICK o : o = d[document]
    OBVIOUS
  <2>2. acked \subseteq IF o = None THEN {} ELSE file[o].text
    BY <2>1 DEF PublicationInv, AcknowledgedStays
  <2>3. o # None => file'[o].text = file[o].text
    BY <1>5, <2>1
  <2> QED BY <2>1, <2>2, <2>3
<1> QED BY <1>3, <1>4, <1>6, <1>7, <1>8, <1>9 DEF PublicationInv

LEMMA OwnerChanged ==
  ASSUME PublicationInv, NEW x, NEW meta \in Metas, file' = [file EXCEPT ![x].meta = meta]
  PROVE  /\ file' \in [Objects -> Files]
         /\ \A o \in Objects : /\ file'[o].text = file[o].text /\ file'[o].synced = file[o].synced
                               /\ file'[o].meta \in {file[o].meta, meta} /\ (o # x => file'[o] = file[o])
         /\ x \in Objects => file'[x].meta = meta
<1>0. file \in [Objects -> Files]
  BY DEF PublicationInv, FolderTypes
<1>1. CASE x \in Objects
  <2>1. PICK r : r = [file[x] EXCEPT !.meta = meta]
    OBVIOUS
  <2>2. r \in Files /\ r.text = file[x].text /\ r.synced = file[x].synced /\ r.meta = meta
    BY <1>0, <1>1, <2>1 DEF Files
  <2>3. file' = [file EXCEPT ![x] = r]
    BY <2>1
  <2> QED BY <1>0, <1>1, <2>2, <2>3
<1>2. CASE x \notin Objects
  <2>1. file' = [o \in Objects |-> file[o]]
    BY <1>0, <1>2
  <2> QED BY <1>0, <1>2, <2>1
<1> QED BY <1>1, <1>2

\* The file of a temporary is no document and no other one's temporary.
LEMMA TemporaryIsApart ==
  ASSUME PublicationInv, NEW t \in Temporaries, names[t] # None, NEW n \in Temporaries, n # t
  PROVE  names[n] # names[t]
<1>1. Shared(names)
  BY NamesFacts DEF PublicationInv, Whole
<1> QED BY <1>1, NamesAreApart DEF Shared

LEMMA LockOwnKeeps ==
  ASSUME PublicationInv, NEW p \in Procs, LockOwn(p)
  PROVE  PublicationInv'
<1>1. /\ pc[p] = "lockown" /\ Goto(p, "lockwait") /\ UNCHANGED job
      /\ UNCHANGED <<setting, dirs, holder, acked, counts>>
      /\ file' = [file EXCEPT ![names[lock]].meta = "private"]
  BY DEF LockOwn, Advance, At
<1>2. PICK j \in Jobs : j = job[p]
  BY Actor
<1>3. Shape(p, "lockown", j)
  BY <1>1, <1>2, Actor DEF Ongoing
<1>4. Shape(p, "lockwait", j) /\ "lockwait" \in Calling
  BY <1>3 DEF Shape, Deciding, Filled, After, Making, Calling, Waiting
<1>5. holder' = holder /\ dirs' = dirs /\ acked' = acked /\ edited' = edited /\ UNCHANGED setting
  BY <1>1 DEF counts
<1>6. names' = names /\ Possible' = Possible /\ Document' = Document
  BY <1>5 DEF names, Possible, Document
<1>7. PICK x : x = names[lock]
  OBVIOUS
<1>8. PICK meta \in Metas : meta = "private"
  BY DEF Metas
<1>9. file' = [file EXCEPT ![x].meta = meta] /\ file \in [Objects -> Files]
  BY <1>1, <1>7, <1>8 DEF PublicationInv, FolderTypes
<1>10. /\ file' \in [Objects -> Files]
       /\ \A o \in Objects : /\ file'[o].text = file[o].text /\ file'[o].synced = file[o].synced
                             /\ file'[o].meta \in {file[o].meta, "private"}
                             /\ o # x => file'[o] = file[o]
  <2>1. \A o \in Objects : file'[o].meta \in {file[o].meta, meta}
    BY <1>8, <1>9, OwnerChanged
  <2> QED BY <1>8, <1>9, <2>1, OwnerChanged
<1>11. DocumentStays
  BY <1>6, <1>10, DocumentIsTyped DEF DocumentStays
<1>12. ASSUME NEW q \in Procs \ {p} PROVE TemporariesStay(q)
  <2> SUFFICES ASSUME NEW n \in Temporaries, names[n] # None, \A d \in Possible : d[document] # names[n]
               PROVE  file'[names[n]] = file[names[n]]
    BY <1>6 DEF TemporariesStay
  <2>1. Shared(names) /\ n \in Names /\ lock \in Names /\ n # lock /\ n # document /\ lock # document
    BY NamesFacts, NamesAreApart DEF PublicationInv, Whole
  <2>2. names[n] # x
    BY <1>7, <2>1, NamesAreApart DEF Shared
  <2>3. names[n] \in Objects
    BY <2>1, NamesFacts DEF Folders, PublicationInv
  <2> QED BY <1>10, <2>2, <2>3
<1>13. \A q \in Procs \ {p}, g \in Calling, i \in Jobs : g = pc[q] /\ i = job[q] /\ Ongoing(q, g, i) => Ongoing(q, g, i)'
  BY <1>5, <1>11, <1>12, OthersGoOn
<1>14. Ongoing(p, "lockwait", j)'
  <2>1. Shape(p, "lockwait", j)'
    BY <1>4, <1>5, ShapeKept
  <2>2. Exclusive(p, "lockwait", j)' /\ Private("lockwait", j)' /\ Looking("lockwait", j)' /\ Based("lockwait", j)'
    BY DEF Exclusive, Private, Looking, Based, Done, Deciding, Filled, After, Making, Waiting
  <2> QED BY <2>1, <2>2 DEF Ongoing
<1>15. pc' = [pc EXCEPT ![p] = "lockwait"] /\ job' = [job EXCEPT ![p] = j]
  BY <1>1, <1>2 DEF Goto, PublicationInv, ProcTypes
<1>16. mishaps' \in mishaps..MaxMishaps /\ updates' \in Nat /\ holder' \in Procs \cup {None}
  BY <1>1, Actor DEF counts, PublicationInv, CountTypes
<1>17. ~Handing(pc[p], job[p]) /\ pc[p] \notin {"linksync", "unlink"}
  BY <1>1 DEF Handing
<1> QED BY <1>4, <1>5, <1>10, <1>13, <1>14, <1>15, <1>16, <1>17, FilesKeep

LEMMA OwnDirectoryKeeps ==
  ASSUME PublicationInv, NEW p \in Procs, OwnDirectory(p)
  PROVE  PublicationInv'
<1>1. /\ pc[p] = "owndir" /\ Goto(p, "checkdir") /\ UNCHANGED job
      /\ UNCHANGED <<setting, dirs, holder, acked, counts>>
      /\ file' = [file EXCEPT ![job[p].opened].meta = IF @ = "root" THEN "private" ELSE @]
  BY DEF OwnDirectory, Advance, At
<1>2. PICK j \in Jobs : j = job[p]
  BY Actor
<1>3. Shape(p, "owndir", j) /\ Based("owndir", j)
  BY <1>1, <1>2, Actor DEF Ongoing
<1>4. Shape(p, "checkdir", j) /\ "checkdir" \in Calling /\ Child /\ ~j.locked /\ j.opened \in Objects /\ j.create
  BY <1>3 DEF Shape, Deciding, Filled, After, Making, Calling
<1>5. holder' = holder /\ dirs' = dirs /\ acked' = acked /\ edited' = edited /\ UNCHANGED setting
  BY <1>1 DEF counts
<1>6. names' = names /\ Possible' = Possible /\ Document' = Document
  BY <1>5 DEF names, Possible, Document
<1>7. PICK x \in Objects : x = j.opened
  BY <1>4
<1>8. file \in [Objects -> Files] /\ "private" \in Metas
  BY DEF PublicationInv, FolderTypes, Metas
<1>9. PICK meta : meta = IF file[x].meta = "root" THEN "private" ELSE file[x].meta
  OBVIOUS
<1>10. meta \in Metas /\ meta \in {file[x].meta, "private"} /\ meta # "root"
  BY <1>8, <1>9 DEF Files
<1>11. file' = [file EXCEPT ![x].meta = meta]
  BY <1>1, <1>2, <1>7, <1>8, <1>9
<1>12. /\ file' \in [Objects -> Files] /\ file'[x].meta # "root"
       /\ \A o \in Objects : /\ file'[o].text = file[o].text /\ file'[o].synced = file[o].synced
                             /\ file'[o].meta \in {file[o].meta, "private"}
                             /\ o # x => file'[o] = file[o]
  <2>1. /\ file' \in [Objects -> Files] /\ file'[x].meta = meta
        /\ \A o \in Objects : /\ file'[o].text = file[o].text /\ file'[o].synced = file[o].synced
                              /\ o # x => file'[o] = file[o]
    <3>1. x \in Objects /\ meta \in Metas
      BY <1>7, <1>10
    <3> QED BY <1>11, <3>1, OwnerChanged
  <2>2. \A o \in Objects : file'[o].meta \in {file[o].meta, "private"}
    BY <1>10, <2>1
  <2> QED BY <1>10, <2>1, <2>2
<1>13. DocumentStays
  BY <1>6, <1>12, DocumentIsTyped DEF DocumentStays
<1>14. ASSUME NEW q \in Procs \ {p}, NEW g \in Calling, NEW i \in Jobs, g = pc[q], i = job[q], Ongoing(q, g, i)
       PROVE  Ongoing(q, g, i)'
  <2>1. Shape(q, g, i) /\ Based(g, i) /\ Looking(g, i) /\ Exclusive(q, g, i)
    BY <1>14 DEF Ongoing
  <2>2. g \notin Deciding
    BY <1>4, <2>1 DEF Shape, Deciding, After
  <2>3. Shape(q, g, i)' /\ Based(g, i)'
    BY <1>5, <1>13, <2>1, ShapeKept, BasedKept
  <2>4. Looking(g, i)'
    BY <1>5, <1>6, <2>1, LookingKept
  <2>5. Private(g, i)'
    BY <2>2 DEF Private, Filled, Deciding
  <2>6. Exclusive(q, g, i)'
    BY <1>5, <2>1 DEF Exclusive
  <2> QED BY <2>3, <2>4, <2>5, <2>6 DEF Ongoing
<1>15. Ongoing(p, "checkdir", j)'
  <2>1. Shape(p, "checkdir", j)'
    BY <1>4, <1>5, ShapeKept
  <2>2. Exclusive(p, "checkdir", j)' /\ Private("checkdir", j)' /\ Looking("checkdir", j)'
    BY <1>4 DEF Exclusive, Private, Looking, Filled
  <2>3. Based("checkdir", j)
    BY <1>3, <1>4 DEF Based, Done, Deciding, After, Making
  <2>4. Based("checkdir", j)'
    BY <1>5, <1>13, <2>3, BasedKept
  <2> QED BY <2>1, <2>2, <2>4 DEF Ongoing
<1>16. pc' = [pc EXCEPT ![p] = "checkdir"] /\ job' = [job EXCEPT ![p] = j]
  BY <1>1, <1>2 DEF Goto, PublicationInv, ProcTypes
<1>17. mishaps' \in mishaps..MaxMishaps /\ updates' \in Nat /\ holder' \in Procs \cup {None}
  BY <1>1, Actor DEF counts, PublicationInv, CountTypes
<1>18. file'[Document].meta = "root" => ~Handing(pc[p], job[p])
  BY <1>1, <1>2, <1>7, <1>12 DEF Handing
<1>19. pc[p] \notin {"linksync", "unlink"}
  BY <1>1
<1> QED BY <1>4, <1>5, <1>12, <1>14, <1>15, <1>16, <1>17, <1>18, <1>19, FilesKeep

\* What is written is the temporary of who writes.
LEMMA WritingFacts ==
  ASSUME PublicationInv, NEW p \in Procs, pc[p] = "write", NEW r \in Files,
         file' = [file EXCEPT ![Temporary(p)] = r], UNCHANGED dirs
  PROVE  /\ file' \in [Objects -> Files] /\ file'[Temporary(p)] = r
         /\ names' = names /\ Possible' = Possible /\ Document' = Document
         /\ \A d \in Possible : d[document] # None => file'[d[document]] = file[d[document]]
         /\ DocumentStays /\ \A q \in Procs \ {p} : TemporariesStay(q)
<1>1. PICK i \in Jobs : i = job[p]
  BY Actor
<1>2. Shape(p, "write", i) /\ Private("write", i)
  BY <1>1, Actor DEF Ongoing
<1>3. i.temp \in Temporaries /\ i.temp[1] = p /\ i.temp \in Names
  BY <1>2, NamesAreApart DEF Shape, Jobs
<1>4. PICK x : x = names[i.temp]
  OBVIOUS
<1>5. x \in Objects /\ x # None /\ \A d \in Possible : d[document] # x
  BY <1>2, <1>3, <1>4, NamesFacts, NamesAreApart DEF Private, Folders, PublicationInv
<1>6. x = Temporary(p)
  BY <1>1, <1>4 DEF Temporary
<1>7. names' = names /\ Possible' = Possible /\ Document' = Document
  BY DEF names, Possible, Document
<1>8. file' \in [Objects -> Files] /\ file'[x] = r /\ \A o \in Objects : o # x => file'[o] = file[o]
  BY <1>5, <1>6 DEF PublicationInv, FolderTypes
<1>9. \A d \in Possible : d[document] # None => file'[d[document]] = file[d[document]]
  BY <1>5, <1>8, NamesFacts, NamesAreApart DEF Folders, PublicationInv
<1>10. DocumentStays
  BY <1>7, <1>9, DocumentIsTyped DEF DocumentStays
<1>11. ASSUME NEW q \in Procs \ {p} PROVE TemporariesStay(q)
  <2> SUFFICES ASSUME NEW n \in Temporaries, n[1] = q, names[n] # None, \A d \in Possible : d[document] # names[n]
               PROVE  file'[names[n]] = file[names[n]]
    BY <1>7 DEF TemporariesStay
  <2>1. n # i.temp
    BY <1>3
  <2>2. names[n] # x
    BY <1>3, <1>4, <1>5, <2>1, TemporaryIsApart
  <2>3. names[n] \in Objects
    BY NamesAreApart, NamesFacts DEF Folders, PublicationInv
  <2> QED BY <1>8, <2>2, <2>3
<1> QED BY <1>6, <1>7, <1>8, <1>9, <1>10, <1>11

LEMMA WriteKeeps ==
  ASSUME PublicationInv, NEW p \in Procs, Write(p)
  PROVE  PublicationInv'
<1>1. /\ pc[p] = "write" /\ Goto(p, "revalidate") /\ UNCHANGED job
      /\ UNCHANGED <<setting, dirs, holder, acked, counts>>
  BY DEF Write, Advance, At
<1>2. PICK j \in Jobs : j = job[p]
  BY Actor
<1>3. Shape(p, "write", j) /\ Exclusive(p, "write", j) /\ Private("write", j) /\ Based("write", j)
  BY <1>1, <1>2, Actor DEF Ongoing
<1>4. Shape(p, "revalidate", j) /\ "revalidate" \in Calling
  BY <1>3 DEF Shape, Deciding, Filled, After, Making, Calling
<1>5. holder' = holder /\ dirs' = dirs /\ acked' = acked /\ edited' = edited /\ UNCHANGED setting
  BY <1>1 DEF counts
<1>6. PICK x : x = names[j.temp]
  OBVIOUS
<1>7. j.temp \in Temporaries /\ x \in Objects /\ x = Temporary(p) /\ file \in [Objects -> Files]
      /\ (\A d \in Possible : d[document] # x)
  <2>1. j.temp \in Temporaries /\ j.temp \in Names
    BY <1>3, NamesAreApart DEF Shape, Jobs
  <2>2. x \in Objects /\ \A d \in Possible : d[document] # x
    BY <1>3, <1>6, <2>1, NamesFacts DEF Private, Folders, PublicationInv
  <2> QED BY <1>2, <1>6, <2>1, <2>2 DEF Temporary, PublicationInv, FolderTypes
<1>8. PICK meta : meta = OwnMeta(p)
  OBVIOUS
<1>9. meta \in {"private", "shared"}
  BY <1>2, <1>3, <1>8 DEF OwnMeta, Shape
<1>10. PICK text : text = j.seen \cup {j.update}
  OBVIOUS
<1>11. text \in SUBSET Nat
  BY <1>10 DEF Jobs
<1>12. PICK r : r = [file[x] EXCEPT !.meta = meta, !.text = text, !.synced = TRUE]
  OBVIOUS
<1>13. r \in Files /\ r.meta = meta /\ r.text = text /\ r.synced
  <2>1. file[x] \in Files /\ meta \in Metas
    BY <1>7, <1>9 DEF Metas
  <2> QED BY <1>11, <1>12, <2>1 DEF Files
<1>14. file' = [file EXCEPT ![Temporary(p)] = r]
  <2>1. file' = [file EXCEPT ![x] = [@ EXCEPT !.meta = meta, !.text = text, !.synced = TRUE]]
    BY <1>2, <1>7, <1>8, <1>10 DEF Write
  <2> QED BY <1>7, <1>12, <2>1
<1>15. /\ file' \in [Objects -> Files] /\ file'[x] = r
       /\ names' = names /\ Possible' = Possible /\ Document' = Document
       /\ \A d \in Possible : d[document] # None => file'[d[document]] = file[d[document]]
       /\ DocumentStays /\ \A q \in Procs \ {p} : TemporariesStay(q)
  BY <1>1, <1>5, <1>7, <1>13, <1>14, WritingFacts
<1>16. \A q \in Procs \ {p}, g \in Calling, i \in Jobs : g = pc[q] /\ i = job[q] /\ Ongoing(q, g, i) => Ongoing(q, g, i)'
  BY <1>5, <1>15, OthersGoOn
<1>17. Ongoing(p, "revalidate", j)'
  <2>1. Shape(p, "revalidate", j)'
    BY <1>4, <1>5, ShapeKept
  <2>2. Exclusive(p, "revalidate", j)' /\ Looking("revalidate", j)'
    BY <1>3, <1>5 DEF Exclusive, Looking, Waiting
  <2>3. Based("revalidate", j)
    BY <1>3 DEF Based, Done, Deciding, After, Making
  <2>4. Based("revalidate", j)'
    BY <1>5, <1>15, <2>3, BasedKept
  <2>5. Private("revalidate", j)'
    BY <1>6, <1>7, <1>9, <1>10, <1>13, <1>15, NamesAreApart DEF Private, Filled
  <2> QED BY <2>1, <2>2, <2>4, <2>5 DEF Ongoing
<1>18. pc' = [pc EXCEPT ![p] = "revalidate"] /\ job' = [job EXCEPT ![p] = j]
  BY <1>1, <1>2 DEF Goto, PublicationInv, ProcTypes
<1>19. mishaps' \in mishaps..MaxMishaps /\ updates' \in Nat /\ holder' \in Procs \cup {None}
  BY <1>1, Actor DEF counts, PublicationInv, CountTypes
<1>20. ~Handing(pc[p], job[p]) /\ pc[p] \notin {"linksync", "unlink"}
  BY <1>1 DEF Handing
<1>21. \A o \in Objects : (\E d \in Possible : d[document] = o) => file'[o] = file[o]
  BY <1>15, NamesAreApart
<1> QED BY <1>4, <1>5, <1>15, <1>16, <1>17, <1>18, <1>19, <1>20, <1>21, FilesKeep

\* A file that is left half written is nobody's any more.
LEMMA TornKeeps ==
  ASSUME PublicationInv, NEW p \in Procs, pc[p] = "write", NEW h \in {"idle", "unlock", "cleanup"}, NEW j \in Jobs,
         pc' = [pc EXCEPT ![p] = h], job' = [job EXCEPT ![p] = j], Shape(p, h, j), Exclusive(p, h, j)',
         file' = [file EXCEPT ![Temporary(p)].text = Torn],
         UNCHANGED <<setting, dirs, acked, edited, updates>>, mishaps < MaxMishaps, mishaps' = mishaps + 1,
         holder' \in Procs \cup {None}, \A q \in Procs \ {p} : holder = q => holder' = q
  PROVE  PublicationInv'
<1>1. PICK r : r = [file[Temporary(p)] EXCEPT !.text = Torn]
  OBVIOUS
<1>2. Temporary(p) \in Objects
  <2>1. PICK i \in Jobs : i = job[p]
    BY Actor
  <2>2. Shape(p, "write", i) /\ Private("write", i)
    BY <2>1, Actor DEF Ongoing
  <2>3. i.temp \in Names /\ names[i.temp] # None
    BY <2>2, NamesAreApart DEF Shape, Jobs, Private
  <2> QED BY <2>1, <2>3, NamesFacts DEF Temporary, Folders, PublicationInv
<1>3. r \in Files
  <2>1. file[Temporary(p)] \in Files /\ Torn \in SUBSET Nat
    BY <1>2 DEF PublicationInv, FolderTypes, Torn
  <2> QED BY <1>1, <2>1 DEF Files
<1>4. file' = [file EXCEPT ![Temporary(p)] = r]
  BY <1>1
<1>5. /\ file' \in [Objects -> Files]
      /\ names' = names /\ Possible' = Possible /\ Document' = Document
      /\ \A d \in Possible : d[document] # None => file'[d[document]] = file[d[document]]
      /\ DocumentStays /\ \A q \in Procs \ {p} : TemporariesStay(q)
  BY <1>3, <1>4, WritingFacts
<1>6. \A q \in Procs \ {p}, g \in Calling, i \in Jobs : g = pc[q] /\ i = job[q] /\ Ongoing(q, g, i) => Ongoing(q, g, i)'
  BY <1>5, OthersGoOn
<1>7. Ongoing(p, h, j)'
  <2>1. Shape(p, h, j)'
    BY ShapeKept
  <2>2. Private(h, j)' /\ Looking(h, j)' /\ Based(h, j)'
    BY DEF Private, Looking, Based, Done, Deciding, Filled, After, Making
  <2> QED BY <2>1, <2>2 DEF Ongoing
<1>8. mishaps' \in mishaps..MaxMishaps /\ updates' \in Nat /\ mishaps' # 0 /\ h \in Calling
  BY Actor DEF Calling, Waiting
<1>9. \A o \in Objects : (\E d \in Possible : d[document] = o) => file'[o] = file[o]
  BY <1>5, NamesAreApart
<1> QED BY <1>5, <1>6, <1>7, <1>8, <1>9, FilesKeep

LEMMA FailKeeps ==
  ASSUME PublicationInv, NEW p \in Procs, Fail(p)
  PROVE  PublicationInv'
<1>1. CASE pc[p] # "write"
  BY <1>1, FailureKeeps
<1>2. CASE pc[p] = "write"
  <2>1. Refuse(p) /\ file' = [file EXCEPT ![Temporary(p)].text = Torn]
    BY <1>2 DEF Fail
  <2>2. PICK h \in {"idle", "unlock", "cleanup"}, j \in Jobs :
          /\ pc' = [pc EXCEPT ![p] = h] /\ job' = [job EXCEPT ![p] = j] /\ Shape(p, h, j)
          /\ h = "cleanup" => j = job[p] /\ pc[p] \notin Waiting
    BY <2>1, LeavingFacts
  <2>3. /\ UNCHANGED <<setting, dirs, acked, edited, updates>> /\ mishaps < MaxMishaps /\ mishaps' = mishaps + 1
        /\ holder' = holder
    BY DEF Fail
  <2>4. Exclusive(p, h, j)'
    <3>1. CASE h = "cleanup"
      BY <2>2, <2>3, <3>1, Actor DEF Ongoing, Exclusive
    <3>2. CASE h # "cleanup"
      BY <3>2 DEF Exclusive, Waiting
    <3> QED BY <3>1, <3>2
  <2>5. holder' \in Procs \cup {None}
    BY <2>3 DEF PublicationInv, CountTypes
  <2> QED BY <1>2, <2>1, <2>2, <2>3, <2>4, <2>5, TornKeeps
<1> QED BY <1>1, <1>2

LEMMA KillKeeps ==
  ASSUME PublicationInv, NEW p \in Procs, Kill(p)
  PROVE  PublicationInv'
<1>1. CASE pc[p] # "write"
  BY <1>1, KilledKeeps
<1>2. CASE pc[p] = "write"
  <2>1. /\ pc' = [pc EXCEPT ![p] = "idle"] /\ job' = [job EXCEPT ![p] = NoJob]
        /\ file' = [file EXCEPT ![Temporary(p)].text = Torn]
    BY <1>2 DEF Kill, Keep
  <2>2. UNCHANGED <<setting, dirs, acked, edited, updates>> /\ mishaps < MaxMishaps /\ mishaps' = mishaps + 1
    BY DEF Kill
  <2>3. NoJob \in Jobs /\ Shape(p, "idle", NoJob) /\ Exclusive(p, "idle", NoJob)'
    BY NoJobFacts DEF Exclusive, Waiting
  <2>4. holder' \in Procs \cup {None} /\ \A q \in Procs \ {p} : holder = q => holder' = q
    BY DEF Kill, PublicationInv, CountTypes
  <2> QED BY <1>2, <2>1, <2>2, <2>3, <2>4, TornKeeps
<1> QED BY <1>1, <1>2

-----------------------------------------------------------------------------
\* The steps that change a name.

\* A step that adds a directory and leaves the files alone that were documents.
LEMMA NamesKeep ==
  ASSUME PublicationInv, NEW d \in Folders, dirs' = Append(dirs, d), file' \in [Objects -> Files],
         \A e \in Possible : e[document] # None => file'[e[document]] = file[e[document]],
         UNCHANGED <<setting, acked>>, edited => edited', edited' \in BOOLEAN, holder' \in Procs \cup {None},
         mishaps' \in mishaps..MaxMishaps, updates' \in Nat,
         ProcTypes', Working', Shared(d), Sound(d)', Paired', HandedOver',
         ~edited' => acked \subseteq IF d[document] = None THEN {} ELSE file'[d[document]].text
  PROVE  PublicationInv'
<1>1. dirs' \in Seq(Folders) /\ dirs' # <<>> /\ names' = d /\ Possible' = Possible \cup {d}
  BY Appended DEF PublicationInv
<1>2. mishaps' \in 0..MaxMishaps
  BY Actor, FilePublicationAssumption DEF PublicationInv, CountTypes
<1>3. FolderTypes' /\ CountTypes'
  BY <1>1, <1>2 DEF PublicationInv, FolderTypes, CountTypes, setting
<1>4. ASSUME NEW e \in Possible
      PROVE  Shared(e)' /\ Sound(e)'
  <2>1. Shared(e) /\ Sound(e)
    BY DEF PublicationInv, Whole
  <2>2. Shared(e)'
    BY <2>1 DEF Shared, setting
  <2>3. Sound(e)'
    BY <2>1 DEF Sound, setting, Child
  <2> QED BY <2>2, <2>3
<1>5. Shared(d)'
  BY DEF Shared, setting
<1>6. Whole'
  BY <1>1, <1>4, <1>5 DEF Whole
<1>7. AcknowledgedStays'
  <2> SUFFICES ASSUME ~edited', NEW e \in Possible'
               PROVE  acked \subseteq IF e[document] = None THEN {} ELSE file'[e[document]].text
    BY DEF AcknowledgedStays
  <2>1. CASE e = d
    BY <2>1
  <2>2. CASE e \in Possible
    BY <2>2 DEF PublicationInv, AcknowledgedStays
  <2> QED BY <1>1, <2>1, <2>2
<1> QED BY <1>3, <1>6, <1>7 DEF PublicationInv

\* The directory gets one in which n leads to x, and the files are what they were.
Added(n, x, d) ==
  /\ d = [names EXCEPT ![n] = x] /\ dirs' = Append(dirs, d) /\ names' = d /\ Possible' = Possible \cup {d}
  /\ file' \in [Objects -> Files] /\ \A o \in Objects : o # x => file'[o] = file[o]
Unnamed(x) == \A e \in Possible : \A m \in Names : e[m] # x
NewFile(n, x, d, text, meta, synced) ==
  /\ Added(n, x, d) /\ Unnamed(x)
  /\ file'[x].text = text /\ file'[x].meta = meta /\ file'[x].synced = synced
  /\ \A q \in Procs : job[q].opened # x

\* A new file, of whatever name.
LEMMA CreatedFacts ==
  ASSUME PublicationInv, NEW n \in Names, NEW text \in SUBSET Nat, NEW meta \in Metas, NEW synced \in BOOLEAN,
         Create(n, text, meta, synced)
  PROVE  \E x \in Objects, d \in Folders : NewFile(n, x, d, text, meta, synced)
<1>1. PICK x \in Objects : x = Fresh /\ (\A e \in Possible : \A m \in Names : e[m] # x) /\ (\A q \in Procs : job[q].opened # x)
  BY FreshIsNew DEF Create, PublicationInv
<1>2. PICK ino \in Objects : ino = FreeNumber(n)
  BY DEF Create, FreeNumber
<1>3. PICK d : d = [names EXCEPT ![n] = x]
  OBVIOUS
<1>4. d \in Folders
  BY <1>1, <1>3, NamesFacts DEF Folders, PublicationInv
<1>5. dirs' = Append(dirs, d)
  BY <1>1, <1>3 DEF Create, Named
<1>6. names' = d /\ Possible' = Possible \cup {d}
  BY <1>4, <1>5, Appended DEF PublicationInv
<1>7. PICK r : r = [ino |-> ino, text |-> text, meta |-> meta, synced |-> synced]
  OBVIOUS
<1>8. r \in Files /\ r.text = text /\ r.meta = meta /\ r.synced = synced
  BY <1>2, <1>7 DEF Files
<1>9. file' = [file EXCEPT ![x] = r]
  BY <1>1, <1>2, <1>7 DEF Create
<1>10. file' \in [Objects -> Files] /\ file'[x] = r /\ \A o \in Objects : o # x => file'[o] = file[o]
  BY <1>1, <1>8, <1>9 DEF PublicationInv, FolderTypes
<1> QED BY <1>1, <1>3, <1>4, <1>5, <1>6, <1>8, <1>10 DEF NewFile, Added, Unnamed

\* What stays where another name than the document's leads elsewhere.
LEMMA AnotherName ==
  ASSUME PublicationInv, NEW p \in Procs,
         NEW n \in Names, n = lock \/ (n \in Temporaries /\ n[1] = p), NEW x, NEW d \in Folders,
         Added(n, x, d), x = None \/ Unnamed(x)
  PROVE  /\ Document' = Document /\ DocumentStays /\ Shared(d)
         /\ \A q \in Procs \ {p} : TemporariesStay(q)
         /\ \A e \in Possible : \A m \in Names : e[m] # None => e[m] # x /\ file'[e[m]] = file[e[m]]
         /\ \A k, m \in Names : k # m /\ d[k] = d[m] /\ d[k] # None => k # n /\ m # n
<1>0. /\ d = [names EXCEPT ![n] = x] /\ dirs' = Append(dirs, d) /\ names' = d /\ Possible' = Possible \cup {d}
      /\ file' \in [Objects -> Files] /\ \A o \in Objects : o # x => file'[o] = file[o]
      /\ x = None \/ \A e \in Possible : \A m \in Names : e[m] # x
  BY DEF Added, Unnamed
<1>1. n # document
  BY NamesAreApart
<1>2. /\ document \in Names /\ lock \in Names /\ lock \notin Temporaries
      /\ \A m \in Temporaries : m \in Names
  BY NamesAreApart
<1>3. \A m \in Names : m # n => d[m] = names[m]
  BY <1>0, NamesFacts DEF Folders, PublicationInv
<1>4. d[n] = x
  BY <1>0, NamesFacts DEF Folders, PublicationInv
<1>5. Document' = Document /\ d[document] = Document
  BY <1>0, <1>1, <1>2, <1>3 DEF Document
<1>6. \A e \in Possible : \A m \in Names : e[m] # None => e[m] \in Objects /\ e[m] # x /\ file'[e[m]] = file[e[m]]
  BY <1>0, NamesFacts DEF Folders, PublicationInv
<1>7. DocumentStays
  BY <1>2, <1>5, <1>6, DocumentIsTyped DEF DocumentStays
<1>8. ASSUME NEW q \in Procs, NEW m \in Temporaries, m # n, names[m] # None, \A e \in Possible : e[document] # names[m]
      PROVE  /\ names'[m] = names[m] /\ file'[names[m]] = file[names[m]]
             /\ \A e \in Possible' : e[document] # names[m]
  <2>1. names \in Possible /\ m \in Names
    BY <1>2, NamesFacts DEF PublicationInv
  <2>2. names'[m] = names[m] /\ file'[names[m]] = file[names[m]]
    BY <1>0, <1>3, <1>6, <1>8, <2>1
  <2>3. d[document] # names[m]
    BY <1>5, <1>8, <2>1 DEF Document
  <2> QED BY <1>0, <1>8, <2>2, <2>3
<1>9. \A q \in Procs \ {p} : TemporariesStay(q)
  BY <1>2, <1>8 DEF TemporariesStay
<1>10. \A k, m \in Names : k # m /\ d[k] = d[m] /\ d[k] # None => k # n /\ m # n
  BY <1>0, <1>3, <1>4, NamesFacts DEF PublicationInv
<1>11. Shared(d)
  <2>1. Shared(names)
    BY NamesFacts DEF PublicationInv, Whole
  <2> QED BY <1>3, <1>10, <2>1 DEF Shared
<1> QED BY <1>5, <1>6, <1>7, <1>9, <1>10, <1>11, <1>2

\* What a step keeps that lets another name than the document's lead elsewhere.
LEMMA AnotherNameKeeps ==
  ASSUME PublicationInv, NEW p \in Procs, NEW h \in Calling, NEW j \in Jobs,
         pc' = [pc EXCEPT ![p] = h], job' = [job EXCEPT ![p] = j],
         NEW n \in Names, n = lock \/ (n \in Temporaries /\ n[1] = p), NEW x, NEW d \in Folders,
         Added(n, x, d), x = None \/ Unnamed(x),
         UNCHANGED <<setting, holder, acked, counts>>, Ongoing(p, h, j)', ~Child,
         pc[p] # "linksync", pc[p] = "unlink" => n = job[p].temp
  PROVE  PublicationInv'
<1>0. /\ d = [names EXCEPT ![n] = x] /\ dirs' = Append(dirs, d) /\ names' = d /\ Possible' = Possible \cup {d}
      /\ file' \in [Objects -> Files] /\ \A o \in Objects : o # x => file'[o] = file[o]
      /\ x = None \/ \A e \in Possible : \A m \in Names : e[m] # x
  BY DEF Added, Unnamed
<1>1. n # document
  BY NamesAreApart
<1>2. /\ Document' = Document /\ DocumentStays /\ Shared(d)
      /\ \A q \in Procs \ {p} : TemporariesStay(q)
      /\ \A e \in Possible : e[document] # None => file'[e[document]] = file[e[document]]
      /\ \A k, m \in Names : k # m /\ d[k] = d[m] /\ d[k] # None => k # n /\ m # n
  BY AnotherName, NamesAreApart
<1>3. UNCHANGED setting /\ holder' = holder /\ acked' = acked /\ edited' = edited /\ mishaps' = mishaps /\ updates' = updates
  BY DEF counts
<1>4. ProcTypes' /\ Working'
  <2>1. \A q \in Procs \ {p}, g \in Calling, i \in Jobs : g = pc[q] /\ i = job[q] /\ Ongoing(q, g, i) => Ongoing(q, g, i)'
    BY <1>2, <1>3, OthersGoOn
  <2> QED BY <2>1, ActorMoves
<1>5. mishaps' \in mishaps..MaxMishaps /\ updates' \in Nat /\ holder' \in Procs \cup {None} /\ edited' \in BOOLEAN
  BY <1>3, Actor DEF PublicationInv, CountTypes
<1>6. d[document] = Document /\ names[document] = Document /\ names \in Possible
  BY <1>0, <1>1, NamesFacts, NamesAreApart DEF Document, Folders, PublicationInv
<1>7. Sound(d)'
  <2>1. Sound(names)
    BY <1>6 DEF PublicationInv, Whole
  <2> QED BY <1>2, <1>3, <1>6, <2>1 DEF Sound, setting, Child
<1>8. HandedOver'
  BY <1>3 DEF HandedOver, setting, Child
<1>9. Paired'
  <2> SUFFICES ASSUME mishaps = 0, NEW k \in Names, NEW m \in Names, k # m, d[k] = d[m], d[k] # None
               PROVE  \E q \in Procs : Linking(pc[q], job[q], k, m)'
    BY <1>0, <1>3 DEF Paired, Linking
  <2>1. k # n /\ m # n
    BY <1>2
  <2>2. d[k] = names[k] /\ d[m] = names[m]
    BY <1>0, <2>1, NamesFacts DEF Folders, PublicationInv
  <2>3. PICK q \in Procs : Linking(pc[q], job[q], k, m)
    BY <2>2 DEF PublicationInv, Paired
  <2>4. q # p
    BY <2>1, <2>3 DEF Linking
  <2>5. pc'[q] = pc[q] /\ job'[q] = job[q]
    BY <2>4 DEF PublicationInv, ProcTypes
  <2> QED BY <1>0, <2>2, <2>3, <2>5 DEF Linking
<1>10. ~edited' => acked \subseteq IF d[document] = None THEN {} ELSE file'[d[document]].text
  <2>1. ~edited => acked \subseteq IF Document = None THEN {} ELSE file[Document].text
    BY <1>6 DEF PublicationInv, AcknowledgedStays
  <2> QED BY <1>2, <1>3, <1>6, <2>1
<1> QED BY <1>0, <1>2, <1>3, <1>4, <1>5, <1>7, <1>8, <1>9, <1>10, NamesKeep

LEMMA LockCreatedKeeps ==
  ASSUME PublicationInv, NEW p \in Procs, At(p, "lockopen"), Create(lock, {}, NewMeta(p), TRUE), Goto(p, "lockown"),
         UNCHANGED job, UNCHANGED <<setting, holder, acked, counts>>
  PROVE  PublicationInv'
<1>1. pc[p] = "lockopen"
  BY DEF At
<1>2. PICK j \in Jobs : j = job[p]
  BY Actor
<1>3. Shape(p, "lockopen", j)
  BY <1>1, <1>2, Actor DEF Ongoing
<1>4. Shape(p, "lockown", j) /\ "lockown" \in Calling /\ ~Child
  BY <1>3 DEF Shape, Deciding, Filled, After, Making, Calling, Waiting
<1>5. PICK text \in SUBSET Nat, meta \in Metas, synced \in BOOLEAN :
        lock \in Names /\ Create(lock, text, meta, synced)
  <2>1. NewMeta(p) \in Metas /\ {} \in SUBSET Nat /\ TRUE \in BOOLEAN /\ lock \in Names
    BY NamesAreApart DEF NewMeta, Metas
  <2> QED BY <2>1
<1>6. PICK x \in Objects, d \in Folders : NewFile(lock, x, d, text, meta, synced)
  BY <1>5, CreatedFacts
<1>7. Ongoing(p, "lockown", j)'
  <2>1. Shape(p, "lockown", j)'
    BY <1>4, ShapeKept
  <2>2. Exclusive(p, "lockown", j)' /\ Private("lockown", j)' /\ Looking("lockown", j)' /\ Based("lockown", j)'
    BY DEF Exclusive, Private, Looking, Based, Done, Deciding, Filled, After, Making, Waiting
  <2> QED BY <2>1, <2>2 DEF Ongoing
<1>8. pc' = [pc EXCEPT ![p] = "lockown"] /\ job' = [job EXCEPT ![p] = j]
  BY <1>2 DEF Goto, PublicationInv, ProcTypes
<1>9. Added(lock, x, d) /\ Unnamed(x)
  BY <1>6 DEF NewFile
<1> QED BY <1>1, <1>4, <1>5, <1>6, <1>7, <1>8, <1>9, AnotherNameKeeps

LEMMA LockOpenKeeps ==
  ASSUME PublicationInv, NEW p \in Procs, LockOpen(p)
  PROVE  PublicationInv'
<1>1. At(p, "lockopen") /\ UNCHANGED <<setting, holder, acked, counts>>
  BY DEF LockOpen
<1>2. CASE Create(lock, {}, NewMeta(p), TRUE) /\ Goto(p, "lockown") /\ UNCHANGED job
  BY <1>1, <1>2, LockCreatedKeeps
<1>3. CASE Proceed(p, MayOpen(p, names[lock]) /\ file[names[lock]].meta = "private", "lockwait") /\ UNCHANGED disk
  <2>1. PICK ok \in BOOLEAN : ok <=> MayOpen(p, names[lock]) /\ file[names[lock]].meta = "private"
    OBVIOUS
  <2>2. Proceed(p, ok, "lockwait")
    BY <1>3, <2>1 DEF Proceed
  <2> QED BY <1>1, <1>3, <2>2, LockFoundKeeps
<1> QED BY <1>2, <1>3 DEF LockOpen

LEMMA PrepareKeeps ==
  ASSUME PublicationInv, NEW p \in Procs, Prepare(p)
  PROVE  PublicationInv'
<1>1. pc[p] = "prepare" /\ UNCHANGED <<setting, holder, acked, counts>>
  BY DEF Prepare, At
<1>2. CASE Refuse(p) /\ UNCHANGED disk
  BY <1>1, <1>2, RefuseKeeps
<1>3. CASE /\ Create(<<p, mishaps>>, {}, NewMeta(p), FALSE) /\ Goto(p, "write")
           /\ Keep(p, [job[p] EXCEPT !.temp = <<p, mishaps>>])
  <2>1. PICK i \in Jobs : i = job[p]
    BY Actor
  <2>2. Shape(p, "prepare", i) /\ Exclusive(p, "prepare", i) /\ Based("prepare", i)
    BY <1>1, <2>1, Actor DEF Ongoing
  <2>3. PICK n : n = <<p, mishaps>>
    OBVIOUS
  <2>4. n \in Temporaries /\ n[1] = p /\ n # None /\ n \in Names /\ n # document
    <3>1. mishaps \in 0..MaxMishaps
      BY DEF PublicationInv, CountTypes
    <3>2. n \in Temporaries /\ n[1] = p
      BY <2>3, <3>1 DEF Temporaries
    <3> QED BY <3>2, NamesAreApart
  <2>5. NewMeta(p) \in Metas /\ {} \in SUBSET Nat /\ FALSE \in BOOLEAN
    BY DEF NewMeta, Metas
  <2>6. PICK text \in SUBSET Nat, meta \in Metas, synced \in BOOLEAN : Create(n, text, meta, synced)
    BY <1>3, <2>3, <2>5
  <2>7. PICK x \in Objects, d \in Folders :
          Added(n, x, d) /\ Unnamed(x)
    <3>1. PICK x \in Objects, d \in Folders : NewFile(n, x, d, text, meta, synced)
      BY <2>4, <2>6, CreatedFacts
    <3> QED BY <3>1 DEF NewFile
  <2>8. PICK j : j = [i EXCEPT !.temp = n]
    OBVIOUS
  <2>9. j \in Jobs /\ j.temp = n /\ j.create = i.create /\ j.locked = i.locked /\ j.update = i.update
        /\ j.opened = i.opened /\ j.held = i.held /\ j.expected = i.expected /\ j.seen = i.seen
    BY <2>4, <2>8 DEF Jobs
  <2>10. pc' = [pc EXCEPT ![p] = "write"] /\ job' = [job EXCEPT ![p] = j]
    BY <1>3, <2>1, <2>3, <2>8 DEF Goto, Keep
  <2>11. "write" \in Calling /\ ~Child
    BY <2>2 DEF Shape, Deciding, After, Calling
  <2>12. Shape(p, "write", j)
    BY <2>2, <2>4, <2>9 DEF Shape, Deciding, Filled, After, Making
  <2>13. edited' = edited /\ holder' = holder /\ UNCHANGED setting
    BY <1>1 DEF counts
  <2>14. document \in Names /\ names \in Folders /\ names \in Possible /\ d[document] = Document /\ Document = names[document]
         /\ d[n] = x /\ names' = d /\ Possible' = Possible \cup {d} /\ x # None
         /\ (\A e \in Possible : e[document] # x) /\ (\A o \in Objects : o # x => file'[o] = file[o])
    BY <2>4, <2>7, NamesFacts, NamesAreApart DEF Added, Unnamed, Document, Folders, PublicationInv
  <2>15. Document' = Document
    BY <2>14 DEF Document
  <2>16. DocumentStays
    <3>1. Document # x
      BY <2>14
    <3> QED BY <2>14, <2>15, <3>1, DocumentIsTyped DEF DocumentStays
  <2>17. Based("write", j)'
    <3>1. Based("write", j)
      BY <2>2, <2>9 DEF Based, Done, Deciding, After, Making
    <3> QED BY <2>13, <2>16, <3>1, BasedKept
  <2>18. Private("write", j)'
    <3>1. \A e \in Possible' : e[document] # x
      BY <2>14
    <3>2. names'[j.temp] = x /\ x # None
      BY <2>9, <2>14
    <3> QED BY <3>1, <3>2 DEF Private, Filled
  <2>19. Ongoing(p, "write", j)'
    <3>1. Shape(p, "write", j)'
      BY <2>12, <2>13, ShapeKept
    <3>2. Exclusive(p, "write", j)' /\ Looking("write", j)'
      BY <2>2, <2>9, <2>13 DEF Exclusive, Looking, Waiting
    <3> QED BY <2>17, <2>18, <3>1, <3>2 DEF Ongoing
  <2> QED BY <1>1, <2>4, <2>7, <2>9, <2>10, <2>11, <2>19, AnotherNameKeeps
<1> QED BY <1>2, <1>3 DEF Prepare

\* A name goes.
LEMMA RemovedFacts ==
  ASSUME PublicationInv, NEW n \in Names, Named(n, None), UNCHANGED file
  PROVE  \E d \in Folders : Added(n, None, d)
<1>1. PICK d : d = [names EXCEPT ![n] = None]
  OBVIOUS
<1>2. d \in Folders
  BY <1>1, NamesFacts DEF Folders, PublicationInv
<1>3. dirs' = Append(dirs, d)
  BY <1>1 DEF Named
<1>4. names' = d /\ Possible' = Possible \cup {d}
  BY <1>2, <1>3, Appended DEF PublicationInv
<1>5. file' \in [Objects -> Files]
  BY DEF PublicationInv, FolderTypes
<1> QED BY <1>1, <1>2, <1>3, <1>4, <1>5 DEF Added

LEMMA DocumentIsAside ==
  ASSUME PublicationInv, NEW n \in Names, n # document, NEW d \in Folders, Added(n, None, d), UNCHANGED file
  PROVE  Document' = Document /\ DocumentStays
<1>1. Document' = Document
  BY NamesFacts, NamesAreApart DEF Added, Document, Folders, PublicationInv
<1> QED BY <1>1 DEF DocumentStays

LEMMA UnlinkKeeps ==
  ASSUME PublicationInv, NEW p \in Procs, Unlink(p)
  PROVE  PublicationInv'
<1>1. /\ pc[p] = "unlink" /\ Goto(p, "confirm") /\ UNCHANGED job /\ Named(job[p].temp, None)
      /\ UNCHANGED <<setting, file, holder, acked, counts>>
  BY DEF Unlink, Advance, At
<1>2. PICK j \in Jobs : j = job[p]
  BY Actor
<1>3. Shape(p, "unlink", j) /\ Exclusive(p, "unlink", j) /\ Based("unlink", j)
  BY <1>1, <1>2, Actor DEF Ongoing
<1>4. Shape(p, "confirm", j) /\ "confirm" \in Calling /\ ~Child
  BY <1>3 DEF Shape, Deciding, Filled, After, Making, Calling
<1>5. PICK n \in Names : n = j.temp /\ n \in Temporaries /\ n[1] = p /\ n # document
  BY <1>3, NamesAreApart DEF Shape, Jobs
<1>6. PICK d \in Folders : Added(n, None, d)
  BY <1>1, <1>2, <1>5, RemovedFacts
<1>7. holder' = holder /\ edited' = edited /\ UNCHANGED setting /\ UNCHANGED file
  BY <1>1 DEF counts
<1>8. DocumentStays
  BY <1>5, <1>6, <1>7, DocumentIsAside
<1>9. Ongoing(p, "confirm", j)'
  <2>1. Shape(p, "confirm", j)'
    BY <1>4, <1>7, ShapeKept
  <2>2. Exclusive(p, "confirm", j)' /\ Private("confirm", j)' /\ Looking("confirm", j)'
    BY <1>3, <1>7 DEF Exclusive, Private, Looking, Filled, Waiting
  <2>3. Based("confirm", j)
    BY <1>3 DEF Based, Done, Deciding, After
  <2>4. Based("confirm", j)'
    BY <1>7, <1>8, <2>3, BasedKept
  <2> QED BY <2>1, <2>2, <2>4 DEF Ongoing
<1>10. pc' = [pc EXCEPT ![p] = "confirm"] /\ job' = [job EXCEPT ![p] = j]
  BY <1>1, <1>2 DEF Goto, PublicationInv, ProcTypes
<1>11. pc[p] # "linksync" /\ n = job[p].temp
  BY <1>1, <1>2, <1>5
<1>12. n = lock \/ (n \in Temporaries /\ n[1] = p)
  BY <1>5
<1>13. UNCHANGED <<setting, holder, acked, counts>>
  BY <1>1
<1> QED BY <1>4, <1>6, <1>9, <1>10, <1>11, <1>12, <1>13, AnotherNameKeeps

LEMMA CleanupKeeps ==
  ASSUME PublicationInv, NEW p \in Procs, Cleanup(p)
  PROVE  PublicationInv'
<1>1. /\ pc[p] = "cleanup" /\ Return(p) /\ UNCHANGED <<setting, file, holder, acked, counts>>
  BY DEF Cleanup, At
<1>2. CASE UNCHANGED dirs
  <2>1. UNCHANGED <<setting, disk, holder, acked, counts>>
    BY <1>1, <1>2 DEF disk
  <2> QED BY <1>1, <2>1, RefuseKeeps
<1>3. CASE Named(job[p].temp, None)
  <2>1. PICK i \in Jobs : i = job[p]
    BY Actor
  <2>2. Shape(p, "cleanup", i) /\ Exclusive(p, "cleanup", i)
    BY <1>1, <2>1, Actor DEF Ongoing
  <2>3. PICK n \in Names : n = i.temp /\ n \in Temporaries /\ n[1] = p /\ n # document /\ ~Child
    BY <2>2, NamesAreApart DEF Shape, Jobs
  <2>4. PICK d \in Folders : Added(n, None, d)
    BY <1>1, <1>3, <2>1, <2>3, RemovedFacts
  <2>5. PICK h \in {"idle", "unlock", "cleanup"}, j \in Jobs :
          /\ pc' = [pc EXCEPT ![p] = h] /\ job' = [job EXCEPT ![p] = j] /\ Shape(p, h, j)
          /\ h = "cleanup" => j = job[p] /\ pc[p] \notin Waiting
    BY <1>1, LeavingFacts
  <2>6. holder' = holder /\ UNCHANGED setting
    BY <1>1
  <2>7. Ongoing(p, h, j)'
    <3>1. Shape(p, h, j)'
      BY <2>5, <2>6, ShapeKept
    <3>2. Private(h, j)' /\ Looking(h, j)' /\ Based(h, j)'
      BY DEF Private, Looking, Based, Done, Deciding, Filled, After, Making
    <3>3. Exclusive(p, h, j)'
      <4>1. CASE h = "cleanup"
        BY <2>1, <2>2, <2>5, <2>6, <4>1 DEF Exclusive, Waiting
      <4>2. CASE h # "cleanup"
        BY <4>2 DEF Exclusive, Waiting
      <4> QED BY <4>1, <4>2
    <3> QED BY <3>1, <3>2, <3>3 DEF Ongoing
  <2>8. h \in Calling /\ pc[p] # "linksync" /\ pc[p] # "unlink"
    BY <1>1 DEF Calling, Waiting
  <2>9. n = lock \/ (n \in Temporaries /\ n[1] = p)
    BY <2>3
  <2>10. UNCHANGED <<setting, holder, acked, counts>> /\ ~Child
    BY <1>1, <2>3
  <2> QED BY <2>4, <2>5, <2>7, <2>8, <2>9, <2>10, AnotherNameKeeps
<1> QED BY <1>1, <1>2, <1>3 DEF Cleanup

-----------------------------------------------------------------------------
\* The publication itself.

LEMMA PublishFacts ==
  ASSUME PublicationInv, NEW p \in Procs, pc[p] = "publish", NEW i \in Jobs, i = job[p], NEW x, x = names[i.temp]
  PROVE  /\ i.temp \in Temporaries /\ i.temp \in Names /\ i.temp[1] = p /\ i.temp # document
         /\ x \in Objects /\ x # None /\ file[x].synced /\ file[x].text = i.seen \cup {i.update}
         /\ file[x].meta \in {"private", "shared"} /\ i.update # 0 /\ ~Child
         /\ \A e \in Possible : e[document] # x
         /\ \A n \in Names : n # i.temp => names[n] # x
<1>1. Shape(p, "publish", i) /\ Private("publish", i)
  BY Actor DEF Ongoing
<1>2. i.temp \in Temporaries /\ i.temp \in Names /\ i.temp[1] = p /\ i.temp # document /\ i.update # 0 /\ ~Child
  BY <1>1, NamesAreApart DEF Shape, Jobs, Filled, Deciding
<1>3. x # None /\ file[x].synced /\ file[x].text = i.seen \cup {i.update} /\ file[x].meta \in {"private", "shared"}
      /\ \A e \in Possible : e[document] # x
  BY <1>1 DEF Private, Filled
<1>4. names \in Folders /\ names \in Possible /\ Shared(names)
  BY NamesFacts DEF PublicationInv, Whole
<1>5. x \in Objects
  BY <1>2, <1>3, <1>4 DEF Folders
<1>6. \A n \in Names : n # i.temp => names[n] # x
  BY <1>2, <1>3, <1>4, NamesAreApart DEF Shared
<1> QED BY <1>2, <1>3, <1>5, <1>6

\* Whoever reads on Windows keeps the document's name where it is.
LEMMA ReadersPin ==
  ASSUME PublicationInv, NEW q \in Procs, pc[q] = "read", Windows
  PROVE  Document # None /\ Pinned(Document)
<1>1. PICK k \in Jobs : k = job[q]
  BY Actor
<1>2. Shape(q, "read", k) /\ Looking("read", k)
  BY <1>1, Actor DEF Ongoing
<1>3. k.opened = Document /\ k.opened # None /\ k.held
  BY <1>2, NamesAreApart DEF Shape, Looking
<1>4. Document \in Opened
  BY <1>1, <1>3 DEF Opened
<1> QED BY <1>3, <1>4 DEF Pinned

\* The document gets the name of the temporary's file.
Publishing(i, x, d) ==
  /\ x = names[i.temp] /\ d[document] = x /\ d[i.temp] \in {x, None}
  /\ \A n \in Names : n \notin {document, i.temp} => d[n] = names[n]
  /\ names' = d /\ Possible' = Possible \cup {d} /\ file' = file
  /\ Document = None \/ (~i.create /\ ~Pinned(Document))

LEMMA PublishedApart ==
  ASSUME PublicationInv, NEW p \in Procs, pc[p] = "publish", NEW i \in Jobs, i = job[p], NEW x, NEW d \in Folders,
         Publishing(i, x, d), NEW q \in Procs, q # p
  PROVE  TemporariesStay(q)
<1>1. /\ x = names[i.temp] /\ d[document] = x /\ names' = d /\ Possible' = Possible \cup {d} /\ file' = file
      /\ \A n \in Names : n \notin {document, i.temp} => d[n] = names[n]
  BY DEF Publishing
<1>2. i.temp[1] = p /\ i.temp # document /\ \A n \in Names : n # i.temp => names[n] # x
  BY <1>1, PublishFacts
<1> SUFFICES ASSUME NEW n \in Temporaries, n[1] = q, names[n] # None, \A e \in Possible : e[document] # names[n]
             PROVE  /\ d[n] = names[n] /\ \A e \in Possible' : e[document] # names[n]
  BY <1>1 DEF TemporariesStay
<1>3. n \in Names /\ n # i.temp /\ n # document
  BY <1>2, NamesAreApart
<1>4. d[n] = names[n] /\ names[n] # x
  BY <1>1, <1>2, <1>3
<1> QED BY <1>1, <1>4

\* No transaction loses what another has read, and no creator what is there.
LEMMA OthersSee ==
  ASSUME PublicationInv, NEW p \in Procs, pc[p] = "publish", NEW i \in Jobs, i = job[p], NEW x, NEW d \in Folders,
         Publishing(i, x, d), UNCHANGED setting, holder' = holder, edited' = edited,
         NEW q \in Procs, q # p, NEW g, NEW k \in Jobs, g = pc[q], k = job[q], Ongoing(q, g, k)
  PROVE  Ongoing(q, g, k)'
<1>1. /\ x = names[i.temp] /\ d[document] = x /\ names' = d /\ Possible' = Possible \cup {d} /\ file' = file
      /\ \A n \in Names : n \notin {document, i.temp} => d[n] = names[n]
      /\ Document = None \/ (~i.create /\ ~Pinned(Document))
  BY DEF Publishing
<1>2. /\ i.temp \in Temporaries /\ i.temp[1] = p /\ i.temp # document
      /\ x \in Objects /\ x # None /\ file[x].text = i.seen \cup {i.update} /\ i.update # 0
      /\ \A n \in Names : n # i.temp => names[n] # x
  BY <1>1, PublishFacts
<1>3. Shape(q, g, k) /\ Exclusive(q, g, k) /\ Private(g, k) /\ Looking(g, k) /\ Based(g, k)
  BY DEF Ongoing
<1>4. Shape(p, "publish", i) /\ Exclusive(p, "publish", i) /\ Based("publish", i)
  BY Actor DEF Ongoing
<1>5. Document' = x
  BY <1>1 DEF Document
<1>6. Private(g, k)'
  <2>1. TemporariesStay(q)
    BY PublishedApart
  <2> QED BY <1>3, <2>1, PrivateKept
<1>7. Looking(g, k)'
  <2>1. ~(Windows /\ g = "read")
    BY <1>1, ReadersPin
  <2> QED BY <1>3, <2>1, LookingKept
<1>8. Based(g, k)'
  <2> SUFFICES ASSUME ~edited PROVE Based(g, k)'
    BY DEF Based
  <2>1. i.locked \/ i.create
    BY <1>4 DEF Shape, Deciding
  <2>2. i.locked => ~(k.locked /\ g \in Deciding)
    BY <1>3, <1>4 DEF Exclusive, Deciding, Waiting
  <2>3. ~i.create => i.locked /\ Document # None /\ i.seen = file[Document].text
    BY <1>4, <2>1 DEF Based, Deciding
  <2>4. ~(g \in Deciding /\ k.locked /\ ~k.create)
    BY <1>1, <1>3, <2>1, <2>2 DEF Based
  <2>5. g # "reopen"
    <3>1. g = "reopen" => k.locked /\ Configuration /\ g \in Deciding
      BY <1>3 DEF Shape, Deciding
    <3>2. Configuration => i.locked
      BY <1>2, <1>4 DEF Shape
    <3> QED BY <2>2, <3>1, <3>2
  <2>6. ASSUME Done(g, k) PROVE k.update \in file[x].text
    <3>1. Document # None /\ k.update \in file[Document].text
      BY <1>3, <2>6 DEF Based
    <3> QED BY <1>1, <1>2, <2>3, <3>1
  <2> QED BY <1>1, <1>2, <1>5, <2>4, <2>5, <2>6 DEF Based, Done
<1>9. Shape(q, g, k)' /\ Exclusive(q, g, k)'
  BY <1>3, ShapeKept DEF Exclusive
<1> QED BY <1>6, <1>7, <1>8, <1>9 DEF Ongoing

\* The document and the temporary are the only two names of one file.
PairsWith(i, d) ==
  \A n, m \in Names : n # m /\ d[n] = d[m] /\ d[n] # None =>
    ((n = document /\ m = i.temp) \/ (m = document /\ n = i.temp)) /\ d[i.temp] # None

LEMMA PublishedPairs ==
  ASSUME PublicationInv, NEW p \in Procs, pc[p] = "publish", NEW i \in Jobs, i = job[p], NEW x, NEW d \in Folders,
         Publishing(i, x, d)
  PROVE  PairsWith(i, d)
<1> SUFFICES ASSUME NEW n \in Names, NEW m \in Names, n # m, d[n] = d[m], d[n] # None
             PROVE  ((n = document /\ m = i.temp) \/ (m = document /\ n = i.temp)) /\ d[i.temp] # None
  BY DEF PairsWith
<1>1. /\ x = names[i.temp] /\ d[document] = x /\ d[i.temp] \in {x, None}
      /\ \A k \in Names : k \notin {document, i.temp} => d[k] = names[k]
  BY DEF Publishing
<1>2. i.temp \in Names /\ i.temp # document /\ \A k \in Names : k # i.temp => names[k] # x
  BY <1>1, PublishFacts
<1>3. Shared(names)
  BY NamesFacts DEF PublicationInv, Whole
<1>4. ~(n \notin {document, i.temp} /\ m \notin {document, i.temp})
  BY <1>1, <1>3 DEF Shared
<1>5. n \in {document, i.temp} => m \in {document, i.temp}
  BY <1>1, <1>2
<1>6. m \in {document, i.temp} => n \in {document, i.temp}
  BY <1>1, <1>2
<1> QED BY <1>4, <1>5, <1>6

LEMMA PublishKeeps ==
  ASSUME PublicationInv, NEW p \in Procs, pc[p] = "publish", NEW i \in Jobs, i = job[p], NEW x, NEW d \in Folders,
         Publishing(i, x, d), dirs' = Append(dirs, d), UNCHANGED <<setting, file, holder, acked, counts>>,
         NEW h \in {"confirm", "syncdir", "linksync"}, h = "linksync" => platform = "unix", d[i.temp] # None => h = "linksync",
         NEW j \in Jobs, j = [i EXCEPT !.opened = x, !.held = TRUE],
         pc' = [pc EXCEPT ![p] = h], job' = [job EXCEPT ![p] = j]
  PROVE  PublicationInv'
<1>1. /\ x = names[i.temp] /\ d[document] = x /\ names' = d /\ Possible' = Possible \cup {d} /\ file' = file
      /\ Document = None \/ (~i.create /\ ~Pinned(Document))
  BY DEF Publishing
<1>2. /\ i.temp \in Temporaries /\ i.temp[1] = p /\ i.temp # document
      /\ x \in Objects /\ x # None /\ file[x].synced /\ file[x].text = i.seen \cup {i.update} /\ i.update # 0 /\ ~Child
      /\ file[x].meta \in {"private", "shared"}
  BY <1>1, PublishFacts
<1>3. Shape(p, "publish", i) /\ Exclusive(p, "publish", i) /\ Based("publish", i)
  BY Actor DEF Ongoing
<1>4. UNCHANGED setting /\ holder' = holder /\ acked' = acked /\ edited' = edited /\ mishaps' = mishaps /\ updates' = updates
  BY DEF counts
<1>5. j.opened = x /\ j.create = i.create /\ j.locked = i.locked /\ j.update = i.update
      /\ j.temp = i.temp /\ j.expected = i.expected
  BY DEF Jobs
<1>6. Document' = x
  BY <1>1 DEF Document
<1>7. Ongoing(p, h, j)'
  <2>1. Shape(p, h, j)
    BY <1>2, <1>3, <1>5 DEF Shape, Deciding, Filled, After, Making
  <2>2. Shape(p, h, j)'
    BY <1>4, <2>1, ShapeKept
  <2>3. Exclusive(p, h, j)' /\ Private(h, j)' /\ Looking(h, j)'
    BY <1>3, <1>4, <1>5 DEF Exclusive, Private, Looking, Filled, Waiting
  <2>4. Based(h, j)'
    BY <1>1, <1>2, <1>5, <1>6 DEF Based, Done, Deciding, After, Making
  <2> QED BY <2>2, <2>3, <2>4 DEF Ongoing
<1>8. ProcTypes' /\ Working'
  <2>1. \A q \in Procs \ {p}, g \in Calling, k \in Jobs : g = pc[q] /\ k = job[q] /\ Ongoing(q, g, k) => Ongoing(q, g, k)'
    BY <1>4, OthersSee
  <2>2. h \in Calling
    BY DEF Calling, After
  <2> QED BY <1>7, <2>1, <2>2, ActorMoves
<1>9. ASSUME NEW n \in Names, NEW m \in Names, n # m, d[n] = d[m], d[n] # None
      PROVE  ((n = document /\ m = i.temp) \/ (m = document /\ n = i.temp)) /\ d[i.temp] # None
  <2>1. PairsWith(i, d)
    BY PublishedPairs
  <2> QED BY <1>9, <2>1 DEF PairsWith
<1>10. Shared(d)
  BY <1>2, <1>9, NamesAreApart DEF Shared
<1>11. Sound(d)'
  <2>1. file[x].text # Torn
    BY <1>2 DEF Torn
  <2> QED BY <1>1, <1>2, <2>1 DEF Sound
<1>12. Paired'
  <2> SUFFICES ASSUME NEW n \in Names, NEW m \in Names, n # m, d[n] = d[m], d[n] # None
               PROVE  \E q \in Procs : Linking(pc[q], job[q], n, m)'
    BY <1>1 DEF Paired
  <2>1. i.temp \in {n, m} /\ h = "linksync" /\ d[n] = x
    BY <1>1, <1>9
  <2>2. pc'[p] = h /\ job'[p] = j
    BY DEF PublicationInv, ProcTypes
  <2> QED BY <1>1, <1>5, <2>1, <2>2 DEF Linking
<1>13. HandedOver'
  BY <1>2, <1>4 DEF HandedOver, setting, Child
<1>14. ~edited' => acked \subseteq IF d[document] = None THEN {} ELSE file'[d[document]].text
  <2> SUFFICES ASSUME ~edited PROVE acked \subseteq file[x].text
    BY <1>1, <1>2, <1>4
  <2>1. acked \subseteq IF Document = None THEN {} ELSE file[Document].text
    BY DocumentIsTyped DEF PublicationInv, AcknowledgedStays
  <2>2. i.locked \/ i.create
    BY <1>3 DEF Shape, Deciding
  <2>3. ~i.create => Document # None /\ i.seen = file[Document].text
    BY <1>3, <2>2 DEF Based, Deciding
  <2> QED BY <1>1, <1>2, <2>1, <2>3
<1>15. mishaps' \in mishaps..MaxMishaps /\ updates' \in Nat /\ holder' \in Procs \cup {None} /\ edited' \in BOOLEAN
       /\ file' \in [Objects -> Files]
  BY <1>1, <1>4, Actor DEF PublicationInv, CountTypes, FolderTypes
<1> QED BY <1>1, <1>4, <1>8, <1>10, <1>11, <1>12, <1>13, <1>14, <1>15, NamesKeep

Publishes(p, i, x, h, d, j) ==
  /\ Publishing(i, x, d) /\ dirs' = Append(dirs, d) /\ j = [i EXCEPT !.opened = x, !.held = TRUE]
  /\ pc' = [pc EXCEPT ![p] = h] /\ job' = [job EXCEPT ![p] = j]

LEMMA RenamePublishes ==
  ASSUME PublicationInv, NEW p \in Procs, pc[p] = "publish", UNCHANGED file, NEW i \in Jobs, i = job[p],
         NEW x, x = names[i.temp], NEW h,
         Document = None \/ (~OnlyCreates(p) /\ ~Pinned(Document)), Renamed(job[p].temp, document), Published(p, h)
  PROVE  \E d \in Folders, j \in Jobs : Publishes(p, i, x, h, d, j) /\ d[i.temp] = None
<1>1. i.temp \in Names /\ i.temp # document /\ x \in Objects /\ document \in Names
  BY PublishFacts, NamesAreApart
<1>2. PICK d : d = [names EXCEPT ![document] = x, ![i.temp] = None]
  OBVIOUS
<1>3. /\ d \in Folders /\ d[document] = x /\ d[i.temp] = None
      /\ \A n \in Names : n \notin {document, i.temp} => d[n] = names[n]
  BY <1>1, <1>2, NamesFacts DEF Folders, PublicationInv
<1>4. dirs' = Append(dirs, d)
  BY <1>2 DEF Renamed
<1>5. names' = d /\ Possible' = Possible \cup {d}
  BY <1>3, <1>4, Appended DEF PublicationInv
<1>6. Publishing(i, x, d)
  BY <1>3, <1>5 DEF Publishing, OnlyCreates
<1>7. PICK j : j = [i EXCEPT !.opened = x, !.held = TRUE]
  OBVIOUS
<1>8. pc' = [pc EXCEPT ![p] = h] /\ job' = [job EXCEPT ![p] = j] /\ j \in Jobs
  BY <1>1, <1>7 DEF Published, Goto, Keep, Temporary, Jobs
<1> QED BY <1>3, <1>4, <1>6, <1>7, <1>8 DEF Publishes

LEMMA LinkPublishes ==
  ASSUME PublicationInv, NEW p \in Procs, pc[p] = "publish", UNCHANGED file, NEW i \in Jobs, i = job[p],
         NEW x, x = names[i.temp], NEW h, Document = None, Named(document, Temporary(p)), Published(p, h)
  PROVE  \E d \in Folders, j \in Jobs : Publishes(p, i, x, h, d, j)
<1>1. i.temp \in Names /\ i.temp # document /\ x \in Objects /\ document \in Names
  BY PublishFacts, NamesAreApart
<1>2. PICK d : d = [names EXCEPT ![document] = x]
  OBVIOUS
<1>3. /\ d \in Folders /\ d[document] = x /\ d[i.temp] = x
      /\ \A n \in Names : n \notin {document, i.temp} => d[n] = names[n]
  BY <1>1, <1>2, NamesFacts DEF Folders, PublicationInv
<1>4. dirs' = Append(dirs, d)
  BY <1>2 DEF Named, Temporary
<1>5. names' = d /\ Possible' = Possible \cup {d}
  BY <1>3, <1>4, Appended DEF PublicationInv
<1>6. Publishing(i, x, d)
  BY <1>3, <1>5 DEF Publishing
<1>7. PICK j : j = [i EXCEPT !.opened = x, !.held = TRUE]
  OBVIOUS
<1>8. pc' = [pc EXCEPT ![p] = h] /\ job' = [job EXCEPT ![p] = j] /\ j \in Jobs
  BY <1>1, <1>7 DEF Published, Goto, Keep, Temporary, Jobs
<1> QED BY <1>3, <1>4, <1>6, <1>7, <1>8 DEF Publishes

LEMMA RenameKeeps ==
  ASSUME PublicationInv, NEW p \in Procs, Rename(p)
  PROVE  PublicationInv'
<1>1. pc[p] = "publish" /\ UNCHANGED <<setting, file, holder, acked, counts>>
  BY DEF Rename, At
<1>2. CASE Refuse(p) /\ UNCHANGED dirs
  <2>1. UNCHANGED <<setting, disk, holder, acked, counts>>
    BY <1>1, <1>2 DEF disk
  <2> QED BY <1>1, <1>2, <2>1, RefuseKeeps
<1>3. CASE /\ Document = None \/ (~OnlyCreates(p) /\ ~Pinned(Document))
           /\ Renamed(job[p].temp, document) /\ Published(p, IF Windows THEN "syncdir" ELSE "confirm")
  <2>1. PICK i \in Jobs : i = job[p]
    BY Actor
  <2>2. PICK x : x = names[i.temp]
    OBVIOUS
  <2>3. PICK h \in {"confirm", "syncdir", "linksync"} : Published(p, h) /\ h # "linksync"
    BY <1>3
  <2>4. PICK d \in Folders, j \in Jobs : Publishes(p, i, x, h, d, j) /\ d[i.temp] = None
    BY <1>1, <1>3, <2>1, <2>2, <2>3, RenamePublishes
  <2> QED BY <1>1, <2>1, <2>3, <2>4, PublishKeeps DEF Publishes
<1> QED BY <1>2, <1>3 DEF Rename

LEMMA LinkKeeps ==
  ASSUME PublicationInv, NEW p \in Procs, Link(p)
  PROVE  PublicationInv'
<1>1. pc[p] = "publish" /\ UNCHANGED <<setting, file, holder, acked, counts>> /\ platform = "unix"
  BY DEF Link, At
<1>2. CASE Refuse(p) /\ UNCHANGED dirs
  <2>1. UNCHANGED <<setting, disk, holder, acked, counts>>
    BY <1>1, <1>2 DEF disk
  <2> QED BY <1>1, <1>2, <2>1, RefuseKeeps
<1>3. CASE Document = None /\ Named(document, Temporary(p)) /\ Published(p, "linksync")
  <2>1. PICK i \in Jobs : i = job[p]
    BY Actor
  <2>2. PICK x : x = names[i.temp]
    OBVIOUS
  <2>3. PICK h \in {"confirm", "syncdir", "linksync"} : Published(p, h) /\ h = "linksync"
    BY <1>3
  <2>4. PICK d \in Folders, j \in Jobs : Publishes(p, i, x, h, d, j)
    BY <1>1, <1>3, <2>1, <2>2, <2>3, LinkPublishes
  <2> QED BY <1>1, <2>1, <2>3, <2>4, PublishKeeps DEF Publishes
<1> QED BY <1>2, <1>3 DEF Link

LEMMA MakeDirectoryKeeps ==
  ASSUME PublicationInv, NEW p \in Procs, MakeDirectory(p)
  PROVE  PublicationInv'
<1>1. pc[p] = "mkdir" /\ At(p, "mkdir") /\ Goto(p, "opendir") /\ UNCHANGED <<setting, holder, acked, counts>>
  BY DEF MakeDirectory, At
<1>2. CASE UNCHANGED <<disk, job>>
  <2>1. UNCHANGED job /\ UNCHANGED <<setting, disk, holder, acked, counts>>
    BY <1>1, <1>2
  <2> QED BY <1>1, <2>1, DirectoryFoundKeeps
<1>3. CASE /\ Document = None /\ Create(document, {job[p].update}, NewMeta(p), TRUE)
           /\ Keep(p, [job[p] EXCEPT !.create = TRUE])
  <2>1. PICK i \in Jobs : i = job[p]
    BY Actor
  <2>2. Shape(p, "mkdir", i)
    BY <1>1, <2>1, Actor DEF Ongoing
  <2>3. Child /\ i.update # 0 /\ ~i.locked /\ i.update \in Nat
    BY <2>2 DEF Shape, Deciding, After, Making, Jobs
  <2>4. PICK text \in SUBSET Nat, meta \in Metas, synced \in BOOLEAN :
          /\ document \in Names /\ Create(document, text, meta, synced)
          /\ text = {i.update} /\ meta = NewMeta(p) /\ synced = TRUE
    <3>1. NewMeta(p) \in Metas /\ {i.update} \in SUBSET Nat /\ TRUE \in BOOLEAN /\ document \in Names
      BY <2>3, NamesAreApart DEF NewMeta, Metas
    <3> QED BY <1>3, <2>1, <3>1
  <2>5. PICK x \in Objects, d \in Folders : NewFile(document, x, d, text, meta, synced)
    BY <2>4, CreatedFacts
  <2>6. /\ d = [names EXCEPT ![document] = x] /\ dirs' = Append(dirs, d) /\ names' = d /\ Possible' = Possible \cup {d}
        /\ file' \in [Objects -> Files] /\ \A o \in Objects : o # x => file'[o] = file[o]
    BY <2>5 DEF NewFile, Added
  <2>7. /\ \A e \in Possible : \A m \in Names : e[m] # x
        /\ file'[x].text = {i.update} /\ file'[x].meta = NewMeta(p) /\ file'[x].synced = TRUE
    BY <2>4, <2>5 DEF NewFile, Unnamed
  <2>8. /\ names \in Folders /\ names \in Possible /\ names[document] = None /\ x # None
        /\ d[document] = x /\ \A n \in Names : n # document => d[n] = names[n]
    BY <1>3, <2>4, <2>6, NamesFacts, NamesAreApart DEF Document, Folders, PublicationInv
  <2>9. Document' = x
    BY <2>6, <2>8 DEF Document
  <2>10. PICK j : j = [i EXCEPT !.create = TRUE]
    OBVIOUS
  <2>11. j \in Jobs /\ j.create /\ j.locked = i.locked /\ j.update = i.update /\ j.temp = i.temp
         /\ j.expected = i.expected /\ j.opened = i.opened
    BY <2>10 DEF Jobs
  <2>12. pc' = [pc EXCEPT ![p] = "opendir"] /\ job' = [job EXCEPT ![p] = j]
    BY <1>1, <1>3, <2>1, <2>10 DEF Goto, Keep
  <2>13. UNCHANGED setting /\ holder' = holder /\ acked' = acked /\ edited' = edited /\ mishaps' = mishaps /\ updates' = updates
    BY <1>1 DEF counts
  <2>14. Ongoing(p, "opendir", j)'
    <3>1. Shape(p, "opendir", j)
      BY <2>2, <2>3, <2>11 DEF Shape, Deciding, Filled, After, Making
    <3>2. Shape(p, "opendir", j)'
      BY <2>13, <3>1, ShapeKept
    <3>3. Exclusive(p, "opendir", j)' /\ Private("opendir", j)' /\ Looking("opendir", j)'
      BY <2>3, <2>11 DEF Exclusive, Private, Looking, Filled
    <3>4. Based("opendir", j)'
      BY <2>7, <2>8, <2>9, <2>11 DEF Based, Done, Deciding, After, Making
    <3> QED BY <3>2, <3>3, <3>4 DEF Ongoing
  <2>15. ASSUME NEW q \in Procs \ {p}, NEW g \in Calling, NEW k \in Jobs, Ongoing(q, g, k)
         PROVE  Ongoing(q, g, k)'
    <3>1. Shape(q, g, k) /\ Exclusive(q, g, k) /\ Based(g, k)
      BY <2>15 DEF Ongoing
    <3>2. g \notin Deciding /\ g # "read"
      BY <2>3, <3>1 DEF Shape, Deciding, After
    <3>3. Shape(q, g, k)' /\ Exclusive(q, g, k)'
      BY <2>13, <3>1, ShapeKept DEF Exclusive
    <3>4. Private(g, k)' /\ Looking(g, k)'
      BY <3>2 DEF Private, Looking, Filled, Deciding
    <3>5. Based(g, k)'
      BY <1>3, <2>13, <3>1, <3>2 DEF Based, Done, Deciding
    <3> QED BY <3>3, <3>4, <3>5 DEF Ongoing
  <2>16. ProcTypes' /\ Working'
    <3>1. "opendir" \in Calling
      BY DEF Calling, Making
    <3> QED BY <2>11, <2>12, <2>14, <2>15, <3>1, ActorMoves
  <2>17. \A n, m \in Names : ~(n # m /\ d[n] = d[m] /\ d[n] # None)
    <3>1. Shared(names)
      BY <2>8 DEF PublicationInv, Whole
    <3> QED BY <2>7, <2>8, <3>1 DEF Shared
  <2>18. Shared(d) /\ Paired'
    BY <2>6, <2>17 DEF Shared, Paired
  <2>19. Sound(d)'
    BY <2>3, <2>7, <2>8, <2>13 DEF Sound, Torn, NewMeta, setting, Child
  <2>20. HandedOver'
    <3> SUFFICES ASSUME mishaps = 0
                 PROVE  /\ \A e \in Possible' : e[document] \in {None, Document'}
                        /\ file'[x].meta = "root" => \E q \in Root : Handing(pc[q], job[q])'
      BY <2>9, <2>13 DEF HandedOver
    <3>1. \A e \in Possible : e[document] \in {None, Document}
      BY <2>3 DEF PublicationInv, HandedOver
    <3>2. \A e \in Possible' : e[document] \in {None, Document'}
      BY <1>3, <2>6, <2>8, <2>9, <3>1
    <3>3. ASSUME file'[x].meta = "root" PROVE \E q \in Root : Handing(pc[q], job[q])'
      <4>1. p \in Root
        BY <2>7, <3>3 DEF NewMeta
      <4>2. pc'[p] = "opendir" /\ job'[p] = j
        BY <2>12 DEF PublicationInv, ProcTypes
      <4> QED BY <2>11, <4>1, <4>2 DEF Handing
    <3> QED BY <3>2, <3>3
  <2>21. ~edited' => acked \subseteq IF d[document] = None THEN {} ELSE file'[d[document]].text
    BY <2>8, <2>13 DEF PublicationInv, AcknowledgedStays
  <2>22. \A e \in Possible : e[document] # None => file'[e[document]] = file[e[document]]
    BY <2>4, <2>6, <2>7, NamesFacts DEF Folders, PublicationInv
  <2>23. mishaps' \in mishaps..MaxMishaps /\ updates' \in Nat /\ holder' \in Procs \cup {None} /\ edited' \in BOOLEAN
    BY <2>13, Actor DEF PublicationInv, CountTypes
  <2> QED BY <2>6, <2>13, <2>16, <2>18, <2>19, <2>20, <2>21, <2>22, <2>23, NamesKeep
<1> QED BY <1>2, <1>3 DEF MakeDirectory

-----------------------------------------------------------------------------
\* The administrator, and a power failure.

\* After an edit nothing is claimed of the texts; temporaries and readers go on.
LEMMA EditsKeep ==
  ASSUME PublicationInv, Edits, FolderTypes', Whole',
         \A q \in Procs, g \in Calling, i \in Jobs :
           g = pc[q] /\ i = job[q] /\ Ongoing(q, g, i) => Private(g, i)' /\ Looking(g, i)'
  PROVE  PublicationInv'
<1>1. /\ mishaps' = mishaps + 1 /\ mishaps < MaxMishaps /\ edited' = TRUE
      /\ job' = [q \in Procs |-> [job[q] EXCEPT !.late = TRUE]]
      /\ UNCHANGED setting /\ pc' = pc /\ holder' = holder /\ acked' = acked /\ updates' = updates
  BY DEF Edits
<1>2. mishaps' \in 0..MaxMishaps /\ mishaps' # 0
  BY <1>1, FilePublicationAssumption DEF PublicationInv, CountTypes
<1>3. CountTypes'
  BY <1>1, <1>2 DEF PublicationInv, CountTypes, setting
<1>4. ASSUME NEW q \in Procs
      PROVE  pc'[q] \in Calling /\ job'[q] \in Jobs /\ Ongoing(q, pc[q], job[q])'
  <2>1. PICK g \in Calling, i \in Jobs : g = pc[q] /\ i = job[q] /\ Ongoing(q, g, i)
    BY Actor
  <2>2. PICK j : j = [i EXCEPT !.late = TRUE]
    OBVIOUS
  <2>3. j \in Jobs /\ j.create = i.create /\ j.locked = i.locked /\ j.update = i.update /\ j.temp = i.temp
        /\ j.expected = i.expected /\ j.opened = i.opened /\ j.held = i.held /\ j.seen = i.seen
    BY <2>2 DEF Jobs
  <2>4. pc'[q] = g /\ job'[q] = j
    BY <1>1, <2>1, <2>2
  <2>5. Shape(q, g, j)'
    <3>1. Shape(q, g, j)
      BY <2>1, <2>3 DEF Ongoing, Shape
    <3> QED BY <1>1, <3>1, ShapeKept
  <2>6. Exclusive(q, g, j)'
    BY <1>1, <2>1, <2>3 DEF Ongoing, Exclusive
  <2>7. Private(g, j)' /\ Looking(g, j)'
    <3>1. Private(g, i)' /\ Looking(g, i)'
      BY <2>1
    <3> QED BY <2>3, <3>1 DEF Private, Looking
  <2>8. Based(g, j)'
    BY <1>1 DEF Based
  <2>9. Ongoing(q, g, j)'
    BY <2>5, <2>6, <2>7, <2>8 DEF Ongoing
  <2> QED BY <2>3, <2>4, <2>9 DEF Ongoing, Shape, Exclusive, Private, Looking, Based, Done
<1>5. ProcTypes' /\ Working'
  <2>1. job' \in [Procs -> Jobs]
    BY <1>1, <1>4
  <2>2. pc' \in [Procs -> Calling]
    BY <1>1 DEF PublicationInv, ProcTypes
  <2> QED BY <1>4, <2>1, <2>2 DEF ProcTypes, Working
<1>6. Paired' /\ HandedOver'
  BY <1>2 DEF Paired, HandedOver
<1>7. AcknowledgedStays'
  BY <1>1 DEF AcknowledgedStays
<1> QED BY <1>3, <1>5, <1>6, <1>7 DEF PublicationInv

\* Another document, or none.
LEMMA DocumentEdited ==
  ASSUME PublicationInv, Edits, Document # None => ~Pinned(Document), NEW x, NEW d \in Folders, Added(document, x, d),
         x = None \/ (x \in Objects /\ Unnamed(x) /\ file'[x].synced /\ file'[x].text = {} /\ file'[x].meta = "private")
  PROVE  PublicationInv'
<1>1. /\ d = [names EXCEPT ![document] = x] /\ dirs' = Append(dirs, d) /\ names' = d /\ Possible' = Possible \cup {d}
      /\ file' \in [Objects -> Files] /\ \A o \in Objects : o # x => file'[o] = file[o]
      /\ x = None \/ \A e \in Possible : \A m \in Names : e[m] # x
  BY DEF Added, Unnamed
<1>2. /\ names \in Folders /\ names \in Possible /\ document \in Names
      /\ d[document] = x /\ \A n \in Names : n # document => d[n] = names[n]
  BY <1>1, NamesFacts, NamesAreApart DEF Folders, PublicationInv
<1>3. UNCHANGED setting /\ edited'
  BY DEF Edits
<1>4. FolderTypes'
  BY <1>1, Appended DEF PublicationInv, FolderTypes
<1>5. \A e \in Possible : \A m \in Names : e[m] # None => e[m] \in Objects /\ e[m] # x /\ file'[e[m]] = file[e[m]]
  BY <1>1, NamesFacts DEF Folders, PublicationInv
<1>6. Whole'
  <2>1. ASSUME NEW e \in Possible PROVE Shared(e)' /\ Sound(e)'
    <3>1. Shared(e) /\ Sound(e)
      BY DEF PublicationInv, Whole
    <3>2. Shared(e)'
      BY <1>3, <3>1 DEF Shared, setting
    <3>3. PICK o : o = e[document]
      OBVIOUS
    <3>4. o # None => file'[o] = file[o]
      BY <1>2, <1>5, <3>3
    <3>5. Sound(e)'
      BY <1>3, <3>1, <3>3, <3>4 DEF Sound, setting, Child
    <3> QED BY <3>2, <3>5
  <2>2. Shared(d)'
    <3>1. Shared(names)
      BY <1>2 DEF PublicationInv, Whole
    <3>2. \A n, m \in Names : ~(n # m /\ d[n] = d[m] /\ d[n] # None /\ (n = document \/ m = document))
      BY <1>1, <1>2
    <3>3. Shared(d)
      BY <1>2, <3>1, <3>2 DEF Shared
    <3> QED BY <1>3, <3>3 DEF Shared, setting
  <2>3. Sound(d)'
    BY <1>2, <1>3 DEF Sound, Torn
  <2> QED BY <1>1, <2>1, <2>2, <2>3 DEF Whole
<1>7. ASSUME NEW q \in Procs, NEW g \in Calling, NEW i \in Jobs, g = pc[q], i = job[q], Ongoing(q, g, i)
      PROVE  Private(g, i)' /\ Looking(g, i)'
  <2>1. TemporariesStay(q)
    <3> SUFFICES ASSUME NEW n \in Temporaries, n[1] = q, names[n] # None, \A e \in Possible : e[document] # names[n]
                 PROVE  /\ names'[n] = names[n] /\ file'[names[n]] = file[names[n]]
                        /\ \A e \in Possible' : e[document] # names[n]
      BY DEF TemporariesStay
    <3>1. n \in Names /\ n # document
      BY NamesAreApart
    <3>2. d[n] = names[n] /\ names[n] # x /\ file'[names[n]] = file[names[n]]
      BY <1>2, <1>5, <3>1
    <3> QED BY <1>1, <1>2, <3>2
  <2>2. Private(g, i)'
    BY <1>7, <2>1, PrivateKept DEF Ongoing
  <2>3. ~(Windows /\ g = "read")
    BY <1>7, ReadersPin
  <2>4. Looking(g, i)'
    BY <1>3, <1>7, <2>3, LookingKept DEF Ongoing
  <2> QED BY <2>2, <2>4
<1> QED BY <1>4, <1>6, <1>7, EditsKeep

LEMMA EditReplaceKeeps == ASSUME PublicationInv, EditReplace PROVE PublicationInv'
<1>1. PICK text \in SUBSET Nat, meta \in Metas, synced \in BOOLEAN :
        /\ document \in Names /\ Create(document, text, meta, synced)
        /\ text = {} /\ meta = "private" /\ synced = TRUE
  BY NamesAreApart DEF EditReplace, Metas
<1>2. PICK x \in Objects, d \in Folders : NewFile(document, x, d, text, meta, synced)
  BY <1>1, CreatedFacts
<1>3. /\ Added(document, x, d) /\ Unnamed(x)
      /\ file'[x].synced = TRUE /\ file'[x].text = {} /\ file'[x].meta = "private"
  BY <1>1, <1>2 DEF NewFile
<1>4. Edits /\ (Document # None => ~Pinned(Document))
  BY DEF EditReplace
<1> QED BY <1>3, <1>4, DocumentEdited

LEMMA EditRemoveKeeps == ASSUME PublicationInv, EditRemove PROVE PublicationInv'
<1>1. document \in Names /\ Named(document, None) /\ UNCHANGED file /\ Edits /\ ~Pinned(Document)
  BY NamesAreApart DEF EditRemove
<1>2. PICK d \in Folders : Added(document, None, d)
  BY <1>1, RemovedFacts
<1> QED BY <1>1, <1>2, DocumentEdited

LEMMA EditModeKeeps == ASSUME PublicationInv, EditMode PROVE PublicationInv'
<1>1. Edits /\ Document # None /\ UNCHANGED dirs
  BY DEF EditMode
<1>2. PICK x \in Objects, meta \in Metas :
        x = Document /\ meta \in {"shared", "open"} /\ file' = [file EXCEPT ![x].meta = meta]
  BY DocumentIsTyped DEF EditMode, Metas
<1>3. /\ file' \in [Objects -> Files] /\ file'[x].meta = meta
      /\ \A o \in Objects : file'[o].text = file[o].text /\ file'[o].synced = file[o].synced /\ (o # x => file'[o] = file[o])
  BY <1>2, OwnerChanged
<1>4. names' = names /\ Possible' = Possible /\ Document' = Document /\ dirs' = dirs
  BY <1>1 DEF names, Possible, Document
<1>5. UNCHANGED setting /\ edited'
  BY <1>1 DEF Edits
<1>6. FolderTypes'
  BY <1>3, <1>4 DEF PublicationInv, FolderTypes
<1>7. Whole'
  <2> SUFFICES ASSUME NEW e \in Possible PROVE Shared(e)' /\ Sound(e)'
    BY <1>4 DEF Whole
  <2>1. Shared(e) /\ Sound(e)
    BY DEF PublicationInv, Whole
  <2>2. Shared(e)'
    BY <1>5, <2>1 DEF Shared, setting
  <2>3. PICK o : o = e[document]
    OBVIOUS
  <2>4. ASSUME o # None
        PROVE  /\ file'[o].synced /\ file'[o].text # Torn /\ (file'[o].meta = "root" => Child)
    <3>1. o \in Objects
      BY <2>3, <2>4, NamesFacts, NamesAreApart DEF Folders, PublicationInv
    <3>2. file[o].synced /\ file[o].text # Torn /\ (file[o].meta = "root" => Child)
      BY <2>1, <2>3, <2>4 DEF Sound
    <3> QED BY <1>2, <1>3, <3>1, <3>2
  <2>5. Sound(e)'
    BY <1>5, <2>3, <2>4 DEF Sound, setting, Child
  <2> QED BY <2>2, <2>5
<1>8. ASSUME NEW q \in Procs, NEW g \in Calling, NEW i \in Jobs, g = pc[q], i = job[q], Ongoing(q, g, i)
      PROVE  Private(g, i)' /\ Looking(g, i)'
  <2>1. TemporariesStay(q)
    <3> SUFFICES ASSUME NEW n \in Temporaries, names[n] # None, \A e \in Possible : e[document] # names[n]
                 PROVE  file'[names[n]] = file[names[n]]
      BY <1>4 DEF TemporariesStay
    <3>1. names[n] \in Objects /\ names[n] # x
      BY <1>2, DocumentIsTyped, NamesFacts, NamesAreApart DEF Folders, PublicationInv
    <3> QED BY <1>3, <3>1
  <2>2. Private(g, i)'
    BY <1>8, <2>1, PrivateKept DEF Ongoing
  <2>3. Looking(g, i)'
    BY <1>4, <1>5, <1>8, LookingKept DEF Ongoing
  <2> QED BY <2>2, <2>3
<1> QED BY <1>1, <1>6, <1>7, <1>8, EditsKeep

LEMMA PowerFailKeeps == ASSUME PublicationInv, PowerFail PROVE PublicationInv'
<1>1. /\ mishaps < MaxMishaps /\ mishaps' = mishaps + 1 /\ UNCHANGED setting
      /\ file' = [o \in Objects |-> IF file[o].synced THEN file[o] ELSE [file[o] EXCEPT !.text = Torn]]
      /\ pc' = [p \in Procs |-> "idle"] /\ job' = [p \in Procs |-> NoJob] /\ holder' = None
      /\ acked' = acked /\ updates' = updates /\ edited' = edited
  BY DEF PowerFail
<1>2. PICK d \in Possible : dirs' = <<d>>
  BY DEF PowerFail, Possible
<1>3. d \in Folders /\ dirs' \in Seq(Folders) /\ dirs' # <<>> /\ names' = d /\ Possible' = {d}
  BY <1>2, NamesFacts, Replaced DEF PublicationInv
<1>4. file' \in [Objects -> Files]
  <2>1. ASSUME NEW o \in Objects
        PROVE  (IF file[o].synced THEN file[o] ELSE [file[o] EXCEPT !.text = Torn]) \in Files
    BY DEF PublicationInv, FolderTypes, Files, Torn
  <2> QED BY <1>1, <2>1
<1>5. \A o \in Objects : file[o].synced => file'[o] = file[o]
  BY <1>1
<1>6. mishaps' \in 0..MaxMishaps /\ mishaps' # 0
  BY <1>1, FilePublicationAssumption DEF PublicationInv, CountTypes
<1>7. FolderTypes' /\ CountTypes'
  BY <1>1, <1>3, <1>4, <1>6 DEF PublicationInv, FolderTypes, CountTypes, setting
<1>8. ProcTypes'
  <2>1. "idle" \in Calling
    BY DEF Calling, Waiting
  <2>2. \A p \in Procs : NoJob \in Jobs
    BY NoJobFacts
  <2> QED BY <1>1, <2>1, <2>2 DEF ProcTypes
<1>9. Working'
  <2>1. ASSUME NEW p \in Procs PROVE Ongoing(p, "idle", NoJob)'
    <3>1. Shape(p, "idle", NoJob)'
      BY <1>1, NoJobFacts, ShapeKept
    <3>2. Exclusive(p, "idle", NoJob)' /\ Private("idle", NoJob)' /\ Looking("idle", NoJob)' /\ Based("idle", NoJob)'
      BY DEF Exclusive, Private, Looking, Based, Done, Deciding, Filled, After, Making, Waiting
    <3> QED BY <3>1, <3>2 DEF Ongoing
  <2>2. \A p \in Procs : pc'[p] = "idle" /\ job'[p] = NoJob
    BY <1>1
  <2> QED BY <2>1, <2>2 DEF Working, Ongoing, Shape, Exclusive, Private, Looking, Based, Done
<1>10. PICK o : o = d[document]
  OBVIOUS
<1>11. Shared(d) /\ Sound(d)
  BY DEF PublicationInv, Whole
<1>12. o # None => o \in Objects /\ file'[o] = file[o]
  <2>1. o # None => o \in Objects
    BY <1>3, <1>10, NamesAreApart DEF Folders
  <2> QED BY <1>5, <1>10, <1>11, <2>1 DEF Sound
<1>13. Whole'
  <2>1. Shared(d)'
    BY <1>1, <1>11 DEF Shared, setting
  <2>2. Sound(d)'
    BY <1>1, <1>10, <1>11, <1>12 DEF Sound, setting, Child
  <2> QED BY <1>3, <2>1, <2>2 DEF Whole
<1>14. AcknowledgedStays'
  BY <1>1, <1>3, <1>10, <1>12 DEF AcknowledgedStays, PublicationInv
<1>15. Paired' /\ HandedOver'
  BY <1>6 DEF Paired, HandedOver
<1> QED BY <1>7, <1>8, <1>9, <1>13, <1>14, <1>15 DEF PublicationInv

-----------------------------------------------------------------------------
\* Every step.

LEMMA PubStands == ASSUME PublicationInv, UNCHANGED vars PROVE PublicationInv'
<1>1. /\ platform' = platform /\ kind' = kind /\ dirs' = dirs /\ file' = file /\ pc' = pc /\ job' = job
      /\ holder' = holder /\ acked' = acked /\ updates' = updates /\ mishaps' = mishaps /\ edited' = edited
  BY DEF vars
<1>2. names' = names /\ Possible' = Possible /\ Document' = Document
  BY <1>1 DEF names, Possible, Document
<1>3. UNCHANGED setting /\ DocumentStays /\ \A q \in Procs : TemporariesStay(q)
  BY <1>1, <1>2 DEF setting, DocumentStays, TemporariesStay
<1>4. FolderTypes' /\ CountTypes' /\ ProcTypes'
  BY <1>1 DEF PublicationInv, FolderTypes, CountTypes, ProcTypes
<1>5. Working'
  <2>1. ASSUME NEW q \in Procs PROVE Ongoing(q, pc[q], job[q])'
    <3>1. PICK g \in Calling, i \in Jobs : g = pc[q] /\ i = job[q] /\ Ongoing(q, g, i)
      BY Actor
    <3>2. Ongoing(q, g, i)'
      BY <1>1, <1>3, <3>1, OthersGoOn
    <3>3. pc'[q] = g /\ job'[q] = i
      BY <1>1, <3>1
    <3> QED BY <3>2, <3>3 DEF Ongoing, Shape, Exclusive, Private, Looking, Based, Done
  <2> QED BY <2>1 DEF Working
<1>6. Whole' /\ AcknowledgedStays'
  BY <1>1, <1>2 DEF PublicationInv, Whole, Shared, Sound, AcknowledgedStays, Child
<1>7. Paired'
  BY <1>1, <1>2 DEF PublicationInv, Paired, Linking
<1>8. HandedOver'
  BY <1>1, <1>2 DEF PublicationInv, HandedOver, Handing, Child
<1> QED BY <1>4, <1>5, <1>6, <1>7, <1>8 DEF PublicationInv

LEMMA PubStepKeeps == ASSUME PublicationInv, [Next]_vars PROVE PublicationInv'
<1>1. ASSUME NEW p \in Procs, Step(p) PROVE PublicationInv'
  <2>1. CASE LockOpen(p) \/ LockOwn(p) \/ LockWait(p) \/ LockSync(p)
    BY <2>1, LockOpenKeeps, LockOwnKeeps, LockWaitKeeps, LockSyncKeeps
  <2>2. CASE Open(p) \/ Read(p) \/ Reopen(p) \/ Prepare(p) \/ Write(p) \/ Revalidate(p)
    BY <2>2, OpenKeeps, ReadKeeps, ReopenKeeps, PrepareKeeps, WriteKeeps, RevalidateKeeps
  <2>3. CASE Rename(p) \/ Link(p) \/ LinkSync(p) \/ Unlink(p) \/ Confirm(p) \/ SyncDirectory(p)
    BY <2>3, RenameKeeps, LinkKeeps, LinkSyncKeeps, UnlinkKeeps, ConfirmKeeps, SyncDirectoryKeeps
  <2>4. CASE Cleanup(p) \/ End(p)
    BY <2>4, CleanupKeeps, EndKeeps
  <2>5. CASE MakeDirectory(p) \/ OpenDirectory(p) \/ OwnDirectory(p) \/ CheckDirectory(p)
    BY <2>5, MakeDirectoryKeeps, OpenDirectoryKeeps, OwnDirectoryKeeps, CheckDirectoryKeeps
  <2> QED BY <1>1, <2>1, <2>2, <2>3, <2>4, <2>5 DEF Step
<1>2. ASSUME NEW p \in Procs, NEW locked \in BOOLEAN, BeginUpdate(p, locked) PROVE PublicationInv'
  BY <1>2, BeginUpdateKeeps
<1>3. ASSUME NEW p \in Procs, BeginRead(p) \/ Fail(p) \/ Kill(p) PROVE PublicationInv'
  BY <1>3, BeginReadKeeps, FailKeeps, KillKeeps
<1>4. CASE PowerFail \/ EditReplace \/ EditRemove \/ EditMode
  BY <1>4, PowerFailKeeps, EditReplaceKeeps, EditRemoveKeeps, EditModeKeeps
<1>5. CASE UNCHANGED vars
  BY <1>5, PubStands
<1> QED BY <1>1, <1>2, <1>3, <1>4, <1>5 DEF Next

LEMMA PubInvIsEnough == PublicationInv => AcknowledgedStays /\ DestinationIsSound
<1> SUFFICES ASSUME PublicationInv, NEW d \in Possible, NEW o, o = d[document], o # None
             PROVE  /\ file[o].synced /\ file[o].text # Torn
                    /\ file[o].meta = "open" => edited
                    /\ file[o].meta = "root" =>
                         Child /\ (mishaps > 0 \/ \E p \in Procs : job[p].create /\ pc[p] \in {"opendir", "owndir"})
                    /\ d = names /\ Links(o) > 1 =>
                         platform = "unix" /\ (mishaps > 0 \/ \E p \in Procs : job[p].opened = o)
  BY DEF DestinationIsSound, PublicationInv
<1>1. Sound(d) /\ Shared(d)
  BY DEF PublicationInv, Whole
<1>2. mishaps > 0 \/ mishaps = 0
  BY Actor DEF PublicationInv, CountTypes
<1>3. ASSUME file[o].meta = "root", mishaps = 0
      PROVE  \E p \in Procs : job[p].create /\ pc[p] \in {"opendir", "owndir"}
  <2>1. o = Document
    BY <1>1, <1>3 DEF PublicationInv, HandedOver, Sound
  <2>2. PICK p \in Root : Handing(pc[p], job[p])
    BY <1>1, <1>3, <2>1 DEF PublicationInv, HandedOver, Sound
  <2> QED BY <2>2, FilePublicationAssumption DEF Handing
<1>4. ASSUME d = names, Links(o) > 1
      PROVE  platform = "unix" /\ (mishaps > 0 \/ \E p \in Procs : job[p].opened = o)
  <2>1. PICK n \in Names, m \in Names : n # m /\ names[n] = o /\ names[m] = o
    BY <1>4, LinksAreCounted
  <2>2. platform = "unix"
    BY <1>1, <1>4, <2>1 DEF Shared
  <2>3. ASSUME mishaps = 0 PROVE \E p \in Procs : job[p].opened = o
    BY <2>1, <2>3 DEF PublicationInv, Paired, Linking
  <2> QED BY <1>2, <2>2, <2>3
<1> QED BY <1>1, <1>2, <1>3, <1>4 DEF Sound

\* However many processes, files, transactions and mishaps there are: nobody's
\* temporary is another's, transactions exclude each other, and each has read what
\* is still there (advisory_lock, atomic_write_at, create_private_child).
THEOREM PublicationInductive == Spec => []PublicationInv
<1>1. PublicationInv /\ [Next]_vars => PublicationInv'
  BY PubStepKeeps
<1> QED BY PubInitHolds, <1>1, PTL DEF Spec

\* What a transaction has returned Ok for stays, whatever fails afterwards (replace,
\* create, acquire_waiting, sync_directory).
THEOREM AcknowledgedAlwaysStays == Spec => []AcknowledgedStays
<1>1. PublicationInv => AcknowledgedStays
  BY PubInvIsEnough
<1> QED BY <1>1, PublicationInductive, PTL

\* What is under the document's name is whole, on the disk and the service's
\* (atomic_write_at, inherit_owner).
THEOREM DestinationAlwaysSound == Spec => []DestinationIsSound
<1>1. PublicationInv => DestinationIsSound
  BY PubInvIsEnough
<1> QED BY <1>1, PublicationInductive, PTL

-----------------------------------------------------------------------------
\* What a transaction on a configuration expects to replace.

Early == {"lockopen", "lockown", "lockwait", "locksync", "open", "read", "reopen"}

\* No two files that are in use have the same number.
Live(o) == (\E q \in Procs : job[q].held /\ job[q].opened = o) \/ (\E n \in Names : names[n] = o)
FolderApart(d) ==
  \A n, m \in Names : d[n] # None /\ d[m] # None /\ file[d[n]].ino = file[d[m]].ino => d[n] = d[m]
Numbers ==
  /\ \A d \in Possible : FolderApart(d)
  /\ \A a, b \in Objects : Live(a) /\ Live(b) /\ file[a].ino = file[b].ino => a = b

\* The original is open, its number and metadata are the expected ones, and after
\* the last check it is the document unless the administrator has been there.
Expecting(h, j) ==
  /\ h \in Early /\ j.locked => j.expected = None /\ (h # "read" => j.opened = None)
  /\ h \in Deciding \ {"reopen"} =>
       /\ j.expected = None => j.opened = None
       /\ j.expected # None => j.held /\ j.opened \in Objects /\ j.expected.ino = file[j.opened].ino
  /\ h \in Filled => file[names[j.temp]].meta = IF j.expected = None THEN "private" ELSE j.expected.meta
  /\ h = "publish" /\ ~j.late =>
       Document = j.opened /\ (j.expected # None => file[Document].meta = j.expected.meta)

Expectant == Configuration /\ ~Windows => Numbers /\ \A p \in Procs : Expecting(pc[p], job[p])

Known(o) == (\E q \in Procs : job[q].opened = o) \/ (\E d \in Possible : \E n \in Names : d[n] = o)
NumbersStay == \A o \in Objects : Known(o) => file'[o].ino = file[o].ino
OriginalStays == Document' = Document /\ (Document # None => file'[Document].meta = file[Document].meta)

LEMMA ExpectInit == Init => Expectant
<1> SUFFICES ASSUME Init PROVE Numbers /\ \A p \in Procs : Expecting(pc[p], job[p])
  BY DEF Expectant
<1>1. PublicationInv
  BY PubInitHolds
<1>2. \A p \in Procs : pc[p] = "idle" /\ job[p] = NoJob
  BY DEF Init
<1>3. \A p \in Procs : Expecting(pc[p], job[p])
  BY <1>2 DEF Expecting, Early, Deciding, Filled
<1>4. \A o \in Objects : file[o].ino = o
  BY DEF Init
<1>5. \A a, b \in Objects : file[a].ino = file[b].ino => a = b
  BY <1>4
<1>6. \A d \in Possible : FolderApart(d)
  BY <1>1, <1>5, NamesFacts DEF FolderApart, Folders, PublicationInv
<1> QED BY <1>3, <1>5, <1>6 DEF Numbers

\* A step after which nothing is in use that was not before.
LEMMA NumbersKept ==
  ASSUME PublicationInv, PublicationInv', Numbers, NumbersStay,
         \A q \in Procs : job'[q].held => job'[q].opened = None \/ Live(job'[q].opened),
         \A n \in Names : names'[n] = None \/ Live(names'[n]),
         \A d \in Possible' : d \in Possible \/ \A n \in Names : d[n] = None \/ \E m \in Names : d[n] = names[m]
  PROVE  Numbers'
<1>1. /\ names' \in Folders /\ \A d \in Possible' : d \in Folders
      /\ names \in Folders /\ names \in Possible /\ \A d \in Possible : d \in Folders
  <2>1. FolderTypes /\ FolderTypes'
    BY DEF PublicationInv
  <2>2. names' \in Folders /\ \A d \in Possible' : d \in Folders
    <3>1. Len(dirs') \in DOMAIN dirs' /\ \A k \in DOMAIN dirs' : dirs'[k] \in Folders
      BY <2>1 DEF FolderTypes
    <3> QED BY <3>1 DEF names, Possible
  <2> QED BY <2>1, <2>2, NamesFacts
<1>2. \A o \in Objects : Live(o) => file'[o].ino = file[o].ino
  BY <1>1 DEF Live, Known, NumbersStay
<1>3. ASSUME NEW a \in Objects, Live(a)' PROVE Live(a)
  <2>1. CASE \E q \in Procs : job'[q].held /\ job'[q].opened = a
    BY <2>1, NamesAreApart
  <2>2. CASE \E n \in Names : names'[n] = a
    BY <2>2, NamesAreApart
  <2> QED BY <1>3, <2>1, <2>2 DEF Live
<1>4. ASSUME NEW a \in Objects, NEW b \in Objects, Live(a)', Live(b)', file'[a].ino = file'[b].ino PROVE a = b
  BY <1>2, <1>3, <1>4 DEF Numbers
<1>5. ASSUME NEW d \in Possible' PROVE FolderApart(d)'
  <2> SUFFICES ASSUME NEW n \in Names, NEW m \in Names, d[n] # None, d[m] # None, file'[d[n]].ino = file'[d[m]].ino
               PROVE  d[n] = d[m]
    BY DEF FolderApart
  <2>1. d[n] \in Objects /\ d[m] \in Objects
    BY <1>1 DEF Folders
  <2>2. CASE d \in Possible
    <3>1. file'[d[n]].ino = file[d[n]].ino /\ file'[d[m]].ino = file[d[m]].ino
      BY <2>1, <2>2 DEF NumbersStay, Known
    <3>2. FolderApart(d)
      BY <2>2 DEF Numbers
    <3> QED BY <3>1, <3>2 DEF FolderApart
  <2>3. CASE \A k \in Names : d[k] = None \/ \E l \in Names : d[k] = names[l]
    <3>1. Live(d[n]) /\ Live(d[m])
      BY <2>3 DEF Live
    <3> QED BY <1>2, <2>1, <3>1 DEF Numbers
  <2> QED BY <2>2, <2>3
<1> QED BY <1>4, <1>5 DEF Numbers

\* A new file has a number of its own.
LEMMA NumbersCreated ==
  ASSUME PublicationInv, PublicationInv', Numbers, NEW n \in Names, NEW text \in SUBSET Nat, NEW meta \in Metas,
         NEW synced \in BOOLEAN, Create(n, text, meta, synced),
         \A q \in Procs : job'[q].held = job[q].held /\ job'[q].opened = job[q].opened
  PROVE  Numbers' /\ NumbersStay
<1>1. PICK x \in Objects, d \in Folders : NewFile(n, x, d, text, meta, synced)
  BY CreatedFacts
<1>2. /\ d = [names EXCEPT ![n] = x] /\ names' = d /\ Possible' = Possible \cup {d}
      /\ \A o \in Objects : o # x => file'[o] = file[o]
      /\ \A e \in Possible : \A m \in Names : e[m] # x
      /\ \A q \in Procs : job[q].opened # x
  BY <1>1 DEF NewFile, Added, Unnamed
<1>3. /\ names \in Folders /\ names \in Possible /\ \A e \in Possible : e \in Folders
      /\ d[n] = x /\ \A m \in Names : m # n => d[m] = names[m]
  BY <1>2, NamesFacts DEF Folders, PublicationInv
<1>4. x = Fresh
  <2>1. names' = [names EXCEPT ![n] = Fresh]
    <3>1. PICK e : e = [names EXCEPT ![n] = Fresh]
      OBVIOUS
    <3>2. Fresh \in Objects
      BY FreshIsNew DEF Create, PublicationInv
    <3>3. e \in Folders /\ dirs' = Append(dirs, e)
      BY <1>3, <3>1, <3>2 DEF Create, Named, Folders
    <3> QED BY <3>1, <3>3, Appended DEF PublicationInv
  <2> QED BY <1>2, <1>3, <2>1 DEF Folders
<1>5. PICK ino \in Objects : ino = FreeNumber(n) /\ ino \notin Numbered(n)
  BY DEF Create, FreeNumber
<1>6. file'[x].ino = ino
  <2>1. file' = [file EXCEPT ![x] = [ino |-> ino, text |-> text, meta |-> meta, synced |-> synced]]
    BY <1>4, <1>5 DEF Create
  <2> QED BY <2>1 DEF PublicationInv, FolderTypes
<1>7. \A q \in Procs : job[q].held /\ job[q].opened # None => file[job[q].opened].ino # ino
  BY <1>5 DEF Numbered, Opened
<1>8. \A m \in Names : m # n /\ names[m] # None => file[names[m]].ino # ino
  BY <1>5 DEF Numbered
<1>9. NumbersStay
  BY <1>2 DEF NumbersStay, Known
<1>10. ASSUME NEW a \in Objects, Live(a)', a # x
       PROVE  Live(a) /\ file[a].ino # ino /\ file'[a] = file[a]
  <2>1. CASE \E q \in Procs : job'[q].held /\ job'[q].opened = a
    BY <1>2, <1>7, <1>10, <2>1, NamesAreApart DEF Live
  <2>2. CASE \E m \in Names : names'[m] = a
    BY <1>2, <1>3, <1>8, <1>10, <2>2, NamesAreApart DEF Live
  <2> QED BY <1>10, <2>1, <2>2 DEF Live
<1>11. ASSUME NEW a \in Objects, NEW b \in Objects, Live(a)', Live(b)', file'[a].ino = file'[b].ino PROVE a = b
  BY <1>6, <1>10, <1>11 DEF Numbers
<1>12. ASSUME NEW e \in Possible' PROVE FolderApart(e)'
  <2>1. CASE e \in Possible
    <3>1. \A m \in Names : e[m] # None => file'[e[m]] = file[e[m]]
      BY <1>2, <1>3, <2>1 DEF Folders
    <3> QED BY <2>1, <3>1 DEF Numbers, FolderApart
  <2>2. CASE e = d
    <3>1. \A m \in Names : d[m] # None => d[m] \in Objects /\ Live(d[m])'
      BY <1>2, <1>3 DEF Live, Folders
    <3> QED BY <1>11, <2>2, <3>1 DEF FolderApart
  <2> QED BY <1>2, <2>1, <2>2
<1> QED BY <1>9, <1>11, <1>12 DEF Numbers

\* What goes on while somebody else does something.
LEMMA OthersExpect ==
  ASSUME PublicationInv, NEW q \in Procs, NEW g, NEW i \in Jobs, Shape(q, g, i), Private(g, i), Expecting(g, i),
         i.opened = job[q].opened, NumbersStay, TemporariesStay(q), g = "publish" /\ ~i.late => OriginalStays
  PROVE  Expecting(g, i)'
<1>1. g \in Deciding \ {"reopen"} /\ i.expected # None => file'[i.opened].ino = file[i.opened].ino
  <2> SUFFICES ASSUME g \in Deciding \ {"reopen"}, i.expected # None PROVE file'[i.opened].ino = file[i.opened].ino
    OBVIOUS
  <2>1. i.opened \in Objects /\ Known(i.opened)
    BY DEF Expecting, Known
  <2> QED BY <2>1 DEF NumbersStay
<1>2. g \in Filled => names'[i.temp] = names[i.temp] /\ file'[names[i.temp]] = file[names[i.temp]]
  <2> SUFFICES ASSUME g \in Filled PROVE names'[i.temp] = names[i.temp] /\ file'[names[i.temp]] = file[names[i.temp]]
    OBVIOUS
  <2>1. i.temp \in Temporaries /\ i.temp[1] = q
    BY DEF Shape, Jobs
  <2>2. names[i.temp] # None /\ \A d \in Possible : d[document] # names[i.temp]
    BY DEF Private
  <2> QED BY <2>1, <2>2 DEF TemporariesStay
<1>3. g = "publish" /\ ~i.late => Document' = i.opened /\ (i.expected # None => file'[Document'].meta = i.expected.meta)
  <2> SUFFICES ASSUME g = "publish", ~i.late
               PROVE  Document' = i.opened /\ (i.expected # None => file'[Document'].meta = i.expected.meta)
    OBVIOUS
  <2>1. Document = i.opened /\ (i.expected # None => file[Document].meta = i.expected.meta /\ i.opened \in Objects)
    BY DEF Expecting, Deciding
  <2> QED BY <2>1, NamesAreApart DEF OriginalStays
<1> QED BY <1>1, <1>2, <1>3 DEF Expecting

LEMMA StepExpects ==
  ASSUME PublicationInv, Expectant, Configuration, ~Windows, UNCHANGED setting,
         NEW p \in Procs, NEW h, NEW j \in Jobs, pc' = [pc EXCEPT ![p] = h], job' = [job EXCEPT ![p] = j],
         NumbersStay, \A q \in Procs \ {p} : TemporariesStay(q),
         (\E q \in Procs \ {p} : pc[q] = "publish") => OriginalStays,
         Expecting(h, j)', Numbers'
  PROVE  Expectant'
<1>1. ASSUME NEW q \in Procs PROVE Expecting(pc[q], job[q])'
  <2>1. CASE q = p
    <3>1. pc'[q] = h /\ job'[q] = j
      BY <2>1 DEF PublicationInv, ProcTypes
    <3> QED BY <3>1 DEF Expecting
  <2>2. CASE q # p
    <3>1. PICK g \in Calling, i \in Jobs : g = pc[q] /\ i = job[q] /\ Ongoing(q, g, i)
      BY Actor
    <3>2. Expecting(g, i)
      BY <3>1 DEF Expectant
    <3>3. Expecting(g, i)'
      BY <2>2, <3>1, <3>2, OthersExpect DEF Ongoing
    <3>4. pc'[q] = g /\ job'[q] = i
      BY <2>2, <3>1 DEF PublicationInv, ProcTypes
    <3> QED BY <3>3, <3>4 DEF Expecting
  <2> QED BY <2>1, <2>2
<1> QED BY <1>1 DEF Expectant

\* A step that leaves the files and the names alone.
CalmStep == file' = file /\ names' = names /\ Possible' \subseteq Possible /\ UNCHANGED setting

LEMMA CalmSteps ==
  ASSUME PublicationInv, UNCHANGED <<setting, disk>> \/ (UNCHANGED <<setting, file>> /\ SyncNames)
  PROVE  CalmStep
<1>1. CASE UNCHANGED <<setting, disk>>
  <2>1. dirs' = dirs /\ file' = file /\ UNCHANGED setting
    BY <1>1 DEF disk
  <2> QED BY <2>1 DEF CalmStep, names, Possible
<1>2. CASE UNCHANGED <<setting, file>> /\ SyncNames
  BY <1>2, SyncedFacts DEF CalmStep
<1> QED BY <1>1, <1>2

LEMMA CalmExpects ==
  ASSUME PublicationInv, PublicationInv', Expectant, Configuration, ~Windows, CalmStep,
         NEW p \in Procs, NEW h, NEW j \in Jobs, pc' = [pc EXCEPT ![p] = h], job' = [job EXCEPT ![p] = j],
         j.held => j.opened = None \/ Live(j.opened), Expecting(h, j)
  PROVE  Expectant'
<1>1. file' = file /\ names' = names /\ Possible' \subseteq Possible /\ Document' = Document /\ UNCHANGED setting
  BY DEF CalmStep, Document
<1>2. NumbersStay /\ OriginalStays
  BY <1>1 DEF NumbersStay, OriginalStays
<1>3. \A q \in Procs : TemporariesStay(q)
  BY <1>1 DEF TemporariesStay
<1>4. Expecting(h, j)'
  BY <1>1 DEF Expecting
<1>5. Numbers'
  <2>1. Numbers
    BY DEF Expectant
  <2>2. \A q \in Procs : job'[q].held => job'[q].opened = None \/ Live(job'[q].opened)
    <3> SUFFICES ASSUME NEW q \in Procs, job'[q].held PROVE job'[q].opened = None \/ Live(job'[q].opened)
      OBVIOUS
    <3>1. CASE q = p
      <4>1. job'[q] = j
        BY <3>1 DEF PublicationInv, ProcTypes
      <4> QED BY <4>1
    <3>2. CASE q # p
      <4>1. job'[q] = job[q]
        BY <3>2 DEF PublicationInv, ProcTypes
      <4> QED BY <4>1 DEF Live
    <3> QED BY <3>1, <3>2
  <2>3. \A n \in Names : names'[n] = None \/ Live(names'[n])
    BY <1>1 DEF Live
  <2>4. \A d \in Possible' : d \in Possible
    BY <1>1
  <2> QED BY <1>2, <2>1, <2>2, <2>3, <2>4, NumbersKept
<1> QED BY <1>1, <1>2, <1>3, <1>4, <1>5, StepExpects

LEMMA AdvanceExpects ==
  ASSUME PublicationInv, PublicationInv', Expectant, Configuration, ~Windows, CalmStep,
         NEW p \in Procs, NEW h, Goto(p, h), UNCHANGED job, Expecting(h, job[p])
  PROVE  Expectant'
<1>1. PICK j \in Jobs : j = job[p]
  BY Actor
<1>2. pc' = [pc EXCEPT ![p] = h] /\ job' = [job EXCEPT ![p] = j]
  BY <1>1 DEF Goto, PublicationInv, ProcTypes
<1>3. j.held => Live(j.opened)
  BY <1>1 DEF Live
<1> QED BY <1>1, <1>2, <1>3, CalmExpects

LEMMA LeavingFree ==
  ASSUME PublicationInv, NEW p \in Procs, Return(p) \/ Refuse(p)
  PROVE  \E h \in {"idle", "unlock", "cleanup"}, j \in Jobs :
           pc' = [pc EXCEPT ![p] = h] /\ job' = [job EXCEPT ![p] = j] /\ (j.held => Live(j.opened))
<1>1. PICK i \in Jobs : i = job[p]
  BY Actor
<1>2. CASE Return(p) /\ i.locked
  <2>1. PICK j : j = [NoJob EXCEPT !.locked = TRUE, !.update = i.update]
    OBVIOUS
  <2>2. j \in Jobs /\ ~j.held
    BY <2>1 DEF NoJob, Jobs
  <2>3. pc' = [pc EXCEPT ![p] = "unlock"] /\ job' = [job EXCEPT ![p] = j]
    BY <1>1, <1>2, <2>1 DEF Return, Goto, Keep
  <2> QED BY <2>2, <2>3
<1>3. CASE Return(p) /\ ~i.locked
  <2>1. pc' = [pc EXCEPT ![p] = "idle"] /\ job' = [job EXCEPT ![p] = NoJob]
    BY <1>1, <1>3 DEF Return, Goto, Keep
  <2>2. NoJob \in Jobs /\ ~NoJob.held
    BY NoJobFacts DEF NoJob
  <2> QED BY <2>1, <2>2
<1>4. CASE Goto(p, "cleanup") /\ UNCHANGED job
  <2>1. pc' = [pc EXCEPT ![p] = "cleanup"] /\ job' = [job EXCEPT ![p] = i]
    BY <1>1, <1>4 DEF Goto, PublicationInv, ProcTypes
  <2> QED BY <1>1, <2>1 DEF Live
<1> QED BY <1>2, <1>3, <1>4 DEF Refuse

LEMMA LeavingExpects ==
  ASSUME PublicationInv, PublicationInv', Expectant, Configuration, ~Windows, CalmStep,
         NEW p \in Procs, Return(p) \/ Refuse(p)
  PROVE  Expectant'
<1>1. PICK h \in {"idle", "unlock", "cleanup"}, j \in Jobs :
        pc' = [pc EXCEPT ![p] = h] /\ job' = [job EXCEPT ![p] = j] /\ (j.held => Live(j.opened))
  BY LeavingFree
<1>2. Expecting(h, j)
  BY DEF Expecting, Early, Deciding, Filled
<1> QED BY <1>1, <1>2, CalmExpects

\* What is known of the one that takes a step.
LEMMA ActorExpects ==
  ASSUME PublicationInv, Expectant, Configuration, ~Windows, NEW p \in Procs
  PROVE  Expecting(pc[p], job[p]) /\ ~Child /\ pc[p] \notin Making /\ Numbers
<1>1. ~Child /\ Shape(p, pc[p], job[p]) /\ Expecting(pc[p], job[p]) /\ Numbers
  BY Actor, KindFacts DEF Ongoing, Expectant
<1>2. pc[p] \notin Making
  BY <1>1 DEF Shape
<1> QED BY <1>1, <1>2

-----------------------------------------------------------------------------
\* The steps that only look, on a configuration.

LEMMA BeginUpdateExpects ==
  ASSUME PublicationInv, PublicationInv', Expectant, Configuration, ~Windows, NEW p \in Procs, NEW locked \in BOOLEAN,
         BeginUpdate(p, locked)
  PROVE  Expectant'
<1>1. locked
  BY DEF BeginUpdate
<1>2. PICK j : j = [NoJob EXCEPT !.locked = locked, !.update = updates + 1]
  OBVIOUS
<1>3. pc' = [pc EXCEPT ![p] = "lockopen"] /\ job' = [job EXCEPT ![p] = j] /\ UNCHANGED <<setting, disk>>
  BY <1>1, <1>2 DEF BeginUpdate, Goto, Keep
<1>4. j \in Jobs /\ ~j.held /\ j.expected = None /\ j.opened = None
  <2>1. updates + 1 \in Nat
    BY DEF PublicationInv, CountTypes
  <2> QED BY <1>2, <2>1 DEF NoJob, Jobs
<1>5. Expecting("lockopen", j)
  BY <1>4 DEF Expecting, Deciding, Filled
<1> QED BY <1>3, <1>4, <1>5, CalmSteps, CalmExpects

LEMMA BeginReadExpects ==
  ASSUME PublicationInv, PublicationInv', Expectant, Configuration, ~Windows, NEW p \in Procs, BeginRead(p)
  PROVE  Expectant'
<1>1. pc[p] = "idle" /\ Goto(p, "open") /\ UNCHANGED job /\ UNCHANGED <<setting, disk>>
  BY KindFacts DEF BeginRead, Advance, At
<1>2. Shape(p, "idle", job[p])
  BY <1>1, Actor DEF Ongoing
<1>3. Expecting("open", job[p])
  BY <1>2 DEF Shape, Expecting, Deciding, Filled
<1> QED BY <1>1, <1>3, CalmSteps, AdvanceExpects

\* Waiting for the lock, and what has been read goes on to the next check.
LEMMA LookingExpects ==
  ASSUME PublicationInv, PublicationInv', Expectant, Configuration, ~Windows, CalmStep,
         NEW p \in Procs, NEW h, Goto(p, h), UNCHANGED job,
         \/ pc[p] \in {"lockopen", "lockown", "lockwait", "locksync"} /\ h \in {"lockown", "lockwait", "locksync", "open"}
         \/ h \notin Early \cup Deciding
  PROVE  Expectant'
<1>1. Expecting(pc[p], job[p])
  BY ActorExpects
<1>2. Expecting(h, job[p])
  BY <1>1 DEF Expecting, Early, Deciding, Filled
<1> QED BY <1>2, AdvanceExpects

LEMMA LockWaitExpects ==
  ASSUME PublicationInv, PublicationInv', Expectant, Configuration, ~Windows, NEW p \in Procs, LockWait(p)
  PROVE  Expectant'
<1>1. pc[p] = "lockwait" /\ Goto(p, "locksync") /\ UNCHANGED job /\ UNCHANGED <<setting, disk>>
  BY DEF LockWait, Advance, At
<1> QED BY <1>1, CalmSteps, LookingExpects

LEMMA LockSyncExpects ==
  ASSUME PublicationInv, PublicationInv', Expectant, Configuration, ~Windows, NEW p \in Procs, LockSync(p)
  PROVE  Expectant'
<1>1. pc[p] = "locksync" /\ Goto(p, "open") /\ UNCHANGED job /\ UNCHANGED <<setting, file>> /\ SyncNames
  BY DEF LockSync, Advance, At
<1> QED BY <1>1, CalmSteps, LookingExpects

LEMMA LinkSyncExpects ==
  ASSUME PublicationInv, PublicationInv', Expectant, Configuration, ~Windows, NEW p \in Procs, LinkSync(p)
  PROVE  Expectant'
<1>1. Goto(p, "unlink") /\ UNCHANGED job /\ UNCHANGED <<setting, file>> /\ SyncNames
  BY DEF LinkSync, Advance, At
<1> QED BY <1>1, CalmSteps, LookingExpects DEF Early, Deciding

LEMMA ConfirmExpects ==
  ASSUME PublicationInv, PublicationInv', Expectant, Configuration, ~Windows, NEW p \in Procs, Confirm(p)
  PROVE  Expectant'
<1>1. UNCHANGED <<setting, disk>>
  BY DEF Confirm
<1>2. CASE Goto(p, "syncdir") /\ UNCHANGED job
  BY <1>1, <1>2, CalmSteps, LookingExpects DEF Early, Deciding
<1>3. CASE Refuse(p)
  BY <1>1, <1>3, CalmSteps, LeavingExpects
<1> QED BY <1>2, <1>3 DEF Confirm, Proceed

LEMMA SyncDirectoryExpects ==
  ASSUME PublicationInv, PublicationInv', Expectant, Configuration, ~Windows, NEW p \in Procs, SyncDirectory(p)
  PROVE  Expectant'
<1>1. Return(p) /\ UNCHANGED <<setting, file>> /\ SyncNames
  BY DEF SyncDirectory
<1> QED BY <1>1, CalmSteps, LeavingExpects

LEMMA EndExpects ==
  ASSUME PublicationInv, PublicationInv', Expectant, Configuration, ~Windows, NEW p \in Procs, End(p)
  PROVE  Expectant'
<1>1. pc' = [pc EXCEPT ![p] = "idle"] /\ job' = [job EXCEPT ![p] = NoJob] /\ UNCHANGED <<setting, disk>>
  BY DEF End, Goto, Keep
<1>2. NoJob \in Jobs /\ ~NoJob.held
  BY NoJobFacts DEF NoJob
<1>3. Expecting("idle", NoJob)
  BY DEF Expecting, Early, Deciding, Filled
<1> QED BY <1>1, <1>2, <1>3, CalmSteps, CalmExpects

LEMMA OpenExpects ==
  ASSUME PublicationInv, PublicationInv', Expectant, Configuration, ~Windows, NEW p \in Procs, Open(p)
  PROVE  Expectant'
<1>1. pc[p] = "open" /\ UNCHANGED <<setting, disk>> /\ CalmStep
  BY CalmSteps DEF Open, At
<1>2. PICK i \in Jobs : i = job[p]
  BY Actor
<1>3. Expecting("open", i) /\ Shape(p, "open", i)
  BY <1>1, <1>2, Actor, ActorExpects DEF Ongoing
<1>4. CASE Return(p) \/ Refuse(p)
  BY <1>1, <1>4, LeavingExpects
<1>5. CASE job[p].update # 0 /\ Absent(p, Writes)
  <2>1. PICK j : j = [i EXCEPT !.create = TRUE]
    OBVIOUS
  <2>2. j \in Jobs /\ j.locked = i.locked /\ j.expected = i.expected /\ j.opened = i.opened /\ j.held = i.held
    BY <2>1 DEF Jobs
  <2>3. pc' = [pc EXCEPT ![p] = "reopen"] /\ job' = [job EXCEPT ![p] = j]
    BY <1>2, <1>5, <2>1, KindFacts DEF Absent, Goto, Keep
  <2>4. j.locked /\ j.opened = None
    BY <1>2, <1>3, <1>5, <2>2 DEF Shape, Expecting, Early
  <2>5. Expecting("reopen", j)
    BY <1>3, <2>2, <2>4 DEF Expecting, Early, Deciding, Filled
  <2> QED BY <1>1, <2>2, <2>3, <2>4, <2>5, CalmExpects
<1>6. CASE /\ Document # None /\ Goto(p, "read")
           /\ Keep(p, [job[p] EXCEPT !.opened = Document, !.held = TRUE])
  <2>1. PICK j : j = [i EXCEPT !.opened = Document, !.held = TRUE]
    OBVIOUS
  <2>2. j \in Jobs /\ j.locked = i.locked /\ j.expected = i.expected /\ j.opened = Document
    BY <1>6, <2>1, DocumentIsTyped DEF Jobs
  <2>3. pc' = [pc EXCEPT ![p] = "read"] /\ job' = [job EXCEPT ![p] = j]
    BY <1>2, <1>6, <2>1 DEF Goto, Keep
  <2>4. Live(j.opened)
    BY <2>2, DocumentIsTyped, NamesAreApart DEF Live
  <2>5. Expecting("read", j)
    BY <1>3, <2>2 DEF Expecting, Early, Deciding, Filled
  <2> QED BY <1>1, <2>2, <2>3, <2>4, <2>5, CalmExpects
<1> QED BY <1>4, <1>5, <1>6 DEF Open

LEMMA ReadExpects ==
  ASSUME PublicationInv, PublicationInv', Expectant, Configuration, ~Windows, NEW p \in Procs, Read(p)
  PROVE  Expectant'
<1>1. pc[p] = "read" /\ UNCHANGED <<setting, disk>> /\ CalmStep
  BY CalmSteps DEF Read, At
<1>2. PICK i \in Jobs : i = job[p]
  BY Actor
<1>3. Expecting("read", i) /\ Shape(p, "read", i)
  BY <1>1, <1>2, Actor, ActorExpects DEF Ongoing
<1>4. CASE Return(p)
  BY <1>1, <1>4, LeavingExpects
<1>5. CASE /\ job[p].locked /\ Goto(p, Writes)
           /\ Keep(p, [job[p] EXCEPT !.opened = None, !.held = FALSE, !.seen = file[job[p].opened].text])
  <2>1. PICK seen \in SUBSET Nat : seen = file[i.opened].text
    <3>1. i.opened \in Objects
      BY <1>3 DEF Shape
    <3> QED BY <3>1 DEF PublicationInv, FolderTypes, Files
  <2>2. PICK j : j = [i EXCEPT !.opened = None, !.held = FALSE, !.seen = seen]
    OBVIOUS
  <2>3. j \in Jobs /\ j.expected = i.expected /\ j.opened = None /\ j.locked = i.locked /\ ~j.held
    BY <2>1, <2>2 DEF Jobs
  <2>4. pc' = [pc EXCEPT ![p] = "reopen"] /\ job' = [job EXCEPT ![p] = j]
    BY <1>2, <1>5, <2>1, <2>2, KindFacts DEF Goto, Keep
  <2>5. Expecting("reopen", j)
    BY <1>3, <2>3 DEF Expecting, Early, Deciding, Filled
  <2> QED BY <1>1, <2>3, <2>4, <2>5, CalmExpects
<1> QED BY <1>4, <1>5 DEF Read

LEMMA ReopenExpects ==
  ASSUME PublicationInv, PublicationInv', Expectant, Configuration, ~Windows, NEW p \in Procs, Reopen(p)
  PROVE  Expectant'
<1>1. pc[p] = "reopen" /\ UNCHANGED <<setting, disk>> /\ CalmStep
  BY CalmSteps DEF Reopen, At
<1>2. PICK i \in Jobs : i = job[p]
  BY Actor
<1>3. Expecting("reopen", i) /\ Shape(p, "reopen", i)
  BY <1>1, <1>2, Actor, ActorExpects DEF Ongoing
<1>4. i.locked /\ i.expected = None /\ i.opened = None
  BY <1>3 DEF Shape, Expecting, Early
<1>5. CASE Refuse(p)
  BY <1>1, <1>5, LeavingExpects
<1>6. CASE Absent(p, "prepare")
  <2>1. PICK j : j = [i EXCEPT !.create = TRUE]
    OBVIOUS
  <2>2. j \in Jobs /\ j.expected = None /\ j.opened = None
    BY <1>4, <2>1 DEF Jobs
  <2>3. pc' = [pc EXCEPT ![p] = "prepare"] /\ job' = [job EXCEPT ![p] = j]
    BY <1>2, <1>6, <2>1 DEF Absent, Goto, Keep
  <2>4. Expecting("prepare", j)
    BY <2>2 DEF Expecting, Early, Filled
  <2> QED BY <1>1, <2>2, <2>3, <2>4, CalmExpects
<1>7. CASE /\ Document # None /\ Goto(p, "prepare") /\ Verified(Document)
           /\ Keep(p, [job[p] EXCEPT !.create = FALSE, !.opened = Document, !.held = TRUE, !.expected = Identity(Document)])
  <2>1. PICK o \in Objects : o = Document
    BY <1>7, DocumentIsTyped
  <2>2. PICK expected \in Expectations : expected = Identity(o) /\ expected.ino = file[o].ino /\ expected # None
    <3>1. file[o].ino \in Objects /\ file[o].meta \in Metas /\ Links(o) \in Nat
      BY LinksAreCounted DEF PublicationInv, FolderTypes, Files
    <3>2. PICK e : e = [ino |-> file[o].ino, meta |-> file[o].meta, links |-> Links(o)]
      OBVIOUS
    <3>3. e \in Expectations /\ e.ino = file[o].ino /\ e = Identity(o)
      BY <3>1, <3>2 DEF Expectations, Identity
    <3>4. e # None
      BY <3>3, FilePublicationAssumption DEF Expectations, Objects, Metas
    <3> QED BY <3>3, <3>4
  <2>3. PICK j : j = [i EXCEPT !.create = FALSE, !.opened = o, !.held = TRUE, !.expected = expected]
    OBVIOUS
  <2>4. j \in Jobs /\ j.expected = expected /\ j.opened = o /\ j.held
    BY <2>3 DEF Jobs
  <2>5. pc' = [pc EXCEPT ![p] = "prepare"] /\ job' = [job EXCEPT ![p] = j]
    BY <1>2, <1>7, <2>1, <2>2, <2>3 DEF Goto, Keep
  <2>6. Live(j.opened)
    BY <2>1, <2>4, DocumentIsTyped, NamesAreApart DEF Live
  <2>7. Expecting("prepare", j)
    BY <2>2, <2>4 DEF Expecting, Early, Filled
  <2> QED BY <1>1, <2>4, <2>5, <2>6, <2>7, CalmExpects
<1> QED BY <1>5, <1>6, <1>7 DEF Reopen

\* An inode number that is used again deceives no check: the original is open.
LEMMA RevalidateExpects ==
  ASSUME PublicationInv, PublicationInv', Expectant, Configuration, ~Windows, NEW p \in Procs, Revalidate(p)
  PROVE  Expectant'
<1>1. pc[p] = "revalidate" /\ UNCHANGED <<setting, disk>> /\ CalmStep
  BY CalmSteps DEF Revalidate, At
<1>2. PICK i \in Jobs : i = job[p]
  BY Actor
<1>3. Expecting("revalidate", i) /\ Numbers
  BY <1>1, <1>2, ActorExpects
<1>4. CASE Refuse(p)
  BY <1>1, <1>4, LeavingExpects
<1>5. CASE Valid(p) /\ Goto(p, "publish") /\ Keep(p, [job[p] EXCEPT !.late = FALSE])
  <2>1. PICK j : j = [i EXCEPT !.late = FALSE]
    OBVIOUS
  <2>2. j \in Jobs /\ j.expected = i.expected /\ j.opened = i.opened /\ j.held = i.held /\ j.temp = i.temp
    BY <2>1 DEF Jobs
  <2>3. pc' = [pc EXCEPT ![p] = "publish"] /\ job' = [job EXCEPT ![p] = j]
    BY <1>2, <1>5, <2>1 DEF Goto, Keep
  <2>4. i.held => Live(i.opened)
    BY <1>2 DEF Live
  <2>5. Document = i.opened /\ (i.expected # None => file[Document].meta = i.expected.meta)
    <3>1. CASE i.expected = None
      BY <1>2, <1>3, <1>5, <3>1 DEF Valid, Expecting, Deciding, Filled
    <3>2. CASE i.expected # None
      <4>1. Document # None /\ Identity(Document) = i.expected
        BY <1>2, <1>5, <3>2 DEF Valid
      <4>2. file[Document].ino = i.expected.ino /\ file[Document].meta = i.expected.meta
        BY <4>1 DEF Identity
      <4>3. i.held /\ i.opened \in Objects /\ i.expected.ino = file[i.opened].ino
        BY <1>3, <3>2 DEF Expecting, Deciding, Filled
      <4>4. Document \in Objects /\ Live(Document)
        BY <4>1, DocumentIsTyped, NamesAreApart DEF Live
      <4> QED BY <1>3, <2>4, <4>2, <4>3, <4>4 DEF Numbers
    <3> QED BY <3>1, <3>2
  <2>6. Expecting("publish", j)
    BY <1>3, <2>2, <2>5 DEF Expecting, Early, Deciding, Filled
  <2> QED BY <1>1, <2>2, <2>3, <2>4, <2>6, CalmExpects
<1> QED BY <1>4, <1>5 DEF Revalidate

-----------------------------------------------------------------------------
\* The steps that change a file or a name, on a configuration.

LEMMA LockOwnExpects ==
  ASSUME PublicationInv, PublicationInv', Expectant, Configuration, ~Windows, NEW p \in Procs, LockOwn(p)
  PROVE  Expectant'
<1>1. /\ pc[p] = "lockown" /\ Goto(p, "lockwait") /\ UNCHANGED job /\ UNCHANGED <<setting, dirs>>
      /\ file' = [file EXCEPT ![names[lock]].meta = "private"]
  BY DEF LockOwn, Advance, At
<1>2. PICK x : x = names[lock]
  OBVIOUS
<1>3. names' = names /\ Possible' = Possible /\ Document' = Document
  BY <1>1 DEF names, Possible, Document
<1>4. /\ \A o \in Objects : file'[o].ino = file[o].ino
      /\ \A o \in Objects : o # x => file'[o] = file[o]
  BY <1>1, <1>2 DEF PublicationInv, FolderTypes, Files
<1>5. names \in Folders /\ Shared(names)
  BY NamesFacts DEF PublicationInv, Whole
<1>6. NumbersStay
  BY <1>4 DEF NumbersStay
<1>7. OriginalStays
  <2> SUFFICES ASSUME Document # None PROVE file'[Document].meta = file[Document].meta
    BY <1>3 DEF OriginalStays
  <2>1. Document \in Objects /\ Document = names[document]
    BY DocumentIsTyped
  <2>2. Document # x
    BY <1>2, <1>5, <2>1, NamesAreApart DEF Shared
  <2> QED BY <1>4, <2>1, <2>2
<1>8. \A q \in Procs : TemporariesStay(q)
  <2> SUFFICES ASSUME NEW n \in Temporaries, names[n] # None PROVE file'[names[n]] = file[names[n]]
    BY <1>3 DEF TemporariesStay
  <2>1. names[n] \in Objects
    BY <1>5, NamesAreApart DEF Folders
  <2>2. names[n] # x
    BY <1>2, <1>5, NamesAreApart DEF Shared
  <2> QED BY <1>4, <2>1, <2>2
<1>9. PICK j \in Jobs : j = job[p]
  BY Actor
<1>10. pc' = [pc EXCEPT ![p] = "lockwait"] /\ job' = [job EXCEPT ![p] = j]
  BY <1>1, <1>9 DEF Goto, PublicationInv, ProcTypes
<1>11. Expecting("lockwait", j)'
  <2>1. Expecting("lockown", j)
    BY <1>1, <1>9, ActorExpects
  <2> QED BY <2>1 DEF Expecting, Early, Deciding, Filled
<1>12. Numbers'
  <2>1. Numbers
    BY DEF Expectant
  <2>2. job' = job
    BY <1>1
  <2> QED BY <1>3, <1>6, <2>1, <2>2, NumbersKept DEF Live
<1> QED BY <1>1, <1>6, <1>7, <1>8, <1>10, <1>11, <1>12, StepExpects

\* The lock file or a temporary is made, or a temporary goes.
LEMMA AsideExpects ==
  ASSUME PublicationInv, Expectant, Configuration, ~Windows, UNCHANGED setting,
         NEW p \in Procs, NEW h, NEW j \in Jobs, pc' = [pc EXCEPT ![p] = h], job' = [job EXCEPT ![p] = j],
         NEW n \in Names, n = lock \/ (n \in Temporaries /\ n[1] = p), NEW x, NEW d \in Folders,
         Added(n, x, d), x = None \/ Unnamed(x), NumbersStay, Expecting(h, j)', Numbers'
  PROVE  Expectant'
<1>1. /\ Document' = Document
      /\ \A q \in Procs \ {p} : TemporariesStay(q)
      /\ \A e \in Possible : \A m \in Names : e[m] # None => e[m] # x /\ file'[e[m]] = file[e[m]]
  BY AnotherName
<1>2. OriginalStays
  BY <1>1, DocumentIsTyped, NamesAreApart DEF OriginalStays
<1> QED BY <1>1, <1>2, StepExpects

LEMMA LockOpenExpects ==
  ASSUME PublicationInv, PublicationInv', Expectant, Configuration, ~Windows, NEW p \in Procs, LockOpen(p)
  PROVE  Expectant'
<1>1. pc[p] = "lockopen" /\ UNCHANGED setting
  BY DEF LockOpen, At
<1>2. PICK j \in Jobs : j = job[p]
  BY Actor
<1>3. CASE Create(lock, {}, NewMeta(p), TRUE) /\ Goto(p, "lockown") /\ UNCHANGED job
  <2>1. pc' = [pc EXCEPT ![p] = "lockown"] /\ job' = [job EXCEPT ![p] = j]
    BY <1>2, <1>3 DEF Goto, PublicationInv, ProcTypes
  <2>2. PICK text \in SUBSET Nat, meta \in Metas, synced \in BOOLEAN :
          lock \in Names /\ Create(lock, text, meta, synced)
    <3>1. NewMeta(p) \in Metas /\ {} \in SUBSET Nat /\ TRUE \in BOOLEAN /\ lock \in Names
      BY NamesAreApart DEF NewMeta, Metas
    <3> QED BY <1>3, <3>1
  <2>3. PICK x \in Objects, d \in Folders : NewFile(lock, x, d, text, meta, synced)
    BY <2>2, CreatedFacts
  <2>4. Added(lock, x, d) /\ Unnamed(x)
    BY <2>3 DEF NewFile
  <2>5. Numbers' /\ NumbersStay
    <3>1. Numbers
      BY DEF Expectant
    <3>2. \A q \in Procs : job'[q].held = job[q].held /\ job'[q].opened = job[q].opened
      BY <1>3
    <3> QED BY <2>2, <3>1, <3>2, NumbersCreated
  <2>6. Expecting("lockown", j)'
    <3>1. Expecting("lockopen", j)
      BY <1>1, <1>2, ActorExpects
    <3> QED BY <3>1 DEF Expecting, Early, Deciding, Filled
  <2> QED BY <1>1, <2>1, <2>2, <2>4, <2>5, <2>6, AsideExpects
<1>4. CASE Goto(p, "lockwait") /\ UNCHANGED job /\ UNCHANGED disk
  BY <1>1, <1>4, CalmSteps, LookingExpects
<1>5. CASE Refuse(p) /\ UNCHANGED disk
  BY <1>1, <1>5, CalmSteps, LeavingExpects
<1> QED BY <1>3, <1>4, <1>5 DEF LockOpen, Proceed

LEMMA PrepareExpects ==
  ASSUME PublicationInv, PublicationInv', Expectant, Configuration, ~Windows, NEW p \in Procs, Prepare(p)
  PROVE  Expectant'
<1>1. pc[p] = "prepare" /\ UNCHANGED setting
  BY DEF Prepare, At
<1>2. CASE Refuse(p) /\ UNCHANGED disk
  BY <1>1, <1>2, CalmSteps, LeavingExpects
<1>3. CASE /\ Create(<<p, mishaps>>, {}, NewMeta(p), FALSE) /\ Goto(p, "write")
           /\ Keep(p, [job[p] EXCEPT !.temp = <<p, mishaps>>])
  <2>1. PICK i \in Jobs : i = job[p]
    BY Actor
  <2>2. PICK n : n = <<p, mishaps>>
    OBVIOUS
  <2>3. n \in Temporaries /\ n[1] = p /\ n \in Names
    <3>1. mishaps \in 0..MaxMishaps
      BY DEF PublicationInv, CountTypes
    <3>2. n \in Temporaries /\ n[1] = p
      BY <2>2, <3>1 DEF Temporaries
    <3> QED BY <3>2, NamesAreApart
  <2>4. PICK text \in SUBSET Nat, meta \in Metas, synced \in BOOLEAN : Create(n, text, meta, synced)
    <3>1. NewMeta(p) \in Metas /\ {} \in SUBSET Nat /\ FALSE \in BOOLEAN
      BY DEF NewMeta, Metas
    <3> QED BY <1>3, <2>2, <3>1
  <2>5. PICK x \in Objects, d \in Folders : NewFile(n, x, d, text, meta, synced)
    BY <2>3, <2>4, CreatedFacts
  <2>6. Added(n, x, d) /\ Unnamed(x)
    BY <2>5 DEF NewFile
  <2>7. PICK j : j = [i EXCEPT !.temp = n]
    OBVIOUS
  <2>8. j \in Jobs /\ j.expected = i.expected /\ j.opened = i.opened /\ j.held = i.held
    BY <2>3, <2>7 DEF Jobs
  <2>9. pc' = [pc EXCEPT ![p] = "write"] /\ job' = [job EXCEPT ![p] = j]
    BY <1>3, <2>1, <2>2, <2>7 DEF Goto, Keep
  <2>10. Numbers' /\ NumbersStay
    <3>1. Numbers
      BY DEF Expectant
    <3>2. \A q \in Procs : job'[q].held = job[q].held /\ job'[q].opened = job[q].opened
      BY <2>1, <2>8, <2>9 DEF PublicationInv, ProcTypes
    <3> QED BY <2>3, <2>4, <3>1, <3>2, NumbersCreated
  <2>11. Expecting("write", j)'
    <3>1. Expecting("prepare", i)
      BY <1>1, <2>1, ActorExpects
    <3>2. i.expected # None => i.opened \in Objects /\ Known(i.opened)
      BY <2>1, <3>1 DEF Expecting, Deciding, Known
    <3>3. i.expected # None => file'[i.opened].ino = file[i.opened].ino
      BY <2>10, <3>2 DEF NumbersStay
    <3> QED BY <2>8, <3>1, <3>3 DEF Expecting, Early, Deciding, Filled
  <2> QED BY <1>1, <2>3, <2>6, <2>8, <2>9, <2>10, <2>11, AsideExpects
<1> QED BY <1>2, <1>3 DEF Prepare

\* What is written is the temporary of who writes.
LEMMA WritingExpects ==
  ASSUME PublicationInv, PublicationInv', Expectant, Configuration, ~Windows, NEW p \in Procs, pc[p] = "write",
         NEW r \in Files, r.ino = file[Temporary(p)].ino, file' = [file EXCEPT ![Temporary(p)] = r],
         UNCHANGED <<setting, dirs>>,
         NEW h, NEW j \in Jobs, pc' = [pc EXCEPT ![p] = h], job' = [job EXCEPT ![p] = j],
         j.held => j.opened = None \/ Live(j.opened), Expecting(h, j)'
  PROVE  Expectant'
<1>1. /\ file'[Temporary(p)] = r /\ names' = names /\ Possible' = Possible /\ Document' = Document
      /\ \A d \in Possible : d[document] # None => file'[d[document]] = file[d[document]]
      /\ \A q \in Procs \ {p} : TemporariesStay(q)
  BY WritingFacts
<1>2. NumbersStay
  <2>1. \A o \in Objects : o # Temporary(p) => file'[o] = file[o]
    BY DEF PublicationInv, FolderTypes
  <2> QED BY <1>1, <2>1 DEF NumbersStay
<1>3. OriginalStays
  BY <1>1, DocumentIsTyped DEF OriginalStays
<1>4. Numbers'
  <2>1. Numbers
    BY DEF Expectant
  <2>2. ASSUME NEW q \in Procs, job'[q].held PROVE job'[q].opened = None \/ Live(job'[q].opened)
    <3>1. CASE q = p
      <4>1. job'[q] = j
        BY <3>1 DEF PublicationInv, ProcTypes
      <4> QED BY <2>2, <4>1
    <3>2. CASE q # p
      <4>1. job'[q] = job[q]
        BY <3>2 DEF PublicationInv, ProcTypes
      <4> QED BY <2>2, <4>1 DEF Live
    <3> QED BY <3>1, <3>2
  <2>3. \A n \in Names : names'[n] = None \/ Live(names'[n])
    BY <1>1 DEF Live
  <2> QED BY <1>1, <1>2, <2>1, <2>2, <2>3, NumbersKept
<1> QED BY <1>1, <1>2, <1>3, <1>4, StepExpects

LEMMA WritersTemporary ==
  ASSUME PublicationInv, NEW p \in Procs, pc[p] = "write"
  PROVE  Temporary(p) \in Objects /\ Temporary(p) = names[job[p].temp] /\ file[Temporary(p)] \in Files
<1>1. PICK i \in Jobs : i = job[p]
  BY Actor
<1>2. Shape(p, "write", i) /\ Private("write", i)
  BY <1>1, Actor DEF Ongoing
<1>3. i.temp \in Names /\ names[i.temp] # None
  BY <1>2, NamesAreApart DEF Shape, Jobs, Private
<1>4. names[i.temp] \in Objects
  BY <1>3, NamesFacts DEF Folders, PublicationInv
<1> QED BY <1>1, <1>4 DEF Temporary, PublicationInv, FolderTypes

LEMMA WriteExpects ==
  ASSUME PublicationInv, PublicationInv', Expectant, Configuration, ~Windows, NEW p \in Procs, Write(p)
  PROVE  Expectant'
<1>1. pc[p] = "write" /\ Goto(p, "revalidate") /\ UNCHANGED job /\ UNCHANGED <<setting, dirs>>
  BY DEF Write, Advance, At
<1>2. PICK j \in Jobs : j = job[p]
  BY Actor
<1>3. PICK x : x = Temporary(p) /\ x = names[j.temp] /\ x \in Objects /\ file[x] \in Files
  BY <1>1, <1>2, WritersTemporary
<1>4. Expecting("write", j) /\ Shape(p, "write", j)
  BY <1>1, <1>2, Actor, ActorExpects DEF Ongoing
<1>5. PICK meta : meta = OwnMeta(p)
  OBVIOUS
<1>6. meta \in Metas /\ meta = IF j.expected = None THEN "private" ELSE j.expected.meta
  BY <1>2, <1>4, <1>5 DEF OwnMeta, Shape, Metas
<1>7. PICK text : text = j.seen \cup {j.update}
  OBVIOUS
<1>8. text \in SUBSET Nat
  BY <1>7 DEF Jobs
<1>9. PICK r : r = [file[x] EXCEPT !.meta = meta, !.text = text, !.synced = TRUE]
  OBVIOUS
<1>10. r \in Files /\ r.meta = meta /\ r.ino = file[x].ino
  BY <1>3, <1>6, <1>8, <1>9 DEF Files
<1>11. file' = [file EXCEPT ![x] = r]
  BY <1>2, <1>3, <1>5, <1>7, <1>9 DEF Write
<1>12. file'[x] = r /\ names' = names
  BY <1>1, <1>3, <1>10, <1>11, WritingFacts
<1>13. pc' = [pc EXCEPT ![p] = "revalidate"] /\ job' = [job EXCEPT ![p] = j]
  BY <1>1, <1>2 DEF Goto, PublicationInv, ProcTypes
<1>14. Expecting("revalidate", j)'
  <2>1. j.expected # None => file'[j.opened].ino = file[j.opened].ino
    <3>1. j.expected # None => j.opened \in Objects
      BY <1>4 DEF Expecting, Deciding
    <3>2. \A o \in Objects : file'[o].ino = file[o].ino
      BY <1>3, <1>10, <1>11 DEF PublicationInv, FolderTypes
    <3> QED BY <3>1, <3>2
  <2> QED BY <1>3, <1>4, <1>6, <1>10, <1>12, <2>1 DEF Expecting, Early, Deciding, Filled
<1>15. j.held => Live(j.opened)
  BY <1>2 DEF Live
<1> QED BY <1>1, <1>3, <1>10, <1>11, <1>13, <1>14, <1>15, WritingExpects

LEMMA TornExpects ==
  ASSUME PublicationInv, PublicationInv', Expectant, Configuration, ~Windows, NEW p \in Procs, pc[p] = "write",
         file' = [file EXCEPT ![Temporary(p)].text = Torn], UNCHANGED <<setting, dirs>>,
         NEW h \in {"idle", "unlock", "cleanup"}, NEW j \in Jobs, pc' = [pc EXCEPT ![p] = h],
         job' = [job EXCEPT ![p] = j], j.held => Live(j.opened)
  PROVE  Expectant'
<1>1. PICK r : r = [file[Temporary(p)] EXCEPT !.text = Torn]
  OBVIOUS
<1>2. r \in Files /\ r.ino = file[Temporary(p)].ino
  <2>1. Torn \in SUBSET Nat
    BY DEF Torn
  <2> QED BY <1>1, <2>1, WritersTemporary DEF Files
<1>3. file' = [file EXCEPT ![Temporary(p)] = r]
  BY <1>1
<1>4. Expecting(h, j)'
  BY DEF Expecting, Early, Deciding, Filled
<1> QED BY <1>2, <1>3, <1>4, WritingExpects

LEMMA FailExpects ==
  ASSUME PublicationInv, PublicationInv', Expectant, Configuration, ~Windows, NEW p \in Procs, Fail(p)
  PROVE  Expectant'
<1>1. (Return(p) \/ Refuse(p)) /\ UNCHANGED <<setting, dirs>>
  BY DEF Fail
<1>2. CASE pc[p] # "write"
  <2>1. UNCHANGED <<setting, disk>>
    BY <1>2 DEF Fail, disk
  <2> QED BY <1>1, <2>1, CalmSteps, LeavingExpects
<1>3. CASE pc[p] = "write"
  <2>1. file' = [file EXCEPT ![Temporary(p)].text = Torn]
    BY <1>3 DEF Fail
  <2>2. PICK h \in {"idle", "unlock", "cleanup"}, j \in Jobs :
          pc' = [pc EXCEPT ![p] = h] /\ job' = [job EXCEPT ![p] = j] /\ (j.held => Live(j.opened))
    BY <1>1, LeavingFree
  <2> QED BY <1>1, <1>3, <2>1, <2>2, TornExpects
<1> QED BY <1>2, <1>3

LEMMA KillExpects ==
  ASSUME PublicationInv, PublicationInv', Expectant, Configuration, ~Windows, NEW p \in Procs, Kill(p)
  PROVE  Expectant'
<1>1. pc' = [pc EXCEPT ![p] = "idle"] /\ job' = [job EXCEPT ![p] = NoJob] /\ UNCHANGED <<setting, dirs>>
  BY DEF Kill, Keep
<1>2. NoJob \in Jobs /\ ~NoJob.held
  BY NoJobFacts DEF NoJob
<1>3. Expecting("idle", NoJob)
  BY DEF Expecting, Early, Deciding, Filled
<1>4. CASE pc[p] # "write"
  <2>1. UNCHANGED <<setting, disk>>
    BY <1>4 DEF Kill, disk
  <2> QED BY <1>1, <1>2, <1>3, <2>1, CalmSteps, CalmExpects
<1>5. CASE pc[p] = "write"
  <2>1. file' = [file EXCEPT ![Temporary(p)].text = Torn]
    BY <1>5 DEF Kill
  <2> QED BY <1>1, <1>2, <1>5, <2>1, TornExpects
<1> QED BY <1>4, <1>5

\* A name goes.
LEMMA RemovedExpects ==
  ASSUME PublicationInv, PublicationInv', Expectant, Configuration, ~Windows, UNCHANGED <<setting, file>>,
         NEW p \in Procs, NEW h, NEW j \in Jobs, pc' = [pc EXCEPT ![p] = h], job' = [job EXCEPT ![p] = j],
         NEW n \in Temporaries, n[1] = p, Named(n, None), j.held => Live(j.opened), Expecting(h, j)'
  PROVE  Expectant'
<1>1. n \in Names
  BY NamesAreApart
<1>2. PICK d \in Folders : Added(n, None, d)
  BY <1>1, RemovedFacts
<1>3. NumbersStay
  BY DEF NumbersStay
<1>4. Numbers'
  <2>1. Numbers
    BY DEF Expectant
  <2>2. names' = d /\ Possible' = Possible \cup {d} /\ d[n] = None /\ \A m \in Names : m # n => d[m] = names[m]
    BY <1>1, <1>2, NamesFacts DEF Added, Folders, PublicationInv
  <2>3. ASSUME NEW q \in Procs, job'[q].held PROVE job'[q].opened = None \/ Live(job'[q].opened)
    <3>1. CASE q = p
      <4>1. job'[q] = j
        BY <3>1 DEF PublicationInv, ProcTypes
      <4> QED BY <2>3, <4>1
    <3>2. CASE q # p
      <4>1. job'[q] = job[q]
        BY <3>2 DEF PublicationInv, ProcTypes
      <4> QED BY <2>3, <4>1 DEF Live
    <3> QED BY <3>1, <3>2
  <2>4. \A m \in Names : names'[m] = None \/ Live(names'[m])
    BY <2>2 DEF Live
  <2>5. \A e \in Possible' : e \in Possible \/ \A m \in Names : e[m] = None \/ \E k \in Names : e[m] = names[k]
    BY <2>2
  <2> QED BY <1>3, <2>1, <2>3, <2>4, <2>5, NumbersKept
<1> QED BY <1>1, <1>2, <1>3, <1>4, AsideExpects

LEMMA UnlinkExpects ==
  ASSUME PublicationInv, PublicationInv', Expectant, Configuration, ~Windows, NEW p \in Procs, Unlink(p)
  PROVE  Expectant'
<1>1. /\ pc[p] = "unlink" /\ Goto(p, "confirm") /\ UNCHANGED job /\ Named(job[p].temp, None)
      /\ UNCHANGED <<setting, file>>
  BY DEF Unlink, Advance, At
<1>2. PICK j \in Jobs : j = job[p]
  BY Actor
<1>3. Shape(p, "unlink", j)
  BY <1>1, <1>2, Actor DEF Ongoing
<1>4. PICK n \in Temporaries : n = j.temp /\ n[1] = p
  BY <1>3 DEF Shape, Jobs
<1>5. pc' = [pc EXCEPT ![p] = "confirm"] /\ job' = [job EXCEPT ![p] = j]
  BY <1>1, <1>2 DEF Goto, PublicationInv, ProcTypes
<1>6. j.held => Live(j.opened)
  BY <1>2 DEF Live
<1>7. Expecting("confirm", j)'
  BY DEF Expecting, Early, Deciding, Filled
<1>8. Named(n, None)
  BY <1>1, <1>2, <1>4
<1> QED BY <1>1, <1>4, <1>5, <1>6, <1>7, <1>8, RemovedExpects

LEMMA CleanupExpects ==
  ASSUME PublicationInv, PublicationInv', Expectant, Configuration, ~Windows, NEW p \in Procs, Cleanup(p)
  PROVE  Expectant'
<1>1. pc[p] = "cleanup" /\ Return(p) /\ UNCHANGED <<setting, file>>
  BY DEF Cleanup, At
<1>2. CASE UNCHANGED dirs
  <2>1. UNCHANGED <<setting, disk>>
    BY <1>1, <1>2 DEF disk
  <2> QED BY <1>1, <2>1, CalmSteps, LeavingExpects
<1>3. CASE Named(job[p].temp, None)
  <2>1. PICK i \in Jobs : i = job[p]
    BY Actor
  <2>2. Shape(p, "cleanup", i)
    BY <1>1, <2>1, Actor DEF Ongoing
  <2>3. PICK n \in Temporaries : n = i.temp /\ n[1] = p
    BY <2>2 DEF Shape, Jobs
  <2>4. PICK h \in {"idle", "unlock", "cleanup"}, j \in Jobs :
          pc' = [pc EXCEPT ![p] = h] /\ job' = [job EXCEPT ![p] = j] /\ (j.held => Live(j.opened))
    BY <1>1, LeavingFree
  <2>5. Expecting(h, j)'
    BY DEF Expecting, Early, Deciding, Filled
  <2>6. Named(n, None)
    BY <1>3, <2>1, <2>3
  <2> QED BY <1>1, <2>3, <2>4, <2>5, <2>6, RemovedExpects
<1> QED BY <1>2, <1>3 DEF Cleanup

\* The publication: nobody else is about to publish.
LEMMA PublishExpects ==
  ASSUME PublicationInv, PublicationInv', Expectant, Configuration, ~Windows, NEW p \in Procs, pc[p] = "publish",
         NEW i \in Jobs, i = job[p], NEW x, NEW d \in Folders, Publishing(i, x, d), UNCHANGED <<setting, file>>,
         NEW h \in {"confirm", "linksync"}, NEW j \in Jobs, j.opened = x,
         pc' = [pc EXCEPT ![p] = h], job' = [job EXCEPT ![p] = j]
  PROVE  Expectant'
<1>1. /\ x = names[i.temp] /\ d[document] = x /\ d[i.temp] \in {x, None}
      /\ \A n \in Names : n \notin {document, i.temp} => d[n] = names[n]
      /\ names' = d /\ Possible' = Possible \cup {d}
  BY DEF Publishing
<1>2. i.temp \in Names /\ x # None
  BY <1>1, PublishFacts
<1>3. \A q \in Procs \ {p} : TemporariesStay(q)
  BY PublishedApart
<1>4. ASSUME NEW q \in Procs \ {p}, pc[q] = "publish" PROVE FALSE
  <2>1. ASSUME NEW a \in Procs, pc[a] = "publish" PROVE holder = a
    <3>1. PICK k \in Jobs : k = job[a]
      BY Actor
    <3>2. Shape(a, "publish", k) /\ Exclusive(a, "publish", k)
      BY <2>1, <3>1, Actor DEF Ongoing
    <3>3. k.locked
      BY <3>2 DEF Shape, Deciding
    <3> QED BY <3>2, <3>3 DEF Exclusive, Waiting
  <2> QED BY <1>4, <2>1
<1>5. NumbersStay
  BY DEF NumbersStay
<1>6. Expecting(h, j)'
  BY DEF Expecting, Early, Deciding, Filled
<1>7. Numbers'
  <2>1. Numbers
    BY DEF Expectant
  <2>2. ASSUME NEW n \in Names PROVE d[n] = None \/ \E m \in Names : d[n] = names[m] /\ names[m] = d[n]
    BY <1>1, <1>2
  <2>3. ASSUME NEW q \in Procs, job'[q].held PROVE job'[q].opened = None \/ Live(job'[q].opened)
    <3>1. CASE q = p
      <4>1. job'[q] = j
        BY <3>1 DEF PublicationInv, ProcTypes
      <4> QED BY <1>1, <1>2, <4>1 DEF Live
    <3>2. CASE q # p
      <4>1. job'[q] = job[q]
        BY <3>2 DEF PublicationInv, ProcTypes
      <4> QED BY <2>3, <4>1 DEF Live
    <3> QED BY <3>1, <3>2
  <2>4. \A n \in Names : names'[n] = None \/ Live(names'[n])
    BY <1>1, <2>2 DEF Live
  <2>5. \A e \in Possible' : e \in Possible \/ \A n \in Names : e[n] = None \/ \E m \in Names : e[n] = names[m]
    BY <1>1, <2>2
  <2> QED BY <1>5, <2>1, <2>3, <2>4, <2>5, NumbersKept
<1> QED BY <1>3, <1>4, <1>5, <1>6, <1>7, StepExpects

LEMMA RenameExpects ==
  ASSUME PublicationInv, PublicationInv', Expectant, Configuration, ~Windows, NEW p \in Procs, Rename(p)
  PROVE  Expectant'
<1>1. pc[p] = "publish" /\ UNCHANGED <<setting, file>>
  BY DEF Rename, At
<1>2. CASE Refuse(p) /\ UNCHANGED dirs
  <2>1. UNCHANGED <<setting, disk>>
    BY <1>1, <1>2 DEF disk
  <2> QED BY <1>2, <2>1, CalmSteps, LeavingExpects
<1>3. CASE /\ Document = None \/ (~OnlyCreates(p) /\ ~Pinned(Document))
           /\ Renamed(job[p].temp, document) /\ Published(p, IF Windows THEN "syncdir" ELSE "confirm")
  <2>1. PICK i \in Jobs : i = job[p]
    BY Actor
  <2>2. PICK x : x = names[i.temp]
    OBVIOUS
  <2>3. PICK h \in {"confirm", "linksync"} : Published(p, h)
    BY <1>3
  <2>4. PICK d \in Folders, j \in Jobs : Publishes(p, i, x, h, d, j)
    BY <1>1, <1>3, <2>1, <2>2, <2>3, RenamePublishes
  <2>5. j.opened = x
    BY <2>4 DEF Publishes, Jobs
  <2> QED BY <1>1, <2>1, <2>3, <2>4, <2>5, PublishExpects DEF Publishes
<1> QED BY <1>2, <1>3 DEF Rename

LEMMA LinkExpects ==
  ASSUME PublicationInv, PublicationInv', Expectant, Configuration, ~Windows, NEW p \in Procs, Link(p)
  PROVE  Expectant'
<1>1. pc[p] = "publish" /\ UNCHANGED <<setting, file>>
  BY DEF Link, At
<1>2. CASE Refuse(p) /\ UNCHANGED dirs
  <2>1. UNCHANGED <<setting, disk>>
    BY <1>1, <1>2 DEF disk
  <2> QED BY <1>2, <2>1, CalmSteps, LeavingExpects
<1>3. CASE Document = None /\ Named(document, Temporary(p)) /\ Published(p, "linksync")
  <2>1. PICK i \in Jobs : i = job[p]
    BY Actor
  <2>2. PICK x : x = names[i.temp]
    OBVIOUS
  <2>3. PICK h \in {"confirm", "linksync"} : Published(p, h)
    BY <1>3
  <2>4. PICK d \in Folders, j \in Jobs : Publishes(p, i, x, h, d, j)
    BY <1>1, <1>3, <2>1, <2>2, <2>3, LinkPublishes
  <2>5. j.opened = x
    BY <2>4 DEF Publishes, Jobs
  <2> QED BY <1>1, <2>1, <2>3, <2>4, <2>5, PublishExpects DEF Publishes
<1> QED BY <1>2, <1>3 DEF Link

-----------------------------------------------------------------------------
\* The administrator, and a power failure, on a configuration.

\* After an edit nothing is claimed of the document of a call that has checked it.
LEMMA EditsExpect ==
  ASSUME PublicationInv, Expectant, Configuration, ~Windows, Edits, NumbersStay, \A q \in Procs : TemporariesStay(q),
         Numbers'
  PROVE  Expectant'
<1>1. ASSUME NEW q \in Procs PROVE Expecting(pc[q], job[q])'
  <2>1. PICK g \in Calling, i \in Jobs : g = pc[q] /\ i = job[q] /\ Shape(q, g, i) /\ Private(g, i)
    BY Actor DEF Ongoing
  <2>2. Expecting(g, i)
    BY <2>1 DEF Expectant
  <2>3. PICK j : j = [i EXCEPT !.late = TRUE]
    OBVIOUS
  <2>4. j \in Jobs /\ j.create = i.create /\ j.locked = i.locked /\ j.update = i.update /\ j.temp = i.temp
        /\ j.expected = i.expected /\ j.opened = i.opened /\ j.held = i.held /\ j.seen = i.seen /\ j.late
    BY <2>3 DEF Jobs
  <2>5. Shape(q, g, j) /\ Private(g, j)
    BY <2>1, <2>4 DEF Shape, Private
  <2>6. Expecting(g, j)
    BY <2>2, <2>4 DEF Expecting
  <2>7. Expecting(g, j)'
    BY <2>1, <2>4, <2>5, <2>6, OthersExpect
  <2>8. pc'[q] = g /\ job'[q] = j
    BY <2>1, <2>3 DEF Edits
  <2> QED BY <2>7, <2>8 DEF Expecting
<1> QED BY <1>1 DEF Expectant

LEMMA EditedJobs ==
  ASSUME PublicationInv, Edits, NEW q \in Procs
  PROVE  job'[q].held = job[q].held /\ job'[q].opened = job[q].opened
<1>1. PICK i \in Jobs : i = job[q]
  BY Actor
<1>2. job'[q] = [i EXCEPT !.late = TRUE]
  BY <1>1 DEF Edits
<1> QED BY <1>1, <1>2 DEF Jobs

\* Another document, or none.
LEMMA EditedApart ==
  ASSUME PublicationInv, NEW x, NEW d \in Folders, Added(document, x, d), x = None \/ Unnamed(x), NEW q \in Procs
  PROVE  TemporariesStay(q)
<1>1. /\ d = [names EXCEPT ![document] = x] /\ names' = d /\ Possible' = Possible \cup {d}
      /\ \A o \in Objects : o # x => file'[o] = file[o]
      /\ x = None \/ \A e \in Possible : \A m \in Names : e[m] # x
  BY DEF Added, Unnamed
<1>2. names \in Folders /\ names \in Possible /\ document \in Names
  BY NamesFacts, NamesAreApart DEF PublicationInv
<1>3. d[document] = x /\ \A n \in Names : n # document => d[n] = names[n]
  BY <1>1, <1>2 DEF Folders
<1> SUFFICES ASSUME NEW n \in Temporaries, n[1] = q, names[n] # None, \A e \in Possible : e[document] # names[n]
             PROVE  /\ names'[n] = names[n] /\ file'[names[n]] = file[names[n]]
                    /\ \A e \in Possible' : e[document] # names[n]
  BY DEF TemporariesStay
<1>4. n \in Names /\ n # document
  BY NamesAreApart
<1>5. d[n] = names[n] /\ names[n] # x /\ names[n] \in Objects
  BY <1>1, <1>2, <1>3, <1>4 DEF Folders
<1> QED BY <1>1, <1>3, <1>5

LEMMA EditReplaceExpects ==
  ASSUME PublicationInv, PublicationInv', Expectant, Configuration, ~Windows, EditReplace PROVE Expectant'
<1>1. PICK text \in SUBSET Nat, meta \in Metas, synced \in BOOLEAN :
        document \in Names /\ Create(document, text, meta, synced)
  BY NamesAreApart DEF EditReplace, Metas
<1>2. Edits
  BY DEF EditReplace
<1>3. PICK x \in Objects, d \in Folders : NewFile(document, x, d, text, meta, synced)
  BY <1>1, CreatedFacts
<1>4. \A q \in Procs : TemporariesStay(q)
  BY <1>3, EditedApart DEF NewFile
<1>5. Numbers' /\ NumbersStay
  <2>1. Numbers
    BY DEF Expectant
  <2>2. \A q \in Procs : job'[q].held = job[q].held /\ job'[q].opened = job[q].opened
    BY <1>2, EditedJobs
  <2> QED BY <1>1, <2>1, <2>2, NumbersCreated
<1> QED BY <1>2, <1>4, <1>5, EditsExpect

LEMMA EditRemoveExpects ==
  ASSUME PublicationInv, PublicationInv', Expectant, Configuration, ~Windows, EditRemove PROVE Expectant'
<1>1. document \in Names /\ Named(document, None) /\ UNCHANGED file /\ Edits
  BY NamesAreApart DEF EditRemove
<1>2. PICK d \in Folders : Added(document, None, d)
  BY <1>1, RemovedFacts
<1>3. \A q \in Procs : TemporariesStay(q)
  BY <1>2, EditedApart
<1>4. NumbersStay
  BY <1>1 DEF NumbersStay
<1>5. Numbers'
  <2>1. Numbers
    BY DEF Expectant
  <2>2. \A q \in Procs : job'[q].held => Live(job'[q].opened)
    BY <1>1, EditedJobs DEF Live
  <2>3. names' = d /\ Possible' = Possible \cup {d} /\ d[document] = None /\ \A m \in Names : m # document => d[m] = names[m]
    BY <1>1, <1>2, NamesFacts DEF Added, Folders, PublicationInv
  <2>4. \A n \in Names : names'[n] = None \/ Live(names'[n])
    BY <2>3 DEF Live
  <2>5. \A e \in Possible' : e \in Possible \/ \A n \in Names : e[n] = None \/ \E m \in Names : e[n] = names[m]
    BY <2>3
  <2> QED BY <1>4, <2>1, <2>2, <2>4, <2>5, NumbersKept
<1> QED BY <1>1, <1>3, <1>4, <1>5, EditsExpect

LEMMA EditModeExpects ==
  ASSUME PublicationInv, PublicationInv', Expectant, Configuration, ~Windows, EditMode PROVE Expectant'
<1>1. Edits /\ Document # None /\ UNCHANGED dirs
  BY DEF EditMode
<1>2. PICK x \in Objects, meta \in Metas : x = Document /\ file' = [file EXCEPT ![x].meta = meta]
  BY DocumentIsTyped DEF EditMode, Metas
<1>3. \A o \in Objects : file'[o].ino = file[o].ino /\ (o # x => file'[o] = file[o])
  BY <1>2 DEF PublicationInv, FolderTypes, Files
<1>4. names' = names /\ Possible' = Possible
  BY <1>1 DEF names, Possible
<1>5. \A q \in Procs : TemporariesStay(q)
  <2> SUFFICES ASSUME NEW n \in Temporaries, names[n] # None, \A e \in Possible : e[document] # names[n]
               PROVE  file'[names[n]] = file[names[n]]
    BY <1>4 DEF TemporariesStay
  <2>1. names[n] \in Objects /\ names[n] # x
    BY <1>2, DocumentIsTyped, NamesFacts, NamesAreApart DEF Folders, PublicationInv
  <2> QED BY <1>3, <2>1
<1>6. NumbersStay
  BY <1>3 DEF NumbersStay
<1>7. Numbers'
  <2>1. Numbers
    BY DEF Expectant
  <2>2. \A q \in Procs : job'[q].held => Live(job'[q].opened)
    BY <1>1, EditedJobs DEF Live
  <2>3. \A n \in Names : names'[n] = None \/ Live(names'[n])
    BY <1>4 DEF Live
  <2> QED BY <1>4, <1>6, <2>1, <2>2, <2>3, NumbersKept
<1> QED BY <1>1, <1>5, <1>6, <1>7, EditsExpect

LEMMA PowerFailExpects ==
  ASSUME PublicationInv, PublicationInv', Expectant, Configuration, ~Windows, PowerFail PROVE Expectant'
<1>1. /\ file' = [o \in Objects |-> IF file[o].synced THEN file[o] ELSE [file[o] EXCEPT !.text = Torn]]
      /\ pc' = [p \in Procs |-> "idle"] /\ job' = [p \in Procs |-> NoJob]
  BY DEF PowerFail
<1>2. PICK d \in Possible : dirs' = <<d>>
  BY DEF PowerFail, Possible
<1>3. d \in Folders /\ names' = d /\ Possible' = {d}
  BY <1>2, NamesFacts, Replaced DEF PublicationInv
<1>4. \A o \in Objects : file'[o].ino = file[o].ino
  BY <1>1 DEF PublicationInv, FolderTypes, Files
<1>5. \A q \in Procs : pc'[q] = "idle" /\ job'[q] = NoJob
  BY <1>1
<1>6. FolderApart(d)
  BY DEF Expectant, Numbers
<1>7. FolderApart(d)'
  BY <1>3, <1>4, <1>6 DEF FolderApart, Folders
<1>8. ASSUME NEW a \in Objects, Live(a)' PROVE \E n \in Names : d[n] = a
  BY <1>3, <1>5, <1>8 DEF Live, NoJob
<1>9. ASSUME NEW a \in Objects, NEW b \in Objects, Live(a)', Live(b)', file'[a].ino = file'[b].ino PROVE a = b
  BY <1>4, <1>6, <1>8, <1>9, NamesAreApart DEF FolderApart
<1>10. \A q \in Procs : Expecting(pc[q], job[q])'
  BY <1>5 DEF Expecting, Early, Deciding, Filled, NoJob
<1> QED BY <1>3, <1>7, <1>9, <1>10 DEF Expectant, Numbers

-----------------------------------------------------------------------------
\* Every step, on a configuration.

LEMMA StandingExpects ==
  ASSUME PublicationInv, PublicationInv', Expectant, Configuration, ~Windows, UNCHANGED vars PROVE Expectant'
<1>1. /\ platform' = platform /\ kind' = kind /\ dirs' = dirs /\ file' = file /\ pc' = pc /\ job' = job
  BY DEF vars
<1>2. names' = names /\ Possible' = Possible /\ Document' = Document
  BY <1>1 DEF names, Possible, Document
<1> QED BY <1>1, <1>2 DEF Expectant, Numbers, FolderApart, Live, Expecting

LEMMA StepExpectant == ASSUME PublicationInv, PublicationInv', Expectant, [Next]_vars PROVE Expectant'
<1>1. UNCHANGED setting
  <2>1. ASSUME NEW p \in Procs, Step(p) PROVE UNCHANGED setting
    BY <2>1 DEF Step, LockOpen, LockOwn, LockWait, LockSync, Open, Read, Reopen, Prepare, Write, Revalidate, Rename, Link,
                LinkSync, Unlink, Confirm, SyncDirectory, Cleanup, End, MakeDirectory, OpenDirectory, OwnDirectory,
                CheckDirectory
  <2>2. ASSUME NEW p \in Procs, (\E locked \in BOOLEAN : BeginUpdate(p, locked)) \/ BeginRead(p) \/ Fail(p) \/ Kill(p)
        PROVE  UNCHANGED setting
    BY <2>2 DEF BeginUpdate, BeginRead, Fail, Kill
  <2>3. CASE PowerFail \/ EditReplace \/ EditRemove \/ EditMode
    BY <2>3 DEF PowerFail, EditReplace, EditRemove, EditMode, Edits
  <2>4. CASE UNCHANGED vars
    BY <2>4 DEF vars, setting
  <2> QED BY <2>1, <2>2, <2>3, <2>4 DEF Next
<1> SUFFICES ASSUME Configuration, ~Windows PROVE Expectant'
  BY <1>1 DEF Expectant, setting, Configuration, Windows
<1>2. ASSUME NEW p \in Procs, Step(p) PROVE Expectant'
  <2>1. CASE LockOpen(p) \/ LockOwn(p) \/ LockWait(p) \/ LockSync(p)
    BY <2>1, LockOpenExpects, LockOwnExpects, LockWaitExpects, LockSyncExpects
  <2>2. CASE Open(p) \/ Read(p) \/ Reopen(p) \/ Prepare(p) \/ Write(p) \/ Revalidate(p)
    BY <2>2, OpenExpects, ReadExpects, ReopenExpects, PrepareExpects, WriteExpects, RevalidateExpects
  <2>3. CASE Rename(p) \/ Link(p) \/ LinkSync(p) \/ Unlink(p) \/ Confirm(p) \/ SyncDirectory(p)
    BY <2>3, RenameExpects, LinkExpects, LinkSyncExpects, UnlinkExpects, ConfirmExpects, SyncDirectoryExpects
  <2>4. CASE Cleanup(p) \/ End(p)
    BY <2>4, CleanupExpects, EndExpects
  <2>5. CASE MakeDirectory(p) \/ OpenDirectory(p) \/ OwnDirectory(p) \/ CheckDirectory(p)
    <3>1. pc[p] \in Making
      BY <2>5 DEF MakeDirectory, OpenDirectory, OwnDirectory, CheckDirectory, Advance, At, Making
    <3> QED BY <3>1, ActorExpects
  <2> QED BY <1>2, <2>1, <2>2, <2>3, <2>4, <2>5 DEF Step
<1>3. ASSUME NEW p \in Procs, NEW locked \in BOOLEAN, BeginUpdate(p, locked) PROVE Expectant'
  BY <1>3, BeginUpdateExpects
<1>4. ASSUME NEW p \in Procs, BeginRead(p) \/ Fail(p) \/ Kill(p) PROVE Expectant'
  BY <1>4, BeginReadExpects, FailExpects, KillExpects
<1>5. CASE PowerFail \/ EditReplace \/ EditRemove \/ EditMode
  BY <1>5, PowerFailExpects, EditReplaceExpects, EditRemoveExpects, EditModeExpects
<1>6. CASE UNCHANGED vars
  BY <1>6, StandingExpects
<1> QED BY <1>2, <1>3, <1>4, <1>5, <1>6 DEF Next

\* A publication is a step of its own call.
LEMMA CallsMove ==
  ASSUME NEW q \in Procs, Step(q)
  PROVE  \E h : Goto(q, h)
<1>1. CASE Return(q) \/ Refuse(q)
  BY <1>1 DEF Return, Refuse
<1>2. CASE LockOpen(q) \/ Confirm(q)
  <2>1. Return(q) \/ Refuse(q) \/ Goto(q, "lockown") \/ Goto(q, "lockwait") \/ Goto(q, "syncdir")
    BY <1>2 DEF LockOpen, Confirm, Proceed
  <2> QED BY <1>1, <2>1
<1>3. CASE LockOwn(q) \/ LockWait(q) \/ LockSync(q) \/ Write(q) \/ LinkSync(q) \/ Unlink(q) \/ OwnDirectory(q)
  BY <1>3 DEF LockOwn, LockWait, LockSync, Write, LinkSync, Unlink, OwnDirectory, Advance
<1>4. CASE Open(q) \/ Read(q) \/ Reopen(q)
  <2>1. Return(q) \/ Refuse(q) \/ Goto(q, "read") \/ Goto(q, Writes) \/ Goto(q, "prepare")
    BY <1>4 DEF Open, Read, Reopen, Absent
  <2> QED BY <1>1, <2>1
<1>5. CASE Prepare(q) \/ Revalidate(q)
  <2>1. Refuse(q) \/ Goto(q, "write") \/ Goto(q, "publish")
    BY <1>5 DEF Prepare, Revalidate
  <2> QED BY <1>1, <2>1
<1>6. CASE Rename(q) \/ Link(q)
  <2>1. Refuse(q) \/ Goto(q, IF Windows THEN "syncdir" ELSE "confirm") \/ Goto(q, "linksync")
    BY <1>6 DEF Rename, Link, Published
  <2> QED BY <1>1, <2>1
<1>7. CASE SyncDirectory(q) \/ Cleanup(q)
  BY <1>1, <1>7 DEF SyncDirectory, Cleanup
<1>8. CASE End(q) \/ MakeDirectory(q)
  BY <1>8 DEF End, MakeDirectory
<1>9. CASE OpenDirectory(q)
  <2>1. Refuse(q) \/ Goto(q, IF job[q].create THEN "owndir" ELSE "checkdir")
    BY <1>9 DEF OpenDirectory
  <2> QED BY <1>1, <2>1
<1>10. CASE CheckDirectory(q)
  <2>1. Return(q) \/ Goto(q, "syncdir")
    BY <1>10 DEF CheckDirectory
  <2> QED BY <1>1, <2>1
<1> QED BY <1>2, <1>3, <1>4, <1>5, <1>6, <1>7, <1>8, <1>9, <1>10 DEF Step

LEMMA OnlyPublications ==
  ASSUME PublicationInv, [Next]_vars, NEW p \in Procs, pc[p] = "publish", pc'[p] \in {"confirm", "linksync"}
  PROVE  Rename(p) \/ Link(p)
<1>1. ASSUME NEW q \in Procs, NEW h, Goto(q, h) PROVE q = p /\ h \in {"confirm", "linksync"}
  BY <1>1 DEF Goto, PublicationInv, ProcTypes
<1>2. ASSUME NEW q \in Procs, Return(q) \/ Refuse(q) PROVE FALSE
  <2>1. PICK h \in {"idle", "unlock", "cleanup"} : Goto(q, h)
    <3>1. PICK h \in {"idle", "unlock", "cleanup"} : pc' = [pc EXCEPT ![q] = h]
      BY <1>2, LeavingFacts
    <3> QED BY <3>1 DEF Goto
  <2> QED BY <1>1, <2>1
<1>3. ASSUME NEW q \in Procs, Step(q) PROVE Rename(p) \/ Link(p)
  <2>1. q = p
    BY <1>1, <1>3, CallsMove
  <2> QED BY <1>3, <2>1 DEF Step, LockOpen, LockOwn, LockWait, LockSync, Open, Read, Reopen, Prepare, Write, Revalidate,
                            LinkSync, Unlink, Confirm, SyncDirectory, Cleanup, End, MakeDirectory, OpenDirectory,
                            OwnDirectory, CheckDirectory, Advance, At
<1>4. ASSUME NEW q \in Procs, NEW locked \in BOOLEAN, BeginUpdate(q, locked) PROVE FALSE
  BY <1>1, <1>4 DEF BeginUpdate, At
<1>5. ASSUME NEW q \in Procs, BeginRead(q) PROVE FALSE
  BY <1>1, <1>5 DEF BeginRead, Advance, At
<1>6. ASSUME NEW q \in Procs, Fail(q) PROVE FALSE
  BY <1>2, <1>6 DEF Fail
<1>7. ASSUME NEW q \in Procs, Kill(q) PROVE FALSE
  BY <1>7 DEF Kill, PublicationInv, ProcTypes
<1>8. ~PowerFail
  BY DEF PowerFail
<1>9. ~EditReplace /\ ~EditRemove /\ ~EditMode
  BY DEF EditReplace, EditRemove, EditMode, Edits
<1>10. ~UNCHANGED vars
  BY DEF vars
<1> QED BY <1>3, <1>4, <1>5, <1>6, <1>7, <1>8, <1>9, <1>10 DEF Next

LEMMA PublishedAsExpected ==
  ASSUME PublicationInv, Expectant, Configuration, NEW p \in Procs, Rename(p) \/ Link(p), pc[p] = "publish",
         pc'[p] \in {"confirm", "linksync"}
  PROVE  \/ job[p].late
         \/ /\ Document = job[p].opened
            /\ Document # None => file'[Document'].meta = file[Document].meta
<1>1. PICK i \in Jobs : i = job[p]
  BY Actor
<1>2. PICK x : x = names[i.temp]
  OBVIOUS
<1>3. ~Refuse(p)
  <2> SUFFICES ASSUME Refuse(p) PROVE FALSE
    OBVIOUS
  <2>1. PICK h \in {"idle", "unlock", "cleanup"} : pc' = [pc EXCEPT ![p] = h]
    BY LeavingFacts
  <2> QED BY <2>1 DEF PublicationInv, ProcTypes
<1>4. ~Windows
  <2>1. CASE Rename(p)
    <3>1. Goto(p, IF Windows THEN "syncdir" ELSE "confirm")
      BY <1>3, <2>1 DEF Rename, Published
    <3> QED BY <3>1 DEF Goto, PublicationInv, ProcTypes
  <2>2. CASE Link(p)
    BY <2>2 DEF Link, Windows
  <2> QED BY <2>1, <2>2
<1>5. file' = file
  BY DEF Rename, Link
<1>6. PICK d \in Folders : Publishing(i, x, d)
  <2>1. CASE Rename(p)
    <3>1. /\ Document = None \/ (~OnlyCreates(p) /\ ~Pinned(Document))
          /\ Renamed(job[p].temp, document) /\ Published(p, IF Windows THEN "syncdir" ELSE "confirm")
      BY <1>3, <2>1 DEF Rename
    <3>2. PICK h : Published(p, h)
      BY <3>1
    <3>3. PICK d \in Folders, j \in Jobs : Publishes(p, i, x, h, d, j) /\ d[i.temp] = None
      BY <1>1, <1>2, <1>5, <3>1, <3>2, RenamePublishes
    <3> QED BY <3>3 DEF Publishes
  <2>2. CASE Link(p)
    <3>1. Document = None /\ Named(document, Temporary(p)) /\ Published(p, "linksync")
      BY <1>3, <2>2 DEF Link
    <3>2. PICK h : Published(p, h)
      BY <3>1
    <3>3. PICK d \in Folders, j \in Jobs : Publishes(p, i, x, h, d, j)
      BY <1>1, <1>2, <1>5, <3>1, <3>2, LinkPublishes
    <3> QED BY <3>3 DEF Publishes
  <2> QED BY <2>1, <2>2
<1>7. Document' = x
  BY <1>6 DEF Publishing, Document
<1>8. Expecting("publish", i)
  BY <1>1, <1>4, ActorExpects
<1>9. ASSUME ~i.late PROVE Document = i.opened /\ (Document # None => file[x].meta = file[Document].meta)
  BY <1>2, <1>8, <1>9 DEF Expecting, Deciding, Filled
<1> QED BY <1>1, <1>5, <1>7, <1>9

\* What a transaction on a configuration expects is what it replaces: nothing else
\* has the number of the original, which is open, whatever the others do.
THEOREM ReplacementsAreExpected == Spec => ReplacesWhatItOpened
<1>1. Init => PublicationInv /\ Expectant
  BY PubInitHolds, ExpectInit
<1>2. PublicationInv /\ Expectant /\ [Next]_vars => PublicationInv' /\ Expectant'
  BY PubStepKeeps, StepExpectant
<1>3. ASSUME PublicationInv, Expectant, [Next]_vars
      PROVE  \A p \in Procs : pc[p] = "publish" /\ pc'[p] \in {"confirm", "linksync"} /\ Configuration =>
               \/ job[p].late
               \/ /\ Document = job[p].opened
                  /\ Document # None => file'[dirs'[Len(dirs')][document]].meta = file[Document].meta
  <2>1. Document' = dirs'[Len(dirs')][document]
    BY DEF Document, names
  <2> QED BY <1>3, <2>1, OnlyPublications, PublishedAsExpected
<1> QED BY <1>1, <1>2, <1>3, PTL DEF Spec, ReplacesWhatItOpened
=============================================================================
