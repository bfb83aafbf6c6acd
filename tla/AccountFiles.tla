---------------------------- MODULE AccountFiles ----------------------------
(***************************************************************************)
(* The four database files that src/daemon/core keeps in step - passwd,    *)
(* shadow, group, gshadow - and the lock around them.  A file is the set   *)
(* of its entries, and one gum_file_update replaces it or leaves it as it  *)
(* was (GumDb).  The model holds the accounts that gumd manages; root and  *)
(* the other entries outside its id ranges are left out.                   *)
(***************************************************************************)
EXTENDS Integers, Sequences

CONSTANTS
    Proc, NoProc,      \* the processes: the daemon and the offline clients
    None,              \* a NULL pointer or an invalid id
    UserName, GroupName,
    Secret,            \* the plain secrets that callers choose
    Info,              \* values of the gecos fields and the shell
    UserType,          \* the user types in use, GroupType below
    UidRange,          \* UserType -> [min, max], from the configuration
    GidRange,          \* GroupType -> [min, max]
    PrimaryGroup,      \* USR_PRIMARY_GRPNAME, or None
    DefUsrGroups,      \* DEFAULT_USR_GROUPS, a sequence of group names
    DefAdminGroups,    \* DEFAULT_ADMIN_GROUPS
    InitialGroups,     \* group name -> gid: the groups of the installed system
    HasGshadow,        \* does the gshadow file exist?
    Faults             \* which of FaultKind can happen

GroupType == {"system", "user"}

FaultKind == {"io",         \* a gum_file_update fails and leaves its file alone
              "userinfo",   \* a userinfo file is not written or not removed,
                            \* which no operation notices
              "encrypt",    \* gum_crypt_encrypt_secret fails
              "home",       \* the home directory cannot be made or removed
              "terminate",  \* the sessions of a user cannot be terminated
              "crash"}      \* a process dies

Range == [min : Nat, max : Nat]

ASSUME AccountAssumption ==
    /\ NoProc \notin Proc
    /\ None \notin UserName \cup GroupName \cup Secret \cup Info \cup Nat
    /\ None \notin UserType \cup GroupType
    /\ UserName \subseteq GroupName
    /\ UidRange \in [UserType -> Range]
    /\ GidRange \in [GroupType -> Range]
    /\ PrimaryGroup \in GroupName \cup {None}
    /\ DefUsrGroups \in Seq(GroupName) /\ DefAdminGroups \in Seq(GroupName)
    /\ DOMAIN InitialGroups \subseteq GroupName
    /\ \A n, m \in DOMAIN InitialGroups :
          /\ InitialGroups[n] \in Nat
          /\ InitialGroups[n] = InitialGroups[m] => n = m
    /\ HasGshadow \in BOOLEAN
    /\ Faults \subseteq FaultKind

\* A NULL pointer is no list of members either.
ASSUME NoneIsNoList == \A m \in SUBSET UserName : m # None

VARIABLES
    passwd, shadow, group, gshadow,  \* the files
    holder                           \* who has the lock (GumLock), or NoProc

-----------------------------------------------------------------------------
(***************************************************************************)
(* Entries.  The password of an entry is a body behind an optional "!"     *)
(* that locks it.  A body is "" or "*" or the hash of a secret, written as *)
(* that secret; "x" is what stands in the object, and in passwd and group, *)
(* once the secret has gone to the shadow file.                            *)
(***************************************************************************)
Placeholder == "x"

Password == [locked : BOOLEAN, body : Secret \cup {"", "*", Placeholder}]

Encrypted(s) == [locked |-> FALSE, body |-> s]

EmptyPassword == [locked |-> FALSE, body |-> ""]

\* What _set_secret writes when no secret was chosen.
DefaultPassword(type) ==
    CASE type = "system" -> [locked |-> FALSE, body |-> "*"]
      [] type = "guest"  -> EmptyPassword
      [] OTHER           -> [locked |-> TRUE, body |-> ""]

\* _lock_shadow_entry: an entry that already is as asked gets no password.
SetLocked(lock, pwd) ==
    IF lock # pwd.locked THEN [pwd EXCEPT !.locked = lock] ELSE EmptyPassword

PasswdEntry ==
    [name : UserName, uid : Nat, gid : Nat, type : UserType, info : Info]
ShadowEntry == [name : UserName, pwd : Password]
GroupEntry == [name : GroupName, gid : Nat, mem : SUBSET UserName]
GshadowEntry == [name : GroupName, pwd : Password,
                 mem : SUBSET UserName, adm : SUBSET UserName]

FilesTypeOK ==
    /\ passwd \subseteq PasswdEntry
    /\ shadow \subseteq ShadowEntry
    /\ group \subseteq GroupEntry
    /\ gshadow \subseteq GshadowEntry
    /\ holder \in Proc \cup {NoProc}

FilesInit ==
    /\ passwd = {}
    /\ shadow = {}
    /\ group = {[name |-> n, gid |-> InitialGroups[n], mem |-> {}] :
                   n \in DOMAIN InitialGroups}
    /\ gshadow = {[name |-> n, pwd |-> DefaultPassword("user"),
                   mem |-> {}, adm |-> {}] :
                     n \in {m \in DOMAIN InitialGroups : HasGshadow}}
    /\ holder = NoProc

-----------------------------------------------------------------------------
(***************************************************************************)
(* Lookups and id allocation.                                              *)
(***************************************************************************)
Named(file, name) == {e \in file : e.name = name}

Names(file) == {e.name : e \in file}

Uids == {u.uid : u \in passwd}

Gids == {g.gid : g \in group}

\* The entry an object means: its id and its name have to agree with it, as
\* far as they are set.
GetPasswd(o) ==
    {u \in passwd : /\ o.uid = None \/ u.uid = o.uid
                    /\ o.name = None \/ u.name = o.name
                    /\ o.uid # None \/ o.name # None}

GetGroup(o) ==
    {g \in group : /\ o.gid = None \/ g.gid = o.gid
                   /\ o.name = None \/ g.name = o.name
                   /\ o.gid # None \/ o.name # None}

\* The first free id of a range, as a set of at most one; a range of one id
\* counts as no range.
FreeIds(range, used) ==
    {i \in range.min .. range.max :
        /\ range.min < range.max
        /\ i \notin used
        /\ \A j \in range.min .. i - 1 : j \in used}

\* Mutant of FreeGids: a preferred gid is taken as it is.
MutFreeGids(type, preferred) ==
    IF preferred # None THEN {preferred} ELSE FreeIds(GidRange[type], Gids)

\* A preferred gid is taken when it is free, whatever the range says.
FreeGids(type, preferred) ==
    IF preferred # None /\ preferred \notin Gids
    THEN {preferred} ELSE FreeIds(GidRange[type], Gids)

=============================================================================
