------------------------------ MODULE Profiles ------------------------------
(***************************************************************************)
(* The wallet profiles of the MCP server: a table in memory, the name of   *)
(* the active profile, and ~/.mindvault/state.json, which every change     *)
(* rewrites whole.  Tool calls overlap; the dispatcher runs those in       *)
(* STATE_MUTATING_TOOLS one at a time, in the order they came, and any     *)
(* other at once.  An await is where another call gets its turn.           *)
(*                                                                         *)
(* External: the sponsor and the API, which answer or fail.  A wallet is   *)
(* its account and a publisher key the account it was issued to.  Left     *)
(* out: network and preferences of a profile, the formats older than this  *)
(* one, restoring a backup, and a state file that cannot be read at start. *)
(***************************************************************************)
EXTENDS Naturals, Sequences

CONSTANTS Names, Default, Accounts, None, Calls

ProfileRecords == [wallet : Accounts \cup {None}, key : Accounts \cup {None}]
Tables         == UNION {[S -> ProfileRecords] : S \in SUBSET Names}
StateFiles     == [active : Names, profiles : Tables]
Askings        == [name : Names \cup {None}, wallet : Accounts \cup {None}]

ASSUME ProfilesAssumption == Default \in Names /\ None \notin Accounts \cup StateFiles

Tools == {"setup_wallet", "import_wallet", "register", "use_profile", "reset", "import_profiles"}

VARIABLES
    profiles,  \* name |-> [wallet, key], for the names there are
    active,    \* activeProfileName
    file,      \* the state file, [active, profiles] or None
    up,        \* the process runs
    queue,     \* the calls that hold or wait for stateMutex, in order
    step,      \* per call: "idle", "called" or "waiting" for an answer
    tool,      \* per call: what was called
    target,    \* per call: the profile name it resolved before its await
    account,   \* per call: the account that register asked a key for
    told,      \* history: the wallet that setup_wallet reported as persisted
    asked      \* history: per waiting register, the name and the wallet of the
               \* active profile it read, forgotten when profiles are imported

memory       == <<profiles, active>>
call         == <<queue, step, tool, target, account>>
history      == <<told, asked>>
profilesVars == <<memory, file, up, call, history>>

Nothing  == [n \in {} |-> None]
Empty    == [wallet |-> None, key |-> None]
NotAsked == [name |-> None, wallet |-> None]

ProfilesInit ==
    /\ profiles = Nothing /\ active = Default
    /\ file = None /\ up = TRUE
    /\ queue = <<>> /\ step = [c \in Calls |-> "idle"]
    /\ tool = [c \in Calls |-> None]
    /\ target = [c \in Calls |-> None] /\ account = [c \in Calls |-> None]
    /\ told = [n \in Names |-> None] /\ asked = [c \in Calls |-> NotAsked]

Profile(n)   == IF n \in DOMAIN profiles THEN profiles[n] ELSE Empty
With(n, p)   == [m \in DOMAIN profiles \cup {n} |-> IF m = n THEN p ELSE profiles[m]]
Without(n)   == [m \in DOMAIN profiles \ {n} |-> profiles[m]]

\* persistableProfiles
Persistable_Active(table, n) == {n} \cap DOMAIN table
Persistable(table, n) ==
    {m \in DOMAIN table : m = n \/ table[m].wallet # None \/ table[m].key # None}

\* saveState: the new file replaces the old one, or nothing does.  A chmod
\* that fails after the rename reports a failure of what was done.
Save(saved) ==
    \/ file' = [active   |-> active',
                profiles |-> [m \in Persistable(profiles', active') |-> profiles'[m]]]
    \/ ~saved /\ file' = file

\* Only setupWallet looks at what saveState returned.
SaveUnseen == Save(FALSE)

Tell(n, wallet) == told' = [told EXCEPT ![n] = wallet]

----------------------------------------------------------------------------
STATE_MUTATING_TOOLS_NotUse == {"setup_wallet", "import_wallet", "register", "reset"}
STATE_MUTATING_TOOLS == {"setup_wallet", "import_wallet", "register", "use_profile", "reset"}

\* dispatchToolOutcome, and runExclusive up to its first await.
Dispatch(c, t) ==
    /\ up /\ step[c] = "idle"
    /\ step' = [step EXCEPT ![c] = "called"] /\ tool' = [tool EXCEPT ![c] = t]
    /\ queue' = IF t \in STATE_MUTATING_TOOLS THEN Append(queue, c) ELSE queue
    /\ UNCHANGED <<memory, file, up, target, account, history>>

MayRun(c, t) ==
    /\ step[c] = "called" /\ tool[c] = t
    /\ t \in STATE_MUTATING_TOOLS => Head(queue) = c

\* The call is done, or has thrown; the finally clause releases the mutex.
Released(c) == IF tool[c] \in STATE_MUTATING_TOOLS THEN Tail(queue) ELSE queue

Finish(c) ==
    /\ queue' = Released(c)
    /\ step' = [step EXCEPT ![c] = "idle"] /\ tool' = [tool EXCEPT ![c] = None]
    /\ target' = [target EXCEPT ![c] = None] /\ account' = [account EXCEPT ![c] = None]
    /\ asked' = [asked EXCEPT ![c] = NotAsked]

Throw(c) == Finish(c) /\ UNCHANGED <<memory, file, up, told>>

Await(c, name, wallet) ==
    /\ step' = [step EXCEPT ![c] = "waiting"]
    /\ target' = [target EXCEPT ![c] = name] /\ account' = [account EXCEPT ![c] = wallet]
    /\ UNCHANGED <<memory, file, up, queue, tool, told>>

----------------------------------------------------------------------------
\* register reads the active wallet, and asks for a key for it, or for the
\* walletAddress the caller gave;
Register(c) ==
    /\ MayRun(c, "register")
    /\ \/ Profile(active).wallet = None /\ Throw(c)
       \/ /\ Profile(active).wallet # None
          /\ \E a \in Accounts : Await(c, None, a)
          /\ asked' = [asked EXCEPT ![c] = [name |-> active, wallet |-> Profile(active).wallet]]

\* the key is put into the profile that is active when it comes.
StoreKey(c) ==
    /\ step[c] = "waiting" /\ tool[c] = "register"
    /\ profiles' = With(active, [Profile(active) EXCEPT !.key = account[c]])
    /\ active' = active /\ SaveUnseen
    /\ Finish(c)
    /\ UNCHANGED <<up, told>>

\* setupWallet, importWallet and repairSponsoredAccount resolve the name of
\* the profile and await: the sponsor; the SDK; the SDK and the balance.
ResolveProfile(c) ==
    /\ MayRun(c, "setup_wallet") \/ MayRun(c, "import_wallet")
    /\ \E n \in Names : Await(c, n, None)
    /\ UNCHANGED asked

StoreWallet(c) ==
    /\ step[c] = "waiting" /\ tool[c] \in {"setup_wallet", "import_wallet"}
    /\ \E a \in Accounts :
        /\ active' = target[c]
        /\ profiles' = With(target[c], [Profile(target[c]) EXCEPT !.wallet = a])
        /\ \/ tool[c] = "setup_wallet" /\ Save(TRUE) /\ Tell(target[c], a)
           \/ SaveUnseen /\ Tell(target[c], None)
    /\ Finish(c)
    /\ UNCHANGED up

\* An argument is refused or a confirmation missing; an answer is an error,
\* a timeout or unusable.
Fails(c) ==
    /\ step[c] = "waiting" \/ MayRun(c, tool[c])
    /\ Throw(c)

\* useProfileOutcome, and switchNetworkProfile
UseProfile(c) ==
    /\ MayRun(c, "use_profile")
    /\ \E n \in Names : active' = n /\ profiles' = With(n, Profile(n))
    /\ SaveUnseen
    /\ Finish(c)
    /\ UNCHANGED <<up, told>>

\* resetState of the active profile, or of all
ResetActive(c) ==
    /\ MayRun(c, "reset")
    /\ active' = active /\ profiles' = Without(active)
    /\ SaveUnseen
    /\ Tell(active, None)
    /\ Finish(c)
    /\ UNCHANGED up

ResetAll(c) ==
    /\ MayRun(c, "reset")
    /\ active' = Default /\ profiles' = Nothing
    /\ file' \in {None, file}
    /\ told' = [n \in Names |-> None]
    /\ Finish(c)
    /\ UNCHANGED up

\* importProfilesOutcome, without the mutex: unknown names get a profile
\* without credentials, and the active one may be another.
ImportProfiles(c) ==
    /\ MayRun(c, "import_profiles")
    /\ \E new \in SUBSET Names : profiles' = [m \in DOMAIN profiles \cup new |-> Profile(m)]
    /\ active' \in Names
    /\ SaveUnseen
    /\ queue' = Released(c)
    /\ step' = [step EXCEPT ![c] = "idle"] /\ tool' = [tool EXCEPT ![c] = None]
    /\ asked' = [d \in Calls |-> NotAsked]
    /\ UNCHANGED <<up, target, account, told>>

Run(c) ==
    \/ Register(c) \/ StoreKey(c) \/ ResolveProfile(c) \/ StoreWallet(c) \/ Fails(c)
    \/ UseProfile(c) \/ ResetActive(c) \/ ResetAll(c) \/ ImportProfiles(c)

----------------------------------------------------------------------------
\* shutdown saves, whatever is under way, before the process ends.
Shutdown ==
    /\ up /\ UNCHANGED memory /\ SaveUnseen
    /\ UNCHANGED <<up, call, history>>

Exit ==
    /\ up /\ up' = FALSE
    /\ profiles' = Nothing /\ active' = Default
    /\ queue' = <<>> /\ step' = [c \in Calls |-> "idle"] /\ tool' = [c \in Calls |-> None]
    /\ target' = [c \in Calls |-> None] /\ account' = [c \in Calls |-> None]
    /\ asked' = [c \in Calls |-> NotAsked]
    /\ UNCHANGED <<file, told>>

\* migrateState: an active profile the file does not have is replaced by its
\* first, in an order the model leaves open.
ActiveOf(state) ==
    IF state.active \in DOMAIN state.profiles THEN {state.active} ELSE DOMAIN state.profiles

\* loadState: a file without a profile is moved aside, if it can be.
Boot ==
    /\ ~up /\ up' = TRUE
    /\ \/ /\ file = None
          /\ UNCHANGED <<memory, file>>
       \/ /\ file # None /\ DOMAIN file.profiles = {}
          /\ file' \in {None, file}
          /\ UNCHANGED memory
       \/ /\ file # None /\ DOMAIN file.profiles # {}
          /\ profiles' = file.profiles
          /\ active' \in ActiveOf(file)
          /\ UNCHANGED file
    /\ UNCHANGED <<call, history>>

ProfilesNext ==
    \/ \E c \in Calls, t \in Tools : Dispatch(c, t)
    \/ \E c \in Calls : Run(c)
    \/ Shutdown \/ Exit \/ Boot

ProfilesSpec == ProfilesInit /\ [][ProfilesNext]_profilesVars

----------------------------------------------------------------------------
ProfilesTypeOK ==
    /\ profiles \in Tables /\ active \in Names
    /\ file \in StateFiles \cup {None} /\ up \in BOOLEAN
    /\ queue \in Seq(Calls) /\ step \in [Calls -> {"idle", "called", "waiting"}]
    /\ tool \in [Calls -> Tools \cup {None}]
    /\ target \in [Calls -> Names \cup {None}] /\ account \in [Calls -> Accounts \cup {None}]
    /\ told \in [Names -> Accounts \cup {None}]
    /\ asked \in [Calls -> Askings]

\* register stores its key in the profile that was active when it read the
\* wallet, beside that same wallet, whatever calls came while it was waiting,
\* other than an import of profiles; no other call brings a key.  (The key is
\* that wallet's own unless the caller named another address.)
KeyForItsProfile ==
    [][\A name \in DOMAIN profiles' :
           up /\ up' /\ profiles'[name].key \notin {None, Profile(name).key} =>
               \E c \in Calls :
                   /\ step[c] = "waiting" /\ tool[c] = "register"
                   /\ profiles'[name].key = account[c]
                   /\ asked[c] \in {NotAsked, [name   |-> name,
                                             wallet |-> profiles'[name].wallet]}]_profilesVars

\* A wallet that setup_wallet called persisted is in the file until a later
\* call replaces or resets it: through saves that fail, other profiles,
\* imports, and restarts at any moment.
ToldIsKept ==
    \A n \in Names : told[n] # None =>
        /\ file # None /\ n \in DOMAIN file.profiles
        /\ file.profiles[n].wallet = told[n]
=============================================================================
