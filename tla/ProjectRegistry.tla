---------------------------- MODULE ProjectRegistry ----------------------------
(***************************************************************************)
(* Projects come and go: codex-opencode-adapter init (src/init.rs) and the *)
(* registry file it adds a project to (ProjectRegistry of src/project.rs), *)
(* the server that loads the registered projects at startup (run_server of *)
(* src/main.rs) and again at /admin/refresh (src/server.rs), and the local *)
(* tokens with which refresh is authorised.                                *)
(*                                                                         *)
(* Several inits and several refreshes may be under way, and nothing locks *)
(* the file: its contents are read and replaced in steps of their own.  A  *)
(* project has one root, so an entry is the project.  A token stands for   *)
(* the secret it is signed with.  The other files of init are in           *)
(* InitFiles.                                                              *)
(*                                                                         *)
(* A configuration is put together from the command line, the project's    *)
(* env file and the process environment, in this order (from_sources of    *)
(* src/config.rs); refresh is not given the environment.  A project can be *)
(* loaded if it has an API key and its other values are sound: they parse, *)
(* the token is not the key, and the state database and the HTTP client    *)
(* can be made of them.  A disk that fails now and then, and other values  *)
(* on the command line than key and token, are left out.                   *)
(***************************************************************************)
EXTENDS Integers, FiniteSets, FiniteSetsExt

CONSTANTS
    Projects,    \* the projects, as numbers: print-local-token goes by their order
    Inits,       \* the init commands that may run at the same time
    Refreshes,   \* the refresh requests that may be served at the same time
    MaxTokens    \* bound: the number of inits and edits in all

ASSUME RegistryAssumption ==
    /\ Projects \subseteq Nat /\ IsFiniteSet(Projects)
    /\ MaxTokens \in Nat

VARIABLES
    registry,   \* the projects in the registry file; an unreadable file counts as none
    env,        \* the env file of each project: a File, or NoFile or Broken
    issued,     \* the number of inits and edits so far; an init numbers its token by it
    inits,      \* the running inits
    loaded,     \* AppState.projects: the token of each loaded project
    up,         \* the server runs
    given,      \* config_overrides: the token and whether a key is on its command line
    refreshes   \* the refresh requests being served

vars == << registry, env, issued, inits, loaded, up, given, refreshes >>

None   == -1             \* no token is set
Empty  == 0              \* the token is set to the empty string
Own    == MaxTokens + 1  \* a token that the user made up; init generates the others
Tokens == 1..Own
Values == { None, Empty } \cup Tokens

\* the values of an env file: its token, whether it has an API key, and whether the
\* rest is sound
File(token, key, sound) ==
    [ at |-> "file", token |-> token, key |-> key, sound |-> sound ]

NoFile == [ at |-> "none", token |-> None, key |-> FALSE, sound |-> FALSE ]
Broken == [ at |-> "broken", token |-> None, key |-> FALSE, sound |-> FALSE ]  \* a line is no assignment

Contents == [ at : { "file", "none", "broken" }, token : Values, key : BOOLEAN, sound : BOOLEAN ]

NothingGiven == [ token |-> None, key |-> FALSE ]

NoInit    == [ at |-> "idle", project |-> 0, token |-> 0, copy |-> {}, old |-> NoFile ]
NoRefresh == [ at |-> "idle", seen |-> {}, absent |-> {} ]

Init ==
    /\ registry = {}
    /\ env = [ p \in Projects |-> NoFile ]
    /\ issued = 0
    /\ inits = [ i \in Inits |-> NoInit ]
    /\ loaded = [ p \in {} |-> 0 ]
    /\ up = FALSE
    /\ given = NothingGiven
    /\ refreshes = [ r \in Refreshes |-> NoRefresh ]

\* absent is a history of what the file has lacked since the refresh was admitted
SetRegistry(set) ==
    /\ registry' = set
    /\ refreshes' = [ r \in Refreshes |->
                        IF refreshes[r].at = "idle" THEN NoRefresh
                        ELSE [ refreshes[r] EXCEPT !.absent = @ \cup (Projects \ set) ] ]

------------------------------------------------------------------------------
(***************************************************************************)
(* init: the registry is loaded, changed and saved, then the files of the  *)
(* project are written, each in one step (a temporary file is renamed).    *)
(* fs::write empties the registry file before it writes.  If another init  *)
(* has written to it in between, what it wrote may stick out behind, and   *)
(* the file cannot be read.                                                *)
(***************************************************************************)
LoadRegistry(i) == \E p \in Projects :
    /\ inits[i].at = "idle"
    /\ issued < MaxTokens
    /\ issued' = issued + 1
    /\ inits' = [ inits EXCEPT ![i] = [ at |-> "loaded", project |-> p, token |-> issued',
                                        copy |-> registry \cup { p }, old |-> NoFile ] ]
    /\ UNCHANGED << registry, env, loaded, up, refreshes, given >>

TruncateRegistry(i) ==
    /\ inits[i].at = "loaded"
    /\ SetRegistry({})
    /\ inits' = [ inits EXCEPT ![i].at = "saving" ]
    /\ UNCHANGED << env, issued, loaded, up, given >>

WriteRegistry(i) ==
    /\ inits[i].at = "saving"
    /\ \/ SetRegistry(inits[i].copy)
       \/ registry \notin { {}, inits[i].copy } /\ SetRegistry({})
    /\ inits' = [ inits EXCEPT ![i].at = "saved" ]
    /\ UNCHANGED << env, issued, loaded, up, given >>

\* The env file gets a new token; what it held is kept for the rollback.
WriteEnv(i) ==
    /\ inits[i].at = "saved"
    /\ env' = [ env EXCEPT ![inits[i].project] = File(inits[i].token, TRUE, TRUE) ]
    /\ inits' = [ inits EXCEPT ![i] = [ inits[i] EXCEPT !.at = "written",
                                                        !.old = env[inits[i].project] ] ]
    /\ UNCHANGED << registry, issued, loaded, up, refreshes, given >>

InitDone(i) ==
    /\ inits[i].at = "written"
    /\ inits' = [ inits EXCEPT ![i] = NoInit ]
    /\ UNCHANGED << registry, env, issued, loaded, up, refreshes, given >>

\* A template cannot be written: the env file is rolled back, the registry is not.
Rollback(i) ==
    /\ inits[i].at = "written"
    /\ env' = [ env EXCEPT ![inits[i].project] = inits[i].old ]
    /\ inits' = [ inits EXCEPT ![i] = NoInit ]
    /\ UNCHANGED << registry, issued, loaded, up, refreshes, given >>

\* init fails before the env file is written, or is killed.
InitStops(i) ==
    /\ inits[i].at # "idle"
    /\ inits' = [ inits EXCEPT ![i] = NoInit ]
    /\ UNCHANGED << registry, env, issued, loaded, up, refreshes, given >>

\* The user changes a value of the env file, takes one out of it or puts it back,
\* or gets a line wrong, which the next edit rights.
Edit(p) ==
    LET file == IF env[p] = Broken THEN File(Own, TRUE, TRUE) ELSE env[p]
    IN  /\ env[p] # NoFile
        /\ issued < MaxTokens
        /\ issued' = issued + 1
        /\ \E content \in { Broken, [ file EXCEPT !.key = ~@ ], [ file EXCEPT !.sound = ~@ ] }
                           \cup { [ file EXCEPT !.token = t ] : t \in { None, Empty, Own } } :
             env' = [ env EXCEPT ![p] = content ]
        /\ UNCHANGED << registry, inits, loaded, up, refreshes, given >>

------------------------------------------------------------------------------
(***************************************************************************)
(* The server.                                                             *)
(***************************************************************************)

\* the projects of set whose env file exists
WithFile(set) == { p \in set : env[p] # NoFile }

\* the projects of set whose env file can be read
Readable(set) == { p \in WithFile(set) : env[p] # Broken }

\* from_sources, and what is made of the configuration: the projects of set that
\* have an API key, in their file or elsewhere, and sound values
Configured(set, elsewhere) ==
    { p \in Readable(set) : env[p].sound /\ (env[p].key \/ elsewhere) }

\* the projects of set that refresh can load: it looks into no process environment
Loadable(set) == Configured(set, given.key)

\* mutant: the file goes before the command line
TokenFileFirst(override, file, environment) ==
    IF file.token # None THEN file.token
    ELSE IF override # None THEN override ELSE environment

\* choose_optional_string: a value that is empty counts like any other
TokenOf(override, file, environment) ==
    IF override # None THEN override
    ELSE IF file.token # None THEN file.token ELSE environment

\* run_server: one project that cannot be loaded stops it; a missing file does not.
\* The command line and the process environment may have a token and a key.
Start == \E token, environment \in { None, Empty, Own }, key, keyElsewhere \in BOOLEAN :
    /\ ~up
    /\ WithFile(registry) # {}
    /\ Configured(registry, key \/ keyElsewhere) = WithFile(registry)
    /\ loaded' = [ p \in WithFile(registry) |-> TokenOf(token, env[p], environment) ]
    /\ up' = TRUE
    /\ given' = [ token |-> token, key |-> key ]
    /\ UNCHANGED << registry, env, issued, inits, refreshes >>

Stop ==
    /\ up
    /\ up' = FALSE
    /\ given' = NothingGiven
    /\ loaded' = [ p \in {} |-> 0 ]
    /\ refreshes' = [ r \in Refreshes |-> NoRefresh ]
    /\ UNCHANGED << registry, env, issued, inits >>

(***************************************************************************)
(* auth print-local-token in the directory of p: the token of p, or else   *)
(* of the first registered project that has one; a broken file on the way  *)
(* ends the command (load_adapter_token_secret of main.rs).  None if it    *)
(* prints nothing.                                                         *)
(***************************************************************************)
PrintedToken(p) ==
    LET decides == { q \in WithFile(registry) : env[q] = Broken \/ env[q].token \in Tokens }
    IN  IF env[p] = Broken \/ env[p].token \in Tokens THEN env[p].token
        ELSE IF decides # {} THEN env[Min(decides)].token
        ELSE None

\* authorize_adapter: the token is one of a loaded project, and neither missing nor empty
Accepts(token) == token \in Tokens /\ \E q \in DOMAIN loaded : loaded[q] = token

\* admin_refresh, for a caller who prints the token in some project's directory
AdmitRefresh(r) ==
    /\ up
    /\ refreshes[r].at = "idle"
    /\ \E p \in Projects : Accepts(PrintedToken(p))
    /\ refreshes' = [ refreshes EXCEPT ![r] = [ at |-> "admitted", seen |-> {},
                                                absent |-> Projects \ registry ] ]
    /\ UNCHANGED << registry, env, issued, inits, loaded, up, given >>

ReadRegistry(r) ==
    /\ refreshes[r].at = "admitted"
    /\ refreshes' = [ refreshes EXCEPT ![r].at = "read", ![r].seen = registry ]
    /\ UNCHANGED << registry, env, issued, inits, loaded, up, given >>

\* mutant: nothing is removed
AfterRefreshKeeping(seen) ==
    [ p \in DOMAIN loaded \cup Loadable(seen) |->
        IF p \in DOMAIN loaded THEN loaded[p] ELSE TokenOf(given.token, env[p], None) ]

\* mutant: what is loaded is loaded again if it can be
AfterRefreshAnew(seen) ==
    [ p \in (DOMAIN loaded \cap seen) \cup Loadable(seen) |->
        IF p \in Loadable(seen) THEN TokenOf(given.token, env[p], None) ELSE loaded[p] ]

\* mutant: what cannot be loaded any more is removed
AfterRefreshStrict(seen) ==
    [ p \in Loadable(seen) |-> IF p \in DOMAIN loaded THEN loaded[p] ELSE TokenOf(given.token, env[p], None) ]

\* the projects that are loaded after a refresh that read seen
AfterRefresh(seen) ==
    [ p \in (DOMAIN loaded \cap seen) \cup Loadable(seen) |->
        IF p \in DOMAIN loaded THEN loaded[p] ELSE TokenOf(given.token, env[p], None) ]

\* under the write lock; the projects are changed in one step
ApplyRefresh(r) ==
    /\ refreshes[r].at = "read"
    /\ loaded' = AfterRefresh(refreshes[r].seen)
    /\ refreshes' = [ refreshes EXCEPT ![r] = NoRefresh ]
    /\ UNCHANGED << registry, env, issued, inits, up, given >>

------------------------------------------------------------------------------
InitGoesOn(i) ==
    \/ TruncateRegistry(i) \/ WriteRegistry(i) \/ WriteEnv(i)
    \/ InitDone(i) \/ Rollback(i) \/ InitStops(i)

RefreshStep(r) == AdmitRefresh(r) \/ ReadRegistry(r) \/ ApplyRefresh(r)

Next ==
    \/ \E i \in Inits : LoadRegistry(i) \/ InitGoesOn(i)
    \/ \E p \in Projects : Edit(p)
    \/ Start \/ Stop
    \/ \E r \in Refreshes : RefreshStep(r)

(***************************************************************************)
(* A command that was started ends, and a request that was admitted is     *)
(* served.  Nobody has to start, stop, initialise or refresh anything.     *)
(***************************************************************************)
Fairness ==
    /\ \A i \in Inits : WF_vars(InitGoesOn(i))
    /\ \A r \in Refreshes : WF_vars(ReadRegistry(r) \/ ApplyRefresh(r))

Spec == Init /\ [][Next]_vars
FairSpec == Spec /\ Fairness

------------------------------------------------------------------------------
(***************************************************************************)
(* Properties                                                              *)
(***************************************************************************)

(***************************************************************************)
(* Types, and where the tokens of the loaded projects come from: a token   *)
(* on the command line is the token of every project, also of those that   *)
(* a refresh loads later; without one a project has what its file or the   *)
(* process environment had, or none at all.                                *)
(***************************************************************************)
TypeOK ==
    /\ registry \subseteq Projects
    /\ env \in [ Projects -> Contents ]
    /\ issued \in 0..MaxTokens
    /\ inits \in [ Inits -> [ at : { "idle", "loaded", "saving", "saved", "written" },
                              project : Projects \cup { 0 }, token : 0..MaxTokens,
                              copy : SUBSET Projects, old : Contents ] ]
    /\ DOMAIN loaded \subseteq Projects /\ \A p \in DOMAIN loaded : loaded[p] \in Values
    /\ given.token # None => \A p \in DOMAIN loaded : loaded[p] = given.token
    /\ up \in BOOLEAN /\ (DOMAIN loaded # {} => up)
    /\ given \in [ token : Values, key : BOOLEAN ] /\ (given # NothingGiven => up)
    /\ refreshes \in [ Refreshes -> [ at : { "idle", "admitted", "read" },
                                      seen : SUBSET Projects, absent : SUBSET Projects ] ]

(***************************************************************************)
(* A refresh takes away a loaded project only if the registry file lacked  *)
(* it at some moment since the refresh was admitted.  (The file is read    *)
(* before the lock is taken, so the moment need not be the last.)          *)
(***************************************************************************)
RemovedOnlyIfAbsent ==
    [][ \A r \in Refreshes : ApplyRefresh(r) =>
          DOMAIN loaded \ DOMAIN loaded' \subseteq refreshes[r].absent ]_vars

(***************************************************************************)
(* A running project is not reconfigured behind the back of the requests   *)
(* that use it, whatever happens to its files: as long as it is loaded it  *)
(* has the token it was loaded with.                                       *)
(***************************************************************************)
LoadedIsFixed ==
    [][ \A p \in DOMAIN loaded \cap DOMAIN loaded' : loaded'[p] = loaded[p] ]_vars

\* The server has only registered projects, and all that refresh can load.
Synced ==
    /\ DOMAIN loaded \subseteq registry
    /\ Loadable(registry) \subseteq DOMAIN loaded

\* No directory prints a token that the server accepts.
LockedOut == \A p \in Projects : ~Accepts(PrintedToken(p))

(***************************************************************************)
(* However inits and refreshes overlapped, and whatever stale registry a   *)
(* refresh applied, a server that somebody keeps refreshing comes to serve *)
(* the registered projects, unless it has reached the one state refreshing *)
(* does not lead out of, in which it accepts nobody's token.               *)
(***************************************************************************)
Converges ==
    WF_vars(\E r \in Refreshes : AdmitRefresh(r)) => <>[](up => Synced \/ LockedOut)

(***************************************************************************)
(* A project that was initialised can be loaded without a restart by a     *)
(* refresh with the token that print-local-token prints in its directory   *)
(* (README.md:94-97), here with a server that got no token on its command  *)
(* line.                                                                   *)
(***************************************************************************)
NewProjectRefreshes ==
    \A p \in Projects :
        /\ up /\ given.token = None /\ p \in registry \ DOMAIN loaded
        /\ env[p].at = "file" /\ env[p].token \in Tokens
        /\ \A i \in Inits : inits[i].at = "idle"
        => Accepts(PrintedToken(p))

(***************************************************************************)
(* Of an empty CODEX_OPENCODE_LOCAL_TOKEN, README.md:136 says that         *)
(* authorisation is skipped: a caller who has no token is let in if all    *)
(* the tokens of a server are empty.                                       *)
(***************************************************************************)
EmptyTokenSkipsAuth ==
    given.token = None /\ DOMAIN loaded # {} /\ (\A p \in DOMAIN loaded : loaded[p] = Empty)
        => Accepts(None)
==============================================================================
