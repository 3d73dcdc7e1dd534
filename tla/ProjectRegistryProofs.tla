------------------------- MODULE ProjectRegistryProofs -------------------------
(***************************************************************************)
(* The safety theorems about ProjectRegistry, for any number of projects,  *)
(* overlapping inits and overlapping refreshes.                            *)
(*                                                                         *)
(* That a refresh removes only what the registry file has lacked since the *)
(* refresh was admitted needs an invariant about the refreshes under way:  *)
(* what the file lacks now, or lacked when it was read, is among what it   *)
(* has lacked since.                                                       *)
(***************************************************************************)
EXTENDS ProjectRegistry, TLAPS

\* An init that was started has its project and token; a refresh is served only by
\* a running server.
Started ==
    /\ \A i \in Inits : inits[i].at # "idle" => inits[i].project \in Projects
                                                /\ inits[i].token \in Tokens
    /\ \A r \in Refreshes : refreshes[r].at # "idle" => up

Observed ==
    \A r \in Refreshes :
        /\ refreshes[r].at = "admitted" => Projects \ registry \subseteq refreshes[r].absent
        /\ refreshes[r].at = "read" => Projects \ refreshes[r].seen \subseteq refreshes[r].absent

IInv == TypeOK /\ Started /\ Observed

\* the records of inits, as TypeOK has them
InitTypes ==
    [ at : { "idle", "loaded", "saving", "saved", "written" }, project : Projects \cup { 0 },
      token : 0..MaxTokens, copy : SUBSET Projects, old : Contents ]

(***************************************************************************)
(* The token of a configuration is one of those there are, and the command *)
(* line's if it has one.                                                   *)
(***************************************************************************)
LEMMA TokenType ==
    ASSUME NEW override \in Values, NEW file \in Contents, NEW environment \in Values
    PROVE  /\ TokenOf(override, file, environment) \in Values
           /\ override # None => TokenOf(override, file, environment) = override
  BY DEF Contents, TokenOf

(***************************************************************************)
(* The contents of env files.                                              *)
(***************************************************************************)
LEMMA ContentTypes ==
    /\ NoFile \in Contents /\ Broken \in Contents
    /\ \A t \in Values, k, s \in BOOLEAN : File(t, k, s) \in Contents
    /\ None \in Values /\ Empty \in Values /\ Own \in Values /\ Tokens \subseteq Values
    /\ NothingGiven \in [ token : Values, key : BOOLEAN ] /\ NothingGiven.token = None
<1>1. None \in Values /\ Empty \in Values /\ Own \in Values /\ Tokens \subseteq Values
  BY RegistryAssumption DEF Values, Tokens, Own
<1> QED BY <1>1 DEF Contents, NoFile, Broken, File, NothingGiven

(***************************************************************************)
(* What an edit leaves in a file is again the contents of a file.          *)
(***************************************************************************)
LEMMA EditedType ==
    ASSUME NEW file \in Contents, NEW t \in Values
    PROVE  /\ [ file EXCEPT !.key = ~@ ] \in Contents
           /\ [ file EXCEPT !.sound = ~@ ] \in Contents
           /\ [ file EXCEPT !.token = t ] \in Contents
  BY DEF Contents

(***************************************************************************)
(* An init that is not running has no project yet and keeps no file.       *)
(***************************************************************************)
LEMMA NoInitType == NoInit \in InitTypes /\ NoFile \in Contents /\ NoInit.at = "idle"
<1>1. NoFile \in Contents /\ 0 \in 0..MaxTokens
  BY RegistryAssumption, ContentTypes
<1> QED BY <1>1 DEF NoInit, InitTypes

(***************************************************************************)
(* An init that has written the env file is still the same init.           *)
(***************************************************************************)
LEMMA WrittenType ==
    ASSUME NEW x \in InitTypes, NEW c \in Contents
    PROVE  LET y == [ x EXCEPT !.at = "written", !.old = c ]
           IN  y \in InitTypes /\ y.project = x.project /\ y.token = x.token
  BY DEF InitTypes

(***************************************************************************)
(* Nothing has happened in the first state.                                *)
(***************************************************************************)
LEMMA InitInvariant == Init => IInv
<1> SUFFICES ASSUME Init PROVE IInv
  OBVIOUS
<1>1. inits \in [ Inits -> InitTypes ] /\ env \in [ Projects -> Contents ]
  BY NoInitType DEF Init
<1>2. refreshes \in [ Refreshes -> [ at : { "idle", "admitted", "read" },
                        seen : SUBSET Projects, absent : SUBSET Projects ] ]
  BY DEF Init, NoRefresh
<1>3. issued \in 0..MaxTokens
  BY RegistryAssumption DEF Init
<1>4. DOMAIN loaded = {} /\ registry = {} /\ up = FALSE /\ given = NothingGiven
  BY DEF Init
<1>5. TypeOK
  BY <1>1, <1>2, <1>3, <1>4, ContentTypes DEF TypeOK, InitTypes
<1>6. Started /\ Observed
  BY DEF Init, Started, Observed, NoInit, NoRefresh
<1> QED BY <1>5, <1>6 DEF IInv

(***************************************************************************)
(* Whatever the file is replaced by, every refresh takes note of it.       *)
(***************************************************************************)
LEMMA SetRegistryInvariant ==
    ASSUME IInv, NEW set \in SUBSET Projects, SetRegistry(set), up' = up
    PROVE  /\ registry' \subseteq Projects
           /\ refreshes' \in [ Refreshes -> [ at : { "idle", "admitted", "read" },
                                 seen : SUBSET Projects, absent : SUBSET Projects ] ]
           /\ \A r \in Refreshes : refreshes'[r].at # "idle" => up'
           /\ Observed'
  BY DEF IInv, TypeOK, Started, Observed, SetRegistry, NoRefresh

(***************************************************************************)
(* The steps of an init.                                                   *)
(***************************************************************************)
LEMMA InitStepInvariant ==
    ASSUME IInv, NEW i \in Inits, LoadRegistry(i) \/ InitGoesOn(i)
    PROVE  IInv'
<1>1. CASE LoadRegistry(i)
  BY <1>1, RegistryAssumption, ContentTypes
  DEF IInv, TypeOK, Started, Observed, LoadRegistry, Tokens, Own
<1>2. CASE TruncateRegistry(i)
  <2>1. inits[i].at # "idle"
    BY <1>2 DEF TruncateRegistry
  <2> QED BY <1>2, <2>1, SetRegistryInvariant
          DEF IInv, TypeOK, Started, TruncateRegistry
<1>3. CASE WriteRegistry(i)
  <2>1. PICK set \in SUBSET Projects : SetRegistry(set)
    BY <1>3 DEF WriteRegistry, IInv, TypeOK
  <2> QED BY <1>3, <2>1, SetRegistryInvariant
          DEF IInv, TypeOK, Started, WriteRegistry
<1>4. CASE WriteEnv(i)
  <2>1. inits[i] \in InitTypes /\ inits[i].token \in Tokens /\ inits[i].project \in Projects
    BY <1>4 DEF IInv, TypeOK, Started, WriteEnv, InitTypes
  <2>2. File(inits[i].token, TRUE, TRUE) \in Contents /\ env[inits[i].project] \in Contents
    BY <2>1, ContentTypes DEF IInv, TypeOK
  <2>3. env' \in [ Projects -> Contents ]
    BY <1>4, <2>1, <2>2 DEF IInv, TypeOK, WriteEnv
  <2> DEFINE x == [ inits[i] EXCEPT !.at = "written", !.old = env[inits[i].project] ]
  <2>4. inits' = [ inits EXCEPT ![i] = x ]
    BY <1>4 DEF WriteEnv
  <2>5. x \in InitTypes /\ x.project = inits[i].project /\ x.token = inits[i].token
    BY <2>1, <2>2, WrittenType
  <2> HIDE DEF x
  <2>6. inits' \in [ Inits -> InitTypes ]
    BY <2>4, <2>5 DEF IInv, TypeOK, InitTypes
  <2>7. \A j \in Inits : inits'[j].at # "idle" => inits'[j].project \in Projects
                                               /\ inits'[j].token \in Tokens
    BY <2>1, <2>4, <2>5 DEF IInv, TypeOK, Started
  <2>8. /\ UNCHANGED << registry, issued, loaded, up, refreshes, given >>
        /\ TypeOK /\ Started /\ Observed
    BY <1>4 DEF WriteEnv, IInv
  <2>9. TypeOK' /\ Started' /\ Observed'
    BY <2>3, <2>6, <2>7, <2>8 DEF TypeOK, Started, Observed, InitTypes
  <2> QED BY <2>9 DEF IInv
<1>5. CASE InitDone(i) \/ InitStops(i)
  BY <1>5, NoInitType DEF IInv, TypeOK, Started, Observed, InitDone, InitStops, InitTypes
<1>6. CASE Rollback(i)
  <2>1. inits[i] \in InitTypes
    BY DEF IInv, TypeOK, InitTypes
  <2>2. env' \in [ Projects -> Contents ]
    BY <1>6, <2>1 DEF IInv, TypeOK, Rollback, InitTypes
  <2> QED BY <1>6, <2>2, NoInitType DEF IInv, TypeOK, Started, Observed, Rollback, InitTypes
<1> QED BY <1>1, <1>2, <1>3, <1>4, <1>5, <1>6 DEF InitGoesOn

(***************************************************************************)
(* What a refresh leaves loaded has a token, the command line's if there   *)
(* is one, and a loaded project it has seen in the registry stays as it    *)
(* is.                                                                     *)
(***************************************************************************)
LEMMA AfterRefreshType ==
    ASSUME IInv, NEW seen \in SUBSET Projects
    PROVE  /\ DOMAIN AfterRefresh(seen) \subseteq Projects
           /\ \A p \in DOMAIN AfterRefresh(seen) :
                /\ AfterRefresh(seen)[p] \in Values
                /\ given.token # None => AfterRefresh(seen)[p] = given.token
           /\ \A p \in DOMAIN loaded \cap seen :
                p \in DOMAIN AfterRefresh(seen) /\ AfterRefresh(seen)[p] = loaded[p]
<1> DEFINE new(p) == TokenOf(given.token, env[p], None)
<1>1. Loadable(seen) \subseteq Projects
  BY DEF Loadable, Configured, Readable, WithFile
<1>2. \A p \in Projects : new(p) \in Values /\ (given.token # None => new(p) = given.token)
  BY TokenType, ContentTypes DEF IInv, TypeOK
<1>3. DOMAIN AfterRefresh(seen) = (DOMAIN loaded \cap seen) \cup Loadable(seen)
  BY DEF AfterRefresh
<1>4. \A p \in DOMAIN AfterRefresh(seen) :
        AfterRefresh(seen)[p] = IF p \in DOMAIN loaded THEN loaded[p] ELSE new(p)
  BY DEF AfterRefresh
<1> HIDE DEF new
<1> QED BY <1>1, <1>2, <1>3, <1>4 DEF IInv, TypeOK

(***************************************************************************)
(* The steps of a refresh.                                                 *)
(***************************************************************************)
LEMMA RefreshStepInvariant ==
    ASSUME IInv, NEW r \in Refreshes, RefreshStep(r)
    PROVE  IInv'
<1>1. CASE AdmitRefresh(r)
  BY <1>1 DEF IInv, TypeOK, Started, Observed, AdmitRefresh
<1>2. CASE ReadRegistry(r)
  BY <1>2, ZenonT(60) DEF IInv, TypeOK, Started, Observed, ReadRegistry
<1>3. CASE ApplyRefresh(r)
  <2>1. refreshes[r].seen \in SUBSET Projects /\ up
    BY <1>3 DEF IInv, TypeOK, Started, ApplyRefresh
  <2>2. /\ DOMAIN loaded' \subseteq Projects
        /\ \A p \in DOMAIN loaded' : loaded'[p] \in Values
        /\ given.token # None => \A p \in DOMAIN loaded' : loaded'[p] = given.token
    BY <1>3, <2>1, AfterRefreshType DEF ApplyRefresh
  <2> QED BY <1>3, <2>1, <2>2 DEF IInv, TypeOK, Started, Observed, ApplyRefresh, NoRefresh
<1> QED BY <1>1, <1>2, <1>3 DEF RefreshStep

(***************************************************************************)
(* Every step keeps the invariant.                                         *)
(***************************************************************************)
LEMMA StepInvariant == IInv /\ [Next]_vars => IInv'
<1> SUFFICES ASSUME IInv, [Next]_vars PROVE IInv'
  OBVIOUS
<1>1. CASE \E i \in Inits : LoadRegistry(i) \/ InitGoesOn(i)
  BY <1>1, InitStepInvariant
<1>2. CASE \E p \in Projects : Edit(p)
  <2>1. PICK p \in Projects : Edit(p)
    BY <1>2
  <2> DEFINE file == IF env[p] = Broken THEN File(Own, TRUE, TRUE) ELSE env[p]
  <2>2. file \in Contents
    BY ContentTypes DEF IInv, TypeOK
  <2>3. PICK content \in { Broken, [ file EXCEPT !.key = ~@ ], [ file EXCEPT !.sound = ~@ ] }
                         \cup { [ file EXCEPT !.token = t ] : t \in { None, Empty, Own } } :
          env' = [ env EXCEPT ![p] = content ]
    BY <2>1, Zenon DEF Edit
  <2> HIDE DEF file
  <2>4. content \in Contents
    BY <2>2, <2>3, EditedType, ContentTypes
  <2>5. env' \in [ Projects -> Contents ] /\ issued' \in 0..MaxTokens
    BY <2>1, <2>3, <2>4, RegistryAssumption DEF IInv, TypeOK, Edit
  <2>6. /\ UNCHANGED << registry, inits, loaded, up, refreshes, given >>
        /\ TypeOK /\ Started /\ Observed
    BY <2>1 DEF Edit, IInv
  <2> QED BY <2>5, <2>6 DEF IInv, TypeOK, Started, Observed
<1>3. CASE Start
  <2>1. PICK token \in { None, Empty, Own }, environment \in { None, Empty, Own }, key \in BOOLEAN :
          /\ loaded' = [ p \in WithFile(registry) |-> TokenOf(token, env[p], environment) ]
          /\ given' = [ token |-> token, key |-> key ]
    BY <1>3, Zenon DEF Start
  <2>2. WithFile(registry) \subseteq Projects /\ \A p \in Projects : env[p] \in Contents
    BY DEF IInv, TypeOK, WithFile
  <2>3. \A p \in WithFile(registry) : /\ loaded'[p] \in Values
                                      /\ token # None => loaded'[p] = token
    BY <2>1, <2>2, TokenType, ContentTypes
  <2>4. DOMAIN loaded' = WithFile(registry) /\ up' = TRUE /\ given'.token = token
        /\ given' \in [ token : Values, key : BOOLEAN ]
    BY <1>3, <2>1, ContentTypes DEF Start
  <2>5. UNCHANGED << registry, env, issued, inits, refreshes >> /\ TypeOK /\ Started /\ Observed
    BY <1>3 DEF Start, IInv
  <2> QED BY <2>2, <2>3, <2>4, <2>5 DEF IInv, TypeOK, Started, Observed
<1>4. CASE Stop
  BY <1>4, ContentTypes DEF IInv, TypeOK, Started, Observed, Stop, NoRefresh
<1>5. CASE \E r \in Refreshes : RefreshStep(r)
  BY <1>5, RefreshStepInvariant
<1>6. CASE UNCHANGED vars
  BY <1>6 DEF vars, IInv, TypeOK, Started, Observed
<1> QED BY <1>1, <1>2, <1>3, <1>4, <1>5, <1>6 DEF Next

(***************************************************************************)
(* The invariant holds: types, and what the refreshes under way have noted *)
(* of a registry file that inits replace under their feet.                 *)
(***************************************************************************)
THEOREM Invariant == Spec => []IInv
  BY InitInvariant, StepInvariant, PTL DEF Spec

(***************************************************************************)
(* Type correctness: whatever overlaps, fails or is killed, the server has *)
(* only registrable projects, and if its command line has a token then all *)
(* have that one, those that a refresh loads too.                          *)
(***************************************************************************)
THEOREM TypeCorrect == Spec => []TypeOK
  BY Invariant, PTL DEF IInv

(***************************************************************************)
(* admin_refresh takes away only projects that the registry file has       *)
(* lacked since the refresh was admitted.                                  *)
(***************************************************************************)
THEOREM RemovalsAreJustified == Spec => RemovedOnlyIfAbsent
<1>1. ASSUME IInv, [Next]_vars, NEW r \in Refreshes, ApplyRefresh(r)
      PROVE  DOMAIN loaded \ DOMAIN loaded' \subseteq refreshes[r].absent
  <2>1. refreshes[r].seen \in SUBSET Projects
    BY <1>1 DEF IInv, TypeOK
  <2>2. DOMAIN loaded \cap refreshes[r].seen \subseteq DOMAIN loaded'
    BY <1>1, <2>1, AfterRefreshType DEF ApplyRefresh
  <2>3. Projects \ refreshes[r].seen \subseteq refreshes[r].absent
    BY <1>1 DEF IInv, Observed, ApplyRefresh
  <2> QED BY <1>1, <2>2, <2>3 DEF IInv, TypeOK
<1>2. IInv /\ [Next]_vars =>
        [ \A r \in Refreshes : ApplyRefresh(r) =>
            DOMAIN loaded \ DOMAIN loaded' \subseteq refreshes[r].absent ]_vars
  BY <1>1
<1> QED BY <1>2, Invariant, PTL DEF Spec, RemovedOnlyIfAbsent

(***************************************************************************)
(* A loaded project keeps the token it was loaded with: inits and edits    *)
(* reach the server only by way of a removal or a restart.                 *)
(***************************************************************************)
THEOREM ConfigurationIsStable == Spec => LoadedIsFixed
<1>1. ASSUME IInv, Next
      PROVE  \A p \in DOMAIN loaded \cap DOMAIN loaded' : loaded'[p] = loaded[p]
  <2>1. CASE \E r \in Refreshes : ApplyRefresh(r)
    BY <2>1 DEF ApplyRefresh, AfterRefresh
  <2>2. CASE Start
    <3>1. DOMAIN loaded = {}
      BY <1>1, <2>2 DEF IInv, TypeOK, Start
    <3> QED BY <3>1
  <2>3. CASE Stop
    BY <2>3 DEF Stop
  <2>4. CASE loaded' = loaded
    BY <2>4
  <2> QED
    BY <1>1, <2>1, <2>2, <2>3, <2>4
    DEF Next, LoadRegistry, InitGoesOn, TruncateRegistry, WriteRegistry, WriteEnv, InitDone,
        Rollback, InitStops, Edit, RefreshStep, AdmitRefresh, ReadRegistry
<1>2. IInv /\ [Next]_vars =>
        [ \A p \in DOMAIN loaded \cap DOMAIN loaded' : loaded'[p] = loaded[p] ]_vars
  BY <1>1
<1> QED BY <1>2, Invariant, PTL DEF Spec, LoadedIsFixed
==============================================================================
