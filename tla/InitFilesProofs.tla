---------------------------- MODULE InitFilesProofs ----------------------------
(***************************************************************************)
(* The theorems about InitFiles, for any number of projects, templates,    *)
(* inits and edits.                                                        *)
(*                                                                         *)
(* None of the properties is inductive.  That the user's version is never  *)
(* lost needs to know that an init which has come past its backup leaves   *)
(* that version in a backup (Kept).  That files are restored, or agree,    *)
(* needs to know of each file of an init under way what it held before     *)
(* (Held) and which of them have been written (Written).  What is said of  *)
(* the shared configuration holds for the init that has the files to       *)
(* itself (Alone), of each other file for every init (Own).                *)
(***************************************************************************)
EXTENDS InitFiles, TLAPS

JobTypes == [ pc : Busy \cup Ended, number : 0..MaxInits, built : Texts,
              i : 0..(Templates + 3), applied : Seq(Contents), missed : BOOLEAN,
              found : [ Writes -> Contents ] \cup { << >> } ]

\* the inits that have copied the configuration
PastBackup == { "register", "write", "rollback", "finish" }

Kept ==
    \/ version = 0
    \/ \E b \in backups : b \in Texts /\ b.user = version
    \/ /\ disk[Config] \in Texts /\ disk[Config].user = version
       /\ \A p \in Projects : job[p].pc \notin PastBackup

\* an init has the files to itself as long as no other has started
Alone == \A p, q \in Projects : sole = p /\ q # p => ~Running(q)

\* the files that only this init may change
Own(p, k) == k > 1 \/ sole = p

\* how far an init has come with its files
Position(p) ==
    /\ job[p].pc # "idle" => job[p].found \in [ Writes -> Contents ]
    /\ job[p].pc = "write" => job[p].i \in Writes /\ Len(job[p].applied) = job[p].i - 1
    /\ job[p].pc = "rollback" => job[p].i <= Len(job[p].applied)
                                 /\ Len(job[p].applied) <= Templates + 2
    /\ job[p].missed => job[p].pc = "rollback"
    /\ Len(job[p].applied) >= 1 => job[p].applied[1] # Routed
    /\ job[p].pc \in { "build", "backup", "register" } => job[p].i = 1 /\ job[p].applied = << >>

\* the number of files that an init has changed and not put back
Changed(p) == CASE job[p].pc = "write" -> job[p].i - 1
                [] job[p].pc = "rollback" -> job[p].i
                [] OTHER -> 0

\* what a file held when the init began is in the file, or ready to be put back
Held(p) ==
    job[p].pc \notin { "idle", "finish", "ok" } =>
        \A k \in Writes : Own(p, k) =>
            /\ k <= Changed(p) => job[p].applied[k] = job[p].found[k]
            /\ k > Changed(p) => job[p].missed \/ disk[File(p, k)] = job[p].found[k]

\* the k-th file has the contents that the init of p gives it
New(p, k) ==
    /\ k = 1 => /\ p \in registry
                /\ disk[Config] \in Texts
                /\ disk[Config].init = job[p].number
                /\ job[p].found[1] \in Texts => disk[Config].user = job[p].found[1].user
    /\ k = 2 => disk[File(p, 2)] = Text(0, job[p].number)
    /\ k > 2 => disk[File(p, k)] = Routed

Written(p) ==
    /\ job[p].pc \in { "backup", "register", "write" } /\ sole = p =>
         /\ job[p].built.init = job[p].number
         /\ job[p].found[1] \in Texts => job[p].built.user = job[p].found[1].user
    /\ job[p].pc = "write" => p \in registry
    /\ job[p].pc = "write" => \A k \in 1..(job[p].i - 1) : Own(p, k) => New(p, k)
    /\ job[p].pc \in { "finish", "ok" } => \A k \in Writes : Own(p, k) => New(p, k)

Sound(p) == Position(p) /\ Held(p) /\ Written(p)

IInv == TypeOK /\ Kept /\ Alone /\ \A p \in Projects : Sound(p)

-------------------------------------------------------------------------------

(***************************************************************************)
(* A file belongs to one project and one place, but for the configuration. *)
(***************************************************************************)
LEMMA FilesDiffer ==
    /\ \A p \in Projects, k \in Writes : File(p, k) \in Files
    /\ \A p \in Projects : File(p, 1) = Config
    /\ Config \in Files
    /\ \A p, q \in Projects, k, l \in Writes :
          File(p, k) = File(q, l) => k = l /\ (p = q \/ k = 1)
<1>1. 1 \in Writes
  BY InitFilesAssumption DEF Writes
<1>2. \A p \in Projects, k \in Writes : k # 1 => File(p, k) \in OwnFiles(p)
  BY InitFilesAssumption DEF Writes, OwnFiles
<1>3. \A p \in Projects : OwnFiles(p) \subseteq Files
  BY DEF Files
<1>4. \A p \in Projects : File(p, 1) = Config
  BY DEF File, Config
<1>5. Config \in Files
  BY DEF Files
<1>6. ASSUME NEW p \in Projects, NEW q \in Projects, NEW k \in Writes, NEW l \in Writes,
             File(p, k) = File(q, l)
      PROVE  k = l /\ (p = q \/ k = 1)
  BY <1>6, InitFilesAssumption DEF File
<1> QED BY <1>2, <1>3, <1>4, <1>5, <1>6

(***************************************************************************)
(* What init writes or finds is what a file may hold.                      *)
(***************************************************************************)
LEMMA TextTypes ==
    /\ Texts \subseteq Contents
    /\ Absent \in Contents /\ Torn \in Contents /\ Routed \in Contents
    /\ \A u \in 0..MaxEdits, n \in 0..MaxInits :
          Text(u, n) \in Texts /\ Text(u, n).user = u /\ Text(u, n).init = n
    /\ \A t \in Texts : t.user \in 0..MaxEdits /\ t.init \in 0..MaxInits
    /\ 0 \in 0..MaxEdits /\ 0 \in 0..MaxInits
  BY InitFilesAssumption DEF Texts, Contents, Text

(***************************************************************************)
(* A project without an init has nothing to be right about.                *)
(***************************************************************************)
LEMMA IdleType ==
    /\ Idle \in JobTypes /\ Idle.pc = "idle" /\ Idle.i = 1 /\ Idle.missed = FALSE
    /\ Idle.applied = << >> /\ Len(Idle.applied) = 0
    /\ ~Idle.missed /\ ~(Len(Idle.applied) >= 1)
<1>1. << >> \in Seq(Contents) /\ 1 \in 0..(Templates + 3)
  BY InitFilesAssumption
<1>2. Len(Idle.applied) = 0
  BY DEF Idle
<1> QED BY <1>1, <1>2, TextTypes DEF Idle, JobTypes, Ended

(***************************************************************************)
(* The first state.                                                        *)
(***************************************************************************)
LEMMA InitInvariant == Init => IInv
<1> SUFFICES ASSUME Init PROVE IInv
  OBVIOUS
<1>1. disk \in [ Files -> Contents ] /\ disk[Config] # Routed
  BY TextTypes, FilesDiffer, InitFilesAssumption DEF Init
<1>2. job \in [ Projects -> JobTypes ] /\ \A p \in Projects : job[p] = Idle
  BY IdleType DEF Init
<1>3. TypeOK
  BY <1>1, <1>2, InitFilesAssumption DEF Init, TypeOK, JobTypes
<1>4. Kept /\ Alone
  BY <1>2, IdleType DEF Init, Kept, Alone, Running, Busy
<1>5. \A p \in Projects : Sound(p)
  <2>1. \A p \in Projects : job[p].pc = "idle" /\ ~job[p].missed
                            /\ ~(Len(job[p].applied) >= 1)
    BY <1>2, IdleType
  <2> QED BY <2>1 DEF Sound, Position, Held, Written
<1> QED BY <1>3, <1>4, <1>5 DEF IInv

(***************************************************************************)
(* A step of the init of p leaves what is known of another project's init  *)
(* as it is: it touches none of that project's own files, and if it is     *)
(* under way the other has not got the configuration to itself.            *)
(***************************************************************************)
LEMMA OthersKeep ==
    ASSUME IInv, NEW p \in Projects, NEW q \in Projects, q # p,
           job'[q] = job[q], registry \subseteq registry',
           sole' = sole \/ sole' # q,
           \A f \in Files : (\A k \in Writes : f # File(p, k)) => disk'[f] = disk[f],
           disk'[Config] = disk[Config] \/ Running(p)
    PROVE  Sound(q)'
<1>1. Sound(q) /\ (sole = q => ~Running(p))
  BY DEF IInv, Alone
<1>2. \A k \in Writes : Own(q, k)' => Own(q, k)
  BY DEF Own
<1>3. \A k \in Writes : Own(q, k)' => disk'[File(q, k)] = disk[File(q, k)]
  <2> SUFFICES ASSUME NEW k \in Writes, Own(q, k)'
               PROVE  disk'[File(q, k)] = disk[File(q, k)]
    OBVIOUS
  <2>1. CASE k = 1
    BY <2>1, <1>1, FilesDiffer DEF Own
  <2>2. CASE k # 1
    BY <2>2, FilesDiffer
  <2> QED BY <2>1, <2>2
<1>4. File(q, 1) = Config
  BY FilesDiffer
<1>5. \A k \in Writes : Own(q, k)' /\ New(q, k) => New(q, k)'
  <2> SUFFICES ASSUME NEW k \in Writes, Own(q, k)', New(q, k) PROVE New(q, k)'
    OBVIOUS
  <2>1. disk'[File(q, k)] = disk[File(q, k)]
    BY <1>3
  <2> QED BY <2>1, <1>4 DEF New
<1>6. Position(q)'
  BY <1>1 DEF Sound, Position
<1>7. Held(q)'
  <2>1. Changed(q)' = Changed(q)
    BY DEF Changed
  <2> QED BY <1>1, <1>2, <1>3, <2>1 DEF Sound, Held
<1>8. Written(q)'
  <2>1. job[q].pc = "write" => 1..(job[q].i - 1) \subseteq Writes
    <3>1. ASSUME job[q].pc = "write" PROVE job[q].i \in 1..(Templates + 2)
      BY <1>1, <3>1 DEF Sound, Position, Writes
    <3> QED BY <3>1, InitFilesAssumption DEF Writes
  <2>2. sole' = q => sole = q
    OBVIOUS
  <2> QED BY <1>1, <1>2, <1>5, <2>1, <2>2 DEF Sound, Written
<1> QED BY <1>6, <1>7, <1>8 DEF Sound

(***************************************************************************)
(* The type of a job, as TypeOK has it.                                    *)
(***************************************************************************)
LEMMA JobOf ==
    ASSUME IInv, NEW p \in Projects
    PROVE  /\ job \in [ Projects -> JobTypes ] /\ job[p] \in JobTypes
           /\ job[p].pc \in Busy \cup Ended /\ job[p].number \in 0..MaxInits
           /\ job[p].built \in Texts /\ job[p].i \in 0..(Templates + 3)
           /\ job[p].applied \in Seq(Contents) /\ job[p].missed \in BOOLEAN
           /\ Sound(p)
<1>1. job \in [ Projects -> JobTypes ]
  BY DEF IInv, TypeOK, JobTypes
<1>2. job[p] \in JobTypes
  BY <1>1
<1> QED BY <1>1, <1>2 DEF JobTypes, IInv

(***************************************************************************)
(* An init that ends without success and without a complete rollback.      *)
(***************************************************************************)
LEMMA FailsSound ==
    ASSUME IInv, NEW p \in Projects, Fails(p)
    PROVE  /\ job' \in [ Projects -> JobTypes ]
           /\ job'[p].pc = "idle" /\ Sound(p)'
           /\ \A q \in Projects : q # p => job'[q] = job[q]
<1>1. job' = [ job EXCEPT ![p] = Idle ] /\ job \in [ Projects -> JobTypes ]
  BY JobOf DEF Fails
<1>2. job'[p] = Idle /\ Idle.pc = "idle" /\ ~Idle.missed /\ Len(Idle.applied) = 0
  BY <1>1, IdleType
<1>3. Sound(p)'
  BY <1>2 DEF Sound, Position, Held, Written
<1> QED BY <1>1, <1>2, <1>3, IdleType

(***************************************************************************)
(* An init that starts finds the files as they are.                        *)
(***************************************************************************)
LEMMA StartInvariant ==
    ASSUME IInv, NEW p \in Projects, Start(p)
    PROVE  IInv'
<1> DEFINE found == [ i \in Writes |-> disk[File(p, i)] ]
           j == [ Idle EXCEPT !.pc = "build", !.number = inits + 1, !.found = found ]
<1>1. /\ job' = [ job EXCEPT ![p] = j ] /\ inits' = inits + 1 /\ inits < MaxInits
      /\ UNCHANGED << disk, backups, registry, version >> /\ ~Running(p)
      /\ sole' = IF \E q \in Projects : Running(q) THEN Nobody ELSE p
  BY DEF Start
<1>2. found \in [ Writes -> Contents ]
  BY FilesDiffer DEF IInv, TypeOK
<1>3. inits + 1 \in 0..MaxInits
  BY <1>1, InitFilesAssumption DEF IInv, TypeOK
<1>4. /\ j \in JobTypes /\ j.pc = "build" /\ j.found = found /\ j.missed = FALSE
        /\ j.i = 1 /\ j.applied = << >> /\ Len(j.applied) = 0
  <2> HIDE DEF found
  <2> QED BY <1>2, <1>3, IdleType DEF JobTypes, Busy
<1> HIDE DEF j
<1>5. job \in [ Projects -> JobTypes ] /\ job' \in [ Projects -> JobTypes ] /\ job'[p] = j
      /\ \A q \in Projects : q # p => job'[q] = job[q]
  BY <1>1, <1>4, JobOf
<1>6. TypeOK'
  BY <1>1, <1>3, <1>5 DEF IInv, TypeOK, JobTypes
<1>7. Kept'
  BY <1>1, <1>4, <1>5 DEF IInv, Kept, PastBackup
<1>8. Alone'
  BY <1>1, <1>5, InitFilesAssumption DEF Alone, Running
<1>9. Sound(p)'
  <2>1. \A k \in Writes : disk'[File(p, k)] = found[k]
    BY <1>1
  <2>2. Changed(p)' = 0
    BY <1>4, <1>5 DEF Changed
  <2> HIDE DEF found
  <2>3. \A k \in Writes : ~(k <= 0)
    BY InitFilesAssumption DEF Writes
  <2>4. Position(p)' /\ Written(p)'
    BY <1>2, <1>4, <1>5 DEF Position, Written
  <2>5. Held(p)'
    BY <1>4, <1>5, <2>1, <2>2, <2>3 DEF Held
  <2> QED BY <2>4, <2>5 DEF Sound
<1>10. ASSUME NEW q \in Projects, q # p PROVE Sound(q)'
  <2>1. sole' # q
    BY <1>1, <1>10, InitFilesAssumption
  <2> QED BY <1>1, <1>5, <1>10, <2>1, OthersKeep
<1> QED BY <1>6, <1>7, <1>8, <1>9, <1>10 DEF IInv

(***************************************************************************)
(* What is common to the steps of an init under way.                       *)
(***************************************************************************)
LEMMA StepFrame ==
    ASSUME IInv, NEW p \in Projects, Running(p),
           job' \in [ Projects -> JobTypes ],
           \A q \in Projects : q # p => job'[q] = job[q],
           disk' \in [ Files -> Contents ], disk'[Config] # Routed,
           \A f \in Files : (\A k \in Writes : f # File(p, k)) => disk'[f] = disk[f],
           backups' \subseteq Texts \cup { Torn },
           registry \subseteq registry', registry' \subseteq Projects,
           UNCHANGED << inits, version, sole >>,
           Kept', Sound(p)'
    PROVE  IInv'
<1>1. TypeOK'
  BY DEF IInv, TypeOK, JobTypes
<1>2. Alone'
  BY DEF IInv, Alone, Running
<1>3. ASSUME NEW q \in Projects, q # p PROVE Sound(q)'
  BY <1>3, OthersKeep
<1> QED BY <1>1, <1>2, <1>3 DEF IInv

(***************************************************************************)
(* A step that changes neither files nor backups keeps the user's version  *)
(* if no init comes past its backup by it.                                 *)
(***************************************************************************)
LEMMA SameFilesKept ==
    ASSUME IInv, NEW p \in Projects, disk' = disk, backups \subseteq backups',
           version' = version,
           \A q \in Projects : q # p => job'[q] = job[q],
           job'[p].pc \in PastBackup => job[p].pc \in PastBackup
    PROVE  Kept'
  BY DEF IInv, Kept

(***************************************************************************)
(* An init that is past its backup need not keep the user's version.       *)
(***************************************************************************)
LEMMA PastBackupKept ==
    ASSUME IInv, NEW p \in Projects, job[p].pc \in PastBackup,
           backups \subseteq backups', version' = version
    PROVE  Kept'
  BY DEF IInv, Kept

(***************************************************************************)
(* An init that ends without success, and leaves the files as they are.    *)
(***************************************************************************)
LEMMA FailsInvariant ==
    ASSUME IInv, NEW p \in Projects, Running(p), Fails(p), disk' = disk,
           backups \subseteq backups', backups' \subseteq Texts \cup { Torn },
           registry \subseteq registry', registry' \subseteq Projects,
           UNCHANGED << inits, version, sole >>
    PROVE  IInv'
<1>1. /\ job' \in [ Projects -> JobTypes ] /\ job'[p].pc = "idle" /\ Sound(p)'
      /\ \A q \in Projects : q # p => job'[q] = job[q]
  BY FailsSound
<1>2. Kept'
  BY <1>1, SameFilesKept DEF PastBackup
<1> QED BY <1>1, <1>2, StepFrame DEF IInv, TypeOK

(***************************************************************************)
(* What init builds carries over the user's part of what it reads.         *)
(***************************************************************************)
LEMMA BuildInvariant ==
    ASSUME IInv, NEW p \in Projects, Build(p)
    PROVE  IInv'
<1> DEFINE user == IF disk[Config] \in { Absent, Torn } THEN 0 ELSE disk[Config].user
           built == Text(user, job[p].number)
           j == [ job[p] EXCEPT !.pc = "backup", !.built = built ]
<1>1. /\ job[p].pc = "build" /\ Running(p)
      /\ UNCHANGED << disk, backups, registry, inits, version, sole >>
  BY DEF Build, Running, Busy
<1>2. CASE Fails(p)
  BY <1>1, <1>2, FailsInvariant DEF IInv, TypeOK
<1>3. CASE job' = [ job EXCEPT ![p].pc = "backup", ![p].built = built ]
  <2>1. job \in [ Projects -> JobTypes ] /\ job[p] \in JobTypes /\ Sound(p)
        /\ job[p].number \in 0..MaxInits
    BY JobOf
  <2>2. user \in 0..MaxEdits
    BY FilesDiffer, TextTypes, InitFilesAssumption DEF IInv, TypeOK, Contents
  <2>3. built \in Texts /\ built.user = user /\ built.init = job[p].number
    BY <2>1, <2>2, TextTypes
  <2>4. disk[Config] \in Texts => user = disk[Config].user
    BY InitFilesAssumption
  <2> HIDE DEF built, user
  <2>5. /\ j \in JobTypes /\ j.pc = "backup" /\ j.built = built /\ j.found = job[p].found
        /\ j.missed = job[p].missed /\ j.number = job[p].number
        /\ j.i = job[p].i /\ j.applied = job[p].applied
    BY <2>1, <2>3 DEF JobTypes, Busy
  <2>6. job' = [ job EXCEPT ![p] = j ]
    BY <1>3, <2>1
  <2> HIDE DEF j
  <2>7. /\ job' \in [ Projects -> JobTypes ] /\ job'[p] = j
        /\ \A q \in Projects : q # p => job'[q] = job[q]
    BY <2>1, <2>5, <2>6
  <2>8. Position(p)'
    BY <1>1, <2>1, <2>5, <2>7 DEF Sound, Position
  <2>9. Held(p)'
    <3>1. Changed(p) = 0 /\ Changed(p)' = 0
      BY <1>1, <2>5, <2>7 DEF Changed
    <3>2. \A k \in Writes : Own(p, k)' => Own(p, k)
      BY <1>1 DEF Own
    <3>3. \A k \in Writes : ~(k <= 0) /\ k > 0
      BY InitFilesAssumption DEF Writes
    <3> QED BY <1>1, <2>1, <2>5, <2>7, <3>1, <3>2, <3>3 DEF Sound, Held
  <2>10. Written(p)'
    <3>1. ASSUME sole = p, job[p].found[1] \in Texts, ~job[p].missed
          PROVE  disk[Config] = job[p].found[1]
      <4>1. 1 \in Writes /\ ~(1 <= 0)
        BY InitFilesAssumption DEF Writes
      <4>2. Changed(p) = 0
        BY <1>1 DEF Changed
      <4> QED BY <1>1, <2>1, <3>1, <4>1, <4>2, FilesDiffer DEF Sound, Held, Own
    <3>2. ~job[p].missed
      BY <1>1, <2>1 DEF Sound, Position
    <3>3. sole' = sole /\ job'[p].pc = "backup"
      BY <1>1, <2>5, <2>7
    <3> QED BY <2>3, <2>4, <2>5, <2>7, <3>1, <3>2, <3>3 DEF Written
  <2>11. Kept'
    BY <1>1, <2>5, <2>7, SameFilesKept DEF PastBackup
  <2> QED BY <1>1, <2>7, <2>8, <2>9, <2>10, <2>11, StepFrame DEF Sound, IInv, TypeOK
<1> QED BY <1>2, <1>3 DEF Build

(***************************************************************************)
(* An init that goes on, before it has written any file.                   *)
(***************************************************************************)
LEMMA GoesOnSound ==
    ASSUME IInv, NEW p \in Projects, NEW pc \in { "register", "write" }, GoesOn(p, pc),
           job[p].pc = IF pc = "register" THEN "backup" ELSE "register",
           disk' = disk, sole' = sole, registry \subseteq registry',
           pc = "write" => p \in registry'
    PROVE  /\ job' \in [ Projects -> JobTypes ] /\ job'[p].pc = pc /\ Sound(p)'
           /\ \A q \in Projects : q # p => job'[q] = job[q]
<1> DEFINE j == [ job[p] EXCEPT !.pc = pc ]
<1>1. job \in [ Projects -> JobTypes ] /\ job[p] \in JobTypes /\ Sound(p)
  BY JobOf
<1>2. /\ j \in JobTypes /\ j.pc = pc /\ j.built = job[p].built /\ j.found = job[p].found
      /\ j.missed = job[p].missed /\ j.number = job[p].number
      /\ j.i = job[p].i /\ j.applied = job[p].applied
  BY <1>1 DEF JobTypes, Busy
<1>3. job' = [ job EXCEPT ![p] = j ]
  BY <1>1 DEF GoesOn
<1> HIDE DEF j
<1>4. /\ job' \in [ Projects -> JobTypes ] /\ job'[p] = j
      /\ \A q \in Projects : q # p => job'[q] = job[q]
  BY <1>1, <1>2, <1>3
<1>5. job[p].i = 1 /\ job[p].applied = << >> /\ ~job[p].missed
  BY <1>1 DEF Sound, Position
<1>6. 1 \in Writes /\ \A k \in Writes : ~(k <= 0) /\ k > 0
  BY InitFilesAssumption DEF Writes
<1>7. Position(p)'
  BY <1>1, <1>2, <1>4, <1>5, <1>6 DEF Sound, Position
<1>8. Held(p)'
  <2>1. Changed(p) = 0 /\ Changed(p)' = 0
    BY <1>2, <1>4, <1>5 DEF Changed
  <2>2. \A k \in Writes : Own(p, k)' => Own(p, k)
    BY DEF Own
  <2> QED BY <1>1, <1>2, <1>4, <1>6, <2>1, <2>2 DEF Sound, Held
<1>9. Written(p)'
  BY <1>1, <1>2, <1>4, <1>5 DEF Sound, Written
<1> QED BY <1>2, <1>4, <1>7, <1>8, <1>9 DEF Sound

(***************************************************************************)
(* The copy is made before anything is written.                            *)
(***************************************************************************)
LEMMA BackupInvariant ==
    ASSUME IInv, NEW p \in Projects, Backup(p)
    PROVE  IInv'
<1>1. /\ job[p].pc = "backup" /\ Running(p)
      /\ UNCHANGED << disk, registry, inits, version, sole >>
  BY DEF Backup, Running, Busy
<1>2. /\ backups \subseteq backups' /\ backups' \subseteq Texts \cup { Torn }
      /\ registry \subseteq registry' /\ registry' \subseteq Projects
  BY <1>1, FilesDiffer DEF Backup, Copied, IInv, TypeOK, Contents
<1>3. CASE Fails(p)
  BY <1>1, <1>2, <1>3, FailsInvariant
<1>4. CASE backups' = Copied /\ GoesOn(p, "register")
  <2>1. /\ job' \in [ Projects -> JobTypes ] /\ job'[p].pc = "register" /\ Sound(p)'
        /\ \A q \in Projects : q # p => job'[q] = job[q]
    BY <1>1, <1>2, <1>4, GoesOnSound
  <2>2. disk[Config] \in Texts => disk[Config] \in backups'
    BY <1>4, InitFilesAssumption DEF Copied
  <2>3. Kept'
    BY <1>1, <1>2, <2>2 DEF IInv, Kept
  <2> QED BY <1>1, <1>2, <2>1, <2>3, StepFrame DEF IInv, TypeOK
<1> QED BY <1>3, <1>4 DEF Backup

(***************************************************************************)
(* A project is registered before anything is written.                     *)
(***************************************************************************)
LEMMA RegisterInvariant ==
    ASSUME IInv, NEW p \in Projects, Register(p)
    PROVE  IInv'
<1>1. /\ job[p].pc = "register" /\ Running(p)
      /\ UNCHANGED << disk, backups, inits, version, sole >>
  BY DEF Register, Running, Busy
<1>2. /\ backups' \subseteq Texts \cup { Torn }
      /\ registry \subseteq registry' /\ registry' \subseteq Projects
  BY <1>1 DEF Register, IInv, TypeOK
<1>3. CASE Fails(p)
  BY <1>1, <1>2, <1>3, FailsInvariant
<1>4. CASE registry' = registry \cup { p } /\ GoesOn(p, "write")
  <2>1. /\ job' \in [ Projects -> JobTypes ] /\ job'[p].pc = "write" /\ Sound(p)'
        /\ \A q \in Projects : q # p => job'[q] = job[q]
    BY <1>1, <1>2, <1>4, GoesOnSound
  <2>2. Kept'
    BY <1>1, PastBackupKept DEF PastBackup
  <2> QED BY <1>1, <1>2, <2>1, <2>2, StepFrame DEF IInv, TypeOK
<1> QED BY <1>3, <1>4 DEF Register

(***************************************************************************)
(* A file is replaced, and what it held is kept.                           *)
(***************************************************************************)
LEMMA ApplyInvariant ==
    ASSUME IInv, NEW p \in Projects, job[p].pc = "write", Apply(p),
           UNCHANGED << backups, registry, inits, version, sole >>
    PROVE  IInv'
<1> DEFINE i == job[p].i
           f == File(p, i)
           new == NewContents(p, i)
           pc == IF i = Templates + 2 THEN "finish" ELSE "write"
           j == [ job[p] EXCEPT !.applied = Append(job[p].applied, disk[f]), !.i = i + 1,
                                !.pc = pc ]
<1>1. /\ job \in [ Projects -> JobTypes ] /\ job[p] \in JobTypes /\ Sound(p)
      /\ job[p].applied \in Seq(Contents) /\ job[p].built \in Texts
      /\ job[p].number \in 0..MaxInits
  BY JobOf
<1>2. i \in Writes /\ i \in Nat /\ i >= 1 /\ i <= Templates + 2 /\ Len(job[p].applied) = i - 1
      /\ ~job[p].missed
  BY <1>1, InitFilesAssumption DEF Sound, Position, Writes
<1>3. f \in Files /\ disk[f] \in Contents
  BY <1>2, FilesDiffer DEF IInv, TypeOK
<1>4. /\ new \in Contents
      /\ i = 1 => new = job[p].built
      /\ i = 2 => new = Text(0, job[p].number)
      /\ i > 2 => new = Routed
  BY <1>1, <1>2, TextTypes DEF NewContents
<1>5. /\ j \in JobTypes /\ j.pc = pc /\ j.built = job[p].built /\ j.found = job[p].found
      /\ j.missed = job[p].missed /\ j.number = job[p].number /\ j.i = i + 1
      /\ j.applied = Append(job[p].applied, disk[f])
  <2>1. pc \in Busy /\ i + 1 \in 0..(Templates + 3)
    BY <1>2, InitFilesAssumption DEF Busy
  <2>2. Append(job[p].applied, disk[f]) \in Seq(Contents)
    BY <1>1, <1>3
  <2> HIDE DEF i, f, pc
  <2> QED BY <1>1, <2>1, <2>2 DEF JobTypes
<1>6. job' = [ job EXCEPT ![p] = j ]
  BY <1>1 DEF Apply
<1>7. disk' = [ disk EXCEPT ![f] = new ]
  BY DEF Apply
<1> HIDE DEF new, j
<1>8. /\ job' \in [ Projects -> JobTypes ] /\ job'[p] = j
      /\ \A q \in Projects : q # p => job'[q] = job[q]
  BY <1>1, <1>5, <1>6
<1>9. /\ disk' \in [ Files -> Contents ] /\ disk'[f] = new
      /\ \A k \in Writes : k # i => disk'[File(p, k)] = disk[File(p, k)]
      /\ \A g \in Files : (\A k \in Writes : g # File(p, k)) => disk'[g] = disk[g]
  BY <1>2, <1>3, <1>4, <1>7, FilesDiffer DEF IInv, TypeOK
<1>10. disk'[Config] # Routed
  <2>1. CASE i = 1
    BY <2>1, <1>1, <1>4, <1>9, FilesDiffer, InitFilesAssumption
  <2>2. CASE i # 1
    BY <2>2, <1>9, FilesDiffer, InitFilesAssumption DEF IInv, TypeOK, Writes
  <2> QED BY <2>1, <2>2
<1>11. \A k \in Writes : k \in Nat /\ k >= 1 /\ k <= Templates + 2
  BY InitFilesAssumption DEF Writes
<1>12. \A k \in Writes : Own(p, k)' => Own(p, k)
  BY DEF Own
<1>13. Position(p)'
  <2>1. Len(j.applied) = i
    BY <1>1, <1>2, <1>3, <1>5
  <2>2. i # Templates + 2 => i + 1 \in Writes
    BY <1>2, InitFilesAssumption DEF Writes
  <2>3. job[p].found \in [ Writes -> Contents ]
    BY <1>1 DEF Sound, Position
  <2>4. j.applied[1] # Routed
    <3>1. CASE i = 1
      BY <1>1, <1>2, <1>3, <1>5, <3>1, FilesDiffer DEF IInv, TypeOK
    <3>2. CASE i > 1
      BY <1>1, <1>2, <1>3, <1>5, <3>2 DEF Sound, Position
    <3> QED BY <1>2, <3>1, <3>2
  <2> HIDE DEF i, f
  <2> QED BY <1>2, <1>5, <1>8, <2>1, <2>2, <2>3, <2>4 DEF Position
<1>14. Held(p)'
  <2> SUFFICES ASSUME pc = "write", NEW k \in Writes, Own(p, k)
               PROVE  /\ k <= i => j.applied[k] = job[p].found[k]
                      /\ k > i => disk'[File(p, k)] = job[p].found[k]
    <3>1. pc = "write" => Changed(p)' = i
      BY <1>2, <1>5, <1>8 DEF Changed
    <3> HIDE DEF i
    <3> QED BY <1>5, <1>8, <1>12, <3>1 DEF Held
  <2>1. Changed(p) = i - 1
    BY DEF Changed
  <2>2. CASE k < i
    <3>1. job[p].applied[k] = job[p].found[k]
      BY <1>1, <1>2, <1>11, <2>1, <2>2 DEF Sound, Held
    <3>2. j.applied[k] = job[p].applied[k]
      BY <1>1, <1>2, <1>3, <1>5, <1>11, <2>2
    <3> QED BY <2>2, <1>2, <1>11, <3>1, <3>2
  <2>3. CASE k >= i
    <3>1. disk[File(p, k)] = job[p].found[k]
      BY <1>1, <1>2, <1>11, <2>1, <2>3 DEF Sound, Held
    <3>2. CASE k = i
      BY <1>1, <1>2, <1>3, <1>5, <3>1, <3>2
    <3>3. CASE k > i
      BY <1>2, <1>9, <1>11, <3>1, <3>3
    <3> QED BY <2>3, <1>2, <1>11, <3>2, <3>3
  <2> QED BY <2>2, <2>3, <1>2, <1>11
<1>15. Written(p)'
  <2>1. p \in registry'
    BY <1>1 DEF Sound, Written
  <2>2. ASSUME NEW k \in Writes, k <= i, Own(p, k) PROVE New(p, k)'
    <3>1. CASE k < i
      <4>1. New(p, k)
        BY <1>1, <1>2, <1>11, <2>2, <3>1 DEF Sound, Written
      <4>2. disk'[File(p, k)] = disk[File(p, k)]
        BY <1>2, <1>9, <1>11, <3>1
      <4> QED BY <4>1, <4>2, <1>5, <1>8, <2>1, FilesDiffer DEF New
    <3>2. CASE k = i /\ i = 1
      <4>1. /\ job[p].built.init = job[p].number
            /\ job[p].found[1] \in Texts => job[p].built.user = job[p].found[1].user
        BY <1>1, <2>2, <3>2 DEF Sound, Written, Own
      <4>2. disk'[Config] = job[p].built
        BY <1>4, <1>9, <3>2, FilesDiffer
      <4> QED BY <4>1, <4>2, <1>1, <1>5, <1>8, <2>1, <3>2 DEF New
    <3>3. CASE k = i /\ i # 1
      BY <1>2, <1>4, <1>5, <1>8, <1>9, <3>3 DEF New
    <3> QED BY <2>2, <1>2, <1>11, <3>1, <3>2, <3>3
  <2>3. pc = "finish" => \A k \in Writes : k <= i
    BY <1>11
  <2>4. pc = "write" => \A k \in 1..(j.i - 1) : k \in Writes /\ k <= i
    BY <1>2, <1>5, InitFilesAssumption DEF Writes
  <2>5. /\ pc \in { "write", "finish" } /\ (sole' = p => sole = p)
        /\ pc = "write" /\ sole = p =>
             /\ j.built.init = j.number
             /\ j.found[1] \in Texts => j.built.user = j.found[1].user
    BY <1>1, <1>5 DEF Sound, Written
  <2> HIDE DEF i, f, pc
  <2>6. \A k \in Writes : k <= i /\ Own(p, k)' => New(p, k)'
    BY <2>2, <1>12
  <2> QED BY <1>5, <1>8, <2>1, <2>3, <2>4, <2>5, <2>6 DEF Written
<1>16. Kept'
  BY PastBackupKept DEF PastBackup
<1>17. Running(p)
  BY DEF Running, Busy
<1> QED BY <1>8, <1>9, <1>10, <1>13, <1>14, <1>15, <1>16, <1>17, StepFrame
        DEF IInv, TypeOK, Sound

(***************************************************************************)
(* A write fails: as many files are to be put back as have been replaced.  *)
(***************************************************************************)
LEMMA StartRollbackInvariant ==
    ASSUME IInv, NEW p \in Projects, job[p].pc = "write", StartRollback(p),
           UNCHANGED << disk, backups, registry, inits, version, sole >>
    PROVE  IInv'
<1> DEFINE n == Len(job[p].applied)
           j == [ job[p] EXCEPT !.i = n, !.pc = "rollback" ]
<1>1. /\ job \in [ Projects -> JobTypes ] /\ job[p] \in JobTypes /\ Sound(p)
  BY JobOf
<1>2. n = job[p].i - 1 /\ n \in 0..(Templates + 2) /\ n \in 0..(Templates + 3)
  BY <1>1, InitFilesAssumption DEF Sound, Position, Writes
<1> HIDE DEF n
<1>3. /\ j \in JobTypes /\ j.pc = "rollback" /\ j.found = job[p].found
      /\ j.missed = job[p].missed /\ j.i = n /\ j.applied = job[p].applied
  BY <1>1, <1>2 DEF JobTypes, Busy
<1>4. job' = [ job EXCEPT ![p] = j ]
  BY <1>1 DEF StartRollback, n
<1> HIDE DEF j
<1>5. /\ job' \in [ Projects -> JobTypes ] /\ job'[p] = j
      /\ \A q \in Projects : q # p => job'[q] = job[q]
  BY <1>1, <1>3, <1>4
<1>6. Position(p)'
  BY <1>1, <1>2, <1>3, <1>5, InitFilesAssumption DEF Sound, Position, n
<1>7. Held(p)'
  <2>1. Changed(p)' = n /\ Changed(p) = n
    BY <1>2, <1>3, <1>5 DEF Changed
  <2>2. \A k \in Writes : Own(p, k)' => Own(p, k)
    BY DEF Own
  <2> QED BY <1>1, <1>3, <1>5, <2>1, <2>2 DEF Sound, Held
<1>8. Written(p)'
  BY <1>3, <1>5 DEF Written
<1>9. Kept' /\ Running(p)
  BY PastBackupKept DEF PastBackup, Running, Busy
<1> QED BY <1>5, <1>6, <1>7, <1>8, <1>9, StepFrame DEF IInv, TypeOK, Sound

(***************************************************************************)
(* Writing in place what a file held, or failing to, touches that file.    *)
(***************************************************************************)
LEMMA PutBackDisk ==
    ASSUME IInv, NEW p \in Projects, job[p].pc = "rollback", job[p].i > 0,
           disk' \in PutBackPartly(p) \cup { PutBack(p) }
    PROVE  /\ job[p].i \in Writes /\ job[p].applied[job[p].i] \in Contents
           /\ disk' \in [ Files -> Contents ] /\ disk'[Config] # Routed
           /\ \A k \in Writes : k # job[p].i => disk'[File(p, k)] = disk[File(p, k)]
           /\ disk' = PutBack(p) =>
                disk'[File(p, job[p].i)] = job[p].applied[job[p].i]
           /\ \A g \in Files : (\A k \in Writes : g # File(p, k)) => disk'[g] = disk[g]
<1> DEFINE i == job[p].i
           f == File(p, i)
           c == job[p].applied[i]
<1>1. job[p].applied \in Seq(Contents) /\ Sound(p) /\ i \in 0..(Templates + 3)
  BY JobOf
<1>2. i \in Writes /\ i \in 1..Len(job[p].applied)
  BY <1>1, InitFilesAssumption DEF Sound, Position, Writes
<1>3. c \in Contents /\ (i = 1 => c # Routed)
  BY <1>1, <1>2 DEF Sound, Position
<1>4. PICK d \in Contents : /\ disk' \in { disk, [ disk EXCEPT ![f] = d ] }
                            /\ i = 1 => d # Routed
                            /\ disk' = PutBack(p) => d = c \/ disk'[f] = c
  <2>1. CASE disk' = PutBack(p)
    BY <1>3, <2>1 DEF PutBack
  <2>2. CASE disk' \in PutBackPartly(p) /\ disk' # PutBack(p)
    BY <2>2, TextTypes, InitFilesAssumption DEF PutBackPartly
  <2> QED BY <2>1, <2>2
<1>5. f \in Files /\ disk \in [ Files -> Contents ] /\ disk[Config] # Routed
  BY <1>2, FilesDiffer DEF IInv, TypeOK
<1>6. disk' = PutBack(p) => disk'[f] = c
  BY <1>5 DEF PutBack
<1> HIDE DEF c
<1>7. disk' \in [ Files -> Contents ]
  BY <1>4, <1>5
<1>8. \A g \in Files : g # f => disk'[g] = disk[g]
  BY <1>4, <1>5
<1>9. disk'[Config] # Routed
  <2>1. f = Config => i = 1
    BY <1>2, FilesDiffer, InitFilesAssumption DEF Writes
  <2> HIDE DEF f, i
  <2>2. CASE f = Config
    BY <1>4, <1>5, <2>1, <2>2
  <2>3. CASE f # Config
    BY <1>5, <1>8, <2>3, FilesDiffer
  <2> QED BY <2>2, <2>3
<1>10. \A k \in Writes : k # i => File(p, k) # f /\ File(p, k) \in Files
  BY <1>2, FilesDiffer
<1> QED BY <1>2, <1>3, <1>6, <1>7, <1>8, <1>9, <1>10 DEF c

(***************************************************************************)
(* One file is put back, or missed, or the rollback is abandoned there.    *)
(***************************************************************************)
LEMMA RollbackFileInvariant ==
    ASSUME IInv, NEW p \in Projects, RollbackFile(p)
    PROVE  IInv'
<1> DEFINE i == job[p].i
<1>1. /\ job[p].pc = "rollback" /\ i > 0 /\ Running(p)
      /\ UNCHANGED << backups, registry, inits, version, sole >>
  BY DEF RollbackFile, Running, Busy
<1>2. /\ job \in [ Projects -> JobTypes ] /\ job[p] \in JobTypes /\ Sound(p)
      /\ i \in 0..(Templates + 3)
  BY JobOf
<1>3. disk' \in PutBackPartly(p) \cup { PutBack(p) }
  BY DEF RollbackFile
<1>4. Kept'
  BY <1>1, PastBackupKept DEF PastBackup
<1>5. i \in Writes /\ \A k \in Writes : k \in Nat
  BY <1>1, <1>3, PutBackDisk DEF Writes
<1>6. CASE Fails(p)
  BY <1>1, <1>3, <1>4, <1>6, FailsSound, PutBackDisk, StepFrame DEF IInv, TypeOK
<1>7. ASSUME NEW missed \in BOOLEAN, missed \/ disk' = PutBack(p), job[p].missed => missed,
             job' = [ job EXCEPT ![p] = [ job[p] EXCEPT !.i = i - 1, !.missed = missed ] ]
      PROVE  IInv'
  <2> DEFINE j == [ job[p] EXCEPT !.i = i - 1, !.missed = missed ]
  <2>1. i - 1 \in 0..(Templates + 3)
    BY <1>1, <1>2, InitFilesAssumption
  <2>2. /\ j \in JobTypes /\ j.pc = "rollback" /\ j.found = job[p].found
        /\ j.missed = missed /\ j.i = i - 1 /\ j.applied = job[p].applied
    <3> HIDE DEF i
    <3> QED BY <1>1, <1>2, <2>1 DEF JobTypes
  <2> HIDE DEF j
  <2>3. /\ job' \in [ Projects -> JobTypes ] /\ job'[p] = j
        /\ \A q \in Projects : q # p => job'[q] = job[q]
    BY <1>2, <1>7, <2>2 DEF j
  <2>4. Position(p)'
    BY <1>1, <1>2, <2>2, <2>3 DEF Sound, Position
  <2>5. Held(p)'
    <3> SUFFICES ASSUME NEW k \in Writes, Own(p, k)
                 PROVE  /\ k <= i - 1 => job[p].applied[k] = job[p].found[k]
                        /\ k > i - 1 => missed \/ disk'[File(p, k)] = job[p].found[k]
      <4>1. Changed(p)' = i - 1 /\ (Own(p, 1)' => Own(p, 1))
        BY <1>1, <2>2, <2>3 DEF Changed, Own
      <4>2. \A k \in Writes : Own(p, k)' => Own(p, k)
        BY <1>1 DEF Own
      <4> HIDE DEF i
      <4> QED BY <2>2, <2>3, <4>1, <4>2 DEF Held
    <3>1. /\ k <= i => job[p].applied[k] = job[p].found[k]
          /\ k > i => job[p].missed \/ disk[File(p, k)] = job[p].found[k]
      BY <1>1, <1>2 DEF Sound, Held, Changed
    <3>2. CASE k <= i - 1
      BY <1>2, <1>5, <3>1, <3>2
    <3>3. CASE k = i
      BY <1>1, <1>3, <1>5, <1>7, <3>1, <3>3, PutBackDisk
    <3>4. CASE k > i
      <4>1. disk'[File(p, k)] = disk[File(p, k)]
        BY <1>1, <1>3, <1>5, <3>4, PutBackDisk
      <4> QED BY <1>5, <1>7, <3>1, <3>4, <4>1
    <3> QED BY <1>5, <3>2, <3>3, <3>4
  <2>6. Written(p)'
    BY <2>2, <2>3 DEF Written
  <2> QED BY <1>1, <1>3, <1>4, <2>3, <2>4, <2>5, <2>6, PutBackDisk, StepFrame
          DEF IInv, TypeOK, Sound
<1>8. CASE disk' = PutBack(p) /\ job' = [ job EXCEPT ![p].i = i - 1 ]
  <2>1. [ job[p] EXCEPT !.i = i - 1 ] = [ job[p] EXCEPT !.i = i - 1, !.missed = job[p].missed ]
        /\ job[p].missed \in BOOLEAN
    BY <1>2 DEF JobTypes
  <2>2. job' = [ job EXCEPT ![p] = [ job[p] EXCEPT !.i = i - 1, !.missed = job[p].missed ] ]
    BY <1>2, <1>8, <2>1
  <2> QED BY <1>7, <1>8, <2>1, <2>2
<1>9. CASE job' = [ job EXCEPT ![p].i = i - 1, ![p].missed = TRUE ]
  <2>1. job' = [ job EXCEPT ![p] = [ job[p] EXCEPT !.i = i - 1, !.missed = TRUE ] ]
    BY <1>2, <1>9
  <2> QED BY <1>7, <2>1
<1> QED BY <1>6, <1>8, <1>9 DEF RollbackFile

(***************************************************************************)
(* An init that returns leaves the files as they are.                      *)
(***************************************************************************)
LEMMA ReturnsInvariant ==
    ASSUME IInv, NEW p \in Projects, NEW pc \in { "undone", "ok" }, Returns(p, pc),
           IF pc = "ok" THEN job[p].pc = "finish"
           ELSE job[p].pc = "rollback" /\ job[p].i = 0 /\ ~job[p].missed,
           UNCHANGED << disk, backups, registry, inits, version, sole >>
    PROVE  IInv'
<1> DEFINE j == [ Idle EXCEPT !.pc = pc, !.number = job[p].number, !.found = job[p].found ]
<1>1. /\ job \in [ Projects -> JobTypes ] /\ job[p] \in JobTypes /\ Sound(p)
      /\ job[p].number \in 0..MaxInits /\ job[p].found \in [ Writes -> Contents ] /\ Running(p)
  BY JobOf DEF Sound, Position, Running, Busy
<1>2. /\ j \in JobTypes /\ j.pc = pc /\ j.found = job[p].found /\ j.number = job[p].number
      /\ ~j.missed /\ ~(Len(j.applied) >= 1)
  <2>1. j.missed = Idle.missed /\ j.applied = Idle.applied
    BY IdleType DEF JobTypes
  <2>2. j \in JobTypes /\ j.pc = pc /\ j.found = job[p].found /\ j.number = job[p].number
    BY <1>1, IdleType DEF JobTypes, Ended
  <2> QED BY <2>1, <2>2, IdleType
<1>3. job' = [ job EXCEPT ![p] = j ]
  BY DEF Returns
<1> HIDE DEF j
<1>4. /\ job' \in [ Projects -> JobTypes ] /\ job'[p] = j
      /\ \A q \in Projects : q # p => job'[q] = job[q]
  BY <1>1, <1>2, <1>3
<1>5. Position(p)'
  BY <1>1, <1>2, <1>4 DEF Position
<1>6. \A k \in Writes : Own(p, k)' => Own(p, k)
  BY DEF Own
<1>7. Held(p)'
  <2>1. pc = "undone" => Changed(p) = 0 /\ Changed(p)' = 0
    BY <1>2, <1>4 DEF Changed
  <2>2. \A k \in Writes : ~(k <= 0) /\ k > 0
    BY InitFilesAssumption DEF Writes
  <2> QED BY <1>1, <1>2, <1>4, <1>6, <2>1, <2>2 DEF Sound, Held
<1>8. Written(p)'
  <2>1. \A k \in Writes : New(p, k) => New(p, k)'
    BY <1>2, <1>4 DEF New
  <2> QED BY <1>1, <1>2, <1>4, <1>6, <2>1 DEF Sound, Written
<1>9. Kept'
  BY <1>2, <1>4, SameFilesKept DEF PastBackup
<1> QED BY <1>1, <1>4, <1>5, <1>7, <1>8, <1>9, StepFrame DEF IInv, TypeOK, Sound

(***************************************************************************)
(* The process is killed, perhaps in the middle of a file.                 *)
(***************************************************************************)
LEMMA KillInvariant ==
    ASSUME IInv, NEW p \in Projects, Kill(p)
    PROVE  IInv'
<1>1. /\ Running(p) /\ Fails(p) /\ UNCHANGED << registry, inits, version, sole >>
      /\ backups \subseteq backups' /\ backups' \subseteq Texts \cup { Torn }
  BY DEF Kill, IInv, TypeOK
<1>2. CASE disk' = disk
  BY <1>1, <1>2, FailsInvariant DEF IInv, TypeOK
<1>3. CASE job[p].pc = "rollback" /\ job[p].i > 0 /\ disk' \in PutBackPartly(p)
  <2>1. Kept'
    BY <1>1, <1>3, PastBackupKept DEF PastBackup
  <2> QED BY <1>1, <1>3, <2>1, FailsSound, PutBackDisk, StepFrame DEF IInv, TypeOK
<1> QED BY <1>2, <1>3 DEF Kill

(***************************************************************************)
(* The user has the configuration to himself.                              *)
(***************************************************************************)
LEMMA EditInvariant == IInv /\ Edit => IInv'
<1> SUFFICES ASSUME IInv, Edit PROVE IInv'
  OBVIOUS
<1> DEFINE n == IF disk[Config] \in { Absent, Torn } THEN 0 ELSE disk[Config].init
<1>1. /\ \A p \in Projects : ~Running(p)
      /\ version' = version + 1 /\ version + 1 \in 0..MaxEdits
      /\ disk' = [ disk EXCEPT ![Config] = Text(version + 1, n) ]
      /\ sole' = Nobody
      /\ UNCHANGED << backups, registry, job, inits >>
  BY InitFilesAssumption DEF Edit, IInv, TypeOK
<1>2. n \in 0..MaxInits
  BY FilesDiffer, TextTypes, InitFilesAssumption DEF IInv, TypeOK, Contents
<1> HIDE DEF n
<1>3. Text(version + 1, n) \in Texts /\ Text(version + 1, n).user = version + 1
  BY <1>1, <1>2, TextTypes
<1>4. /\ disk' \in [ Files -> Contents ] /\ disk'[Config] = Text(version + 1, n)
      /\ \A p \in Projects, k \in Writes : k > 1 => disk'[File(p, k)] = disk[File(p, k)]
  BY <1>1, <1>3, FilesDiffer, TextTypes, InitFilesAssumption DEF IInv, TypeOK, Writes
<1>5. TypeOK'
  BY <1>1, <1>3, <1>4, InitFilesAssumption DEF IInv, TypeOK
<1>6. Kept' /\ Alone'
  BY <1>1, <1>3, <1>4, InitFilesAssumption DEF Kept, Alone, Running, PastBackup, Busy
<1>7. ASSUME NEW p \in Projects PROVE Sound(p)'
  <2>1. Sound(p) /\ job[p].pc \notin Busy /\ sole' # p /\ job'[p] = job[p] /\ registry' = registry
    BY <1>1, InitFilesAssumption DEF IInv, Running
  <2>2. \A k \in Writes : Own(p, k)' => k > 1 /\ disk'[File(p, k)] = disk[File(p, k)]
    BY <1>4, <2>1 DEF Own
  <2>3. Position(p)'
    BY <2>1 DEF Sound, Position
  <2>4. Held(p)'
    <3>1. Changed(p)' = Changed(p)
      BY <2>1 DEF Changed
    <3> QED BY <2>1, <2>2, <3>1 DEF Sound, Held, Own
  <2>5. Written(p)'
    <3>1. \A k \in Writes : Own(p, k)' /\ New(p, k) => New(p, k)'
      BY <2>1, <2>2 DEF New
    <3> QED BY <2>1, <2>2, <3>1 DEF Sound, Written, Own, Busy
  <2> QED BY <2>3, <2>4, <2>5 DEF Sound
<1> QED BY <1>5, <1>6, <1>7 DEF IInv

(***************************************************************************)
(* Every step keeps the invariant.                                         *)
(***************************************************************************)
LEMMA StepInvariant == IInv /\ [Next]_vars => IInv'
<1> SUFFICES ASSUME IInv, [Next]_vars PROVE IInv'
  OBVIOUS
<1>1. ASSUME NEW p \in Projects, Start(p) \/ Build(p) \/ Backup(p) \/ Register(p)
      PROVE  IInv'
  BY <1>1, StartInvariant, BuildInvariant, BackupInvariant, RegisterInvariant
<1>2. ASSUME NEW p \in Projects, Write(p)
      PROVE  IInv'
  <2>1. /\ job[p].pc = "write" /\ UNCHANGED << backups, registry, inits, version, sole >>
        /\ Running(p)
    BY <1>2 DEF Write, Running, Busy
  <2>2. CASE Fails(p) /\ disk' = disk
    BY <2>1, <2>2, FailsInvariant DEF IInv, TypeOK
  <2> QED BY <1>2, <2>1, <2>2, ApplyInvariant, StartRollbackInvariant DEF Write
<1>3. ASSUME NEW p \in Projects, RollbackEnds(p) \/ Finish(p)
      PROVE  IInv'
  <2>1. /\ UNCHANGED << disk, backups, registry, inits, version, sole >> /\ Running(p)
    BY <1>3 DEF RollbackEnds, Finish, Running, Busy
  <2>2. CASE Fails(p)
    BY <2>1, <2>2, FailsInvariant DEF IInv, TypeOK
  <2>3. CASE RollbackEnds(p) /\ ~job[p].missed /\ Returns(p, "undone")
    BY <2>1, <2>3, ReturnsInvariant DEF RollbackEnds
  <2>4. CASE Finish(p) /\ Returns(p, "ok")
    BY <2>1, <2>4, ReturnsInvariant DEF Finish
  <2> QED BY <1>3, <2>2, <2>3, <2>4 DEF RollbackEnds, Finish
<1>4. ASSUME NEW p \in Projects, RollbackFile(p) \/ Kill(p)
      PROVE  IInv'
  BY <1>4, RollbackFileInvariant, KillInvariant
<1>5. CASE UNCHANGED vars
  <2>1. ASSUME NEW p \in Projects PROVE Sound(p)'
    BY <1>5 DEF vars, IInv, Sound, Position, Held, Written, Own, Changed, New
  <2> QED BY <1>5, <2>1 DEF vars, IInv, TypeOK, Kept, Alone, Running
<1> QED BY <1>1, <1>2, <1>3, <1>4, <1>5, EditInvariant DEF Next

(***************************************************************************)
(* The invariant holds, whatever fails, is killed or overlaps.             *)
(***************************************************************************)
THEOREM Invariant == Spec => []IInv
  BY InitInvariant, StepInvariant, PTL DEF Spec

(***************************************************************************)
(* Type correctness: the files hold whole texts, nothing, or what a        *)
(* rollback has torn, and inits keep what they need to put back.           *)
(***************************************************************************)
THEOREM TypeCorrect == Spec => []TypeOK
  BY Invariant, PTL DEF IInv

(***************************************************************************)
(* create_backup_if_exists comes before the first write, so the user's     *)
(* latest version of the Codex configuration is in the file or a backup.   *)
(***************************************************************************)
THEOREM VersionIsKept == Spec => []UserNotLost
<1>1. IInv => UserNotLost
  BY DEF IInv, Kept, UserNotLost
<1> QED BY <1>1, Invariant, PTL

(***************************************************************************)
(* apply_writes_with_rollback, if nothing in the rollback fails, leaves    *)
(* the files as it found them.                                             *)
(***************************************************************************)
THEOREM RollbackRestores == Spec => []Restored
<1>1. IInv => Restored
  <2> SUFFICES ASSUME IInv, NEW p \in Projects, job[p].pc = "undone",
                      NEW i \in Writes, i > 1 \/ sole = p
               PROVE  disk[File(p, i)] = job[p].found[i]
    BY DEF Restored
  <2>1. Held(p) /\ ~job[p].missed /\ Changed(p) = 0
    BY DEF IInv, Sound, Position, Changed
  <2>2. i > 0
    BY InitFilesAssumption DEF Writes
  <2> QED BY <2>1, <2>2 DEF Held, Own
<1> QED BY <1>1, Invariant, PTL

(***************************************************************************)
(* An init that reports success leaves all its files in agreement,         *)
(* whatever earlier inits have left there.                                 *)
(***************************************************************************)
THEOREM SuccessDeploys == Spec => []Deployed
<1>1. IInv => Deployed
  <2> SUFFICES ASSUME IInv, NEW p \in Projects, job[p].pc = "ok"
               PROVE  /\ disk[File(p, 2)] = Text(0, job[p].number)
                      /\ \A i \in 3..(Templates + 2) : disk[File(p, i)] = Routed
                      /\ sole = p =>
                           /\ p \in registry
                           /\ disk[Config] \in Texts
                           /\ disk[Config].init = job[p].number
                           /\ job[p].found[1] \in Texts =>
                                disk[Config].user = job[p].found[1].user
    BY DEF Deployed
  <2>1. \A k \in Writes : Own(p, k) => New(p, k)
    BY DEF IInv, Sound, Written
  <2>2. 1 \in Writes /\ 2 \in Writes /\ \A i \in 3..(Templates + 2) : i \in Writes /\ i > 2
    BY InitFilesAssumption DEF Writes
  <2> QED BY <2>1, <2>2 DEF New, Own
<1> QED BY <1>1, Invariant, PTL
=============================================================================
