------------------------------ MODULE InitFiles -------------------------------
(***************************************************************************)
(* The files that "init" writes (src/init.rs): the Codex configuration of  *)
(* the user, which all projects share, and the env file and the agent      *)
(* templates of one project.  Each is replaced by a rename; if one fails,  *)
(* those before it are put back, unless the log cannot be written either.  *)
(* Inits of several projects overlap, fail and are killed at any step, and *)
(* are called again.                                                       *)
(*                                                                         *)
(* A file's contents are told apart by the init they come from and, for    *)
(* the configuration, by the version of the user's own part, which an init *)
(* carries over from what it reads.  The argument --port and the token are *)
(* what tells inits apart.  Parent directories and the temporary file of a *)
(* write that is killed (each has a name of its own) are left out.         *)
(*                                                                         *)
(* Four simplifications.  The registry is loaded and saved in one step:    *)
(* ProjectRegistry models the gap.  A file is taken down and replaced in   *)
(* one step.  No two inits copy the configuration within one second:       *)
(* backup files are named by the second, and the later copy would replace  *)
(* the earlier.  The user changes the configuration only while no init     *)
(* runs: init works from what it has read.                                 *)
(***************************************************************************)
EXTENDS Naturals, Sequences

CONSTANTS
    Projects,   \* the projects that are initialised, one init each at a time
    Shared,     \* the owner of the Codex configuration
    Nobody,     \* no project
    Templates,  \* number of agent templates
    Absent,     \* what is in a file that does not exist
    Torn,       \* what fs::write leaves if it is interrupted or fails
    Routed,     \* an agent template whose model names the project
    MaxInits,   \* bound: how often init is called
    MaxEdits    \* bound: how often the user changes the configuration

VARIABLES
    disk,      \* what is in each file
    backups,   \* the copies made of the configuration
    registry,  \* the projects in the registry file
    job,       \* the last init of each project
    inits,     \* inits called so far
    version,   \* the user's latest version of the configuration
    sole       \* the last init called, if it has had the files to itself

vars == << disk, backups, registry, job, inits, version, sole >>

\* the files in the order in which an init of p writes them
Writes == 1..(Templates + 2)
File(p, i) == << IF i = 1 THEN Shared ELSE p, i >>
Config == << Shared, 1 >>
OwnFiles(p) == { File(p, i) : i \in 2..(Templates + 2) }
Files == { Config } \cup UNION { OwnFiles(p) : p \in Projects }

\* contents: of the init with this number (0: of none), with this version of the user's part
Text(user, init) == [ user |-> user, init |-> init ]
Texts == [ user : 0..MaxEdits, init : 0..MaxInits ]
Contents == Texts \cup { Absent, Torn, Routed }

ASSUME InitFilesAssumption ==
    /\ Shared \notin Projects /\ Nobody \notin Projects
    /\ Absent \notin Texts \cup { Torn, Routed }
    /\ Torn \notin Texts \cup { Routed }
    /\ Routed \notin Texts
    /\ Templates \in Nat /\ MaxInits \in Nat /\ MaxEdits \in Nat

\* where an init is, or how the last one ended: "idle" if it was killed or
\* returned an error with the rollback not done or not complete, or if there was none
Busy == { "build", "backup", "register", "write", "rollback", "finish" }
Ended == { "idle", "undone", "ok" }

\* found is what was in the files when the init began, for the properties only
Idle == [ pc |-> "idle", number |-> 0, built |-> Text(0, 0), i |-> 1,
          applied |-> << >>, missed |-> FALSE, found |-> << >> ]

Running(p) == job[p].pc \in Busy

GoesOn(p, pc) == job' = [ job EXCEPT ![p].pc = pc ]

Fails(p) == job' = [ job EXCEPT ![p] = Idle ]

Returns(p, outcome) ==
    job' = [ job EXCEPT ![p] = [ Idle EXCEPT !.pc = outcome, !.number = job[p].number,
                                             !.found = job[p].found ] ]

Init ==
    /\ disk \in { [ f \in Files |-> IF f = Config THEN c ELSE o ] :
                    c \in { Absent, Text(0, 0) }, o \in { Absent, Text(0, 0) } }
    /\ backups = {}
    /\ registry = {}
    /\ job = [ p \in Projects |-> Idle ]
    /\ inits = 0
    /\ version = 0
    /\ sole = Nobody

\* the log can be written and a key is at hand; otherwise nothing has happened
Start(p) ==
    /\ ~Running(p)
    /\ inits < MaxInits
    /\ inits' = inits + 1
    /\ job' = [ job EXCEPT ![p] = [ Idle EXCEPT !.pc = "build", !.number = inits + 1,
                                              !.found = [ i \in Writes |-> disk[File(p, i)] ] ] ]
    /\ sole' = IF \E q \in Projects : Running(q) THEN Nobody ELSE p
    /\ UNCHANGED << disk, backups, registry, version >>

\* the configuration is read; one that is torn may parse, without its user's part
Build(p) ==
    /\ job[p].pc = "build"
    /\ \/ job' = [ job EXCEPT ![p].pc = "backup",
                              ![p].built = Text(IF disk[Config] \in { Absent, Torn } THEN 0
                                                ELSE disk[Config].user,
                                                job[p].number) ]
       \/ Fails(p)
    /\ UNCHANGED << disk, backups, registry, inits, version, sole >>

\* mutant: there is one backup file, which every init replaces
CopiedOver == IF disk[Config] = Absent THEN backups ELSE { disk[Config] }

Copied == IF disk[Config] = Absent THEN backups ELSE backups \cup { disk[Config] }

\* the copy may fail, and so may the log that names it
Backup(p) ==
    /\ job[p].pc = "backup"
    /\ \/ backups' = Copied /\ GoesOn(p, "register")
       \/ backups' = Copied /\ disk[Config] # Absent /\ Fails(p)
       \/ backups' = backups \cup { Torn } /\ disk[Config] # Absent /\ Fails(p)
    /\ UNCHANGED << disk, registry, inits, version, sole >>

Register(p) ==
    /\ job[p].pc = "register"
    /\ \/ registry' = registry \cup { p } /\ GoesOn(p, "write")
       \/ registry' \in { registry, registry \cup { p } } /\ Fails(p)
    /\ UNCHANGED << disk, backups, inits, version, sole >>

\* what an init of p writes into its i-th file
NewContents(p, i) == CASE i = 1 -> job[p].built
                       [] i = 2 -> Text(0, job[p].number)
                       [] OTHER -> Routed

\* the file is replaced by a rename, after its contents were taken down
Apply(p) ==
    LET i == job[p].i
        f == File(p, i)
    IN  /\ disk' = [ disk EXCEPT ![f] = NewContents(p, i) ]
        /\ job' = [ job EXCEPT ![p].applied = Append(job[p].applied, disk[f]),
                               ![p].i = i + 1,
                               ![p].pc = IF i = Templates + 2 THEN "finish" ELSE "write" ]

\* mutant: a file that cannot be written is passed over
PassOver(p) ==
    job' = [ job EXCEPT ![p].i = job[p].i + 1,
                        ![p].pc = IF job[p].i = Templates + 2 THEN "finish" ELSE "write" ]

\* the files written so far are put back, the last one first
StartRollback(p) ==
    job' = [ job EXCEPT ![p].i = Len(job[p].applied), ![p].pc = "rollback" ]

\* a write fails before the rename or in it, and the file is as it was; a
\* line that cannot be logged ends init where it stands, with an error
Write(p) ==
    /\ job[p].pc = "write"
    /\ \/ Apply(p)
       \/ StartRollback(p) /\ UNCHANGED disk
       \/ Fails(p) /\ UNCHANGED disk
    /\ UNCHANGED << backups, registry, inits, version, sole >>

\* mutant: a file that init has created is left in place
PutBackOld(p) ==
    LET i == job[p].i
    IN  IF job[p].applied[i] = Absent THEN disk
        ELSE [ disk EXCEPT ![File(p, i)] = job[p].applied[i] ]

\* the contents are written in place, or the file is removed if there was none
PutBack(p) == [ disk EXCEPT ![File(p, job[p].i)] = job[p].applied[job[p].i] ]

\* neither may have been done, or the file is cut short
PutBackPartly(p) ==
    { disk } \cup { [ disk EXCEPT ![File(p, job[p].i)] = Torn ] :
                     x \in { job[p].applied[job[p].i] } \ { Absent } }

\* a file that cannot be put back is logged and passed over; without a log
\* the rest of the rollback is abandoned
RollbackFile(p) ==
    /\ job[p].pc = "rollback"
    /\ job[p].i > 0
    /\ \/ /\ disk' = PutBack(p)
          /\ job' = [ job EXCEPT ![p].i = job[p].i - 1 ]
       \/ /\ disk' \in PutBackPartly(p)
          /\ job' = [ job EXCEPT ![p].i = job[p].i - 1, ![p].missed = TRUE ]
       \/ /\ disk' \in PutBackPartly(p) \cup { PutBack(p) }
          /\ Fails(p)
    /\ UNCHANGED << backups, registry, inits, version, sole >>

RollbackEnds(p) ==
    /\ job[p].pc = "rollback"
    /\ job[p].i = 0
    /\ IF job[p].missed THEN Fails(p) ELSE Returns(p, "undone")
    /\ UNCHANGED << disk, backups, registry, inits, version, sole >>

\* the state directory is made and the end is logged; if not, nothing is put back
Finish(p) ==
    /\ job[p].pc = "finish"
    /\ Returns(p, "ok") \/ Fails(p)
    /\ UNCHANGED << disk, backups, registry, inits, version, sole >>

\* the process is killed; the file it writes in place at that moment is cut short
Kill(p) ==
    /\ Running(p)
    /\ Fails(p)
    /\ IF job[p].pc = "rollback" /\ job[p].i > 0 THEN disk' \in PutBackPartly(p)
       ELSE UNCHANGED disk
    /\ IF job[p].pc = "backup" THEN backups' \in { backups, backups \cup { Torn } }
       ELSE UNCHANGED backups
    /\ UNCHANGED << registry, inits, version, sole >>

\* the user, or Codex, changes the configuration, and mends it if it is torn
Edit ==
    /\ \A p \in Projects : ~Running(p)
    /\ version < MaxEdits
    /\ version' = version + 1
    /\ disk' = [ disk EXCEPT ![Config] =
                    Text(version + 1, IF @ \in { Absent, Torn } THEN 0 ELSE @.init) ]
    /\ sole' = Nobody
    /\ UNCHANGED << backups, registry, job, inits >>

Next ==
    \/ \E p \in Projects :
          \/ Start(p)
          \/ Build(p)
          \/ Backup(p)
          \/ Register(p)
          \/ Write(p)
          \/ RollbackFile(p)
          \/ RollbackEnds(p)
          \/ Finish(p)
          \/ Kill(p)
    \/ Edit

Spec == Init /\ [][Next]_vars

-------------------------------------------------------------------------------

TypeOK ==
    /\ disk \in [ Files -> Contents ]
    /\ disk[Config] # Routed
    /\ backups \subseteq Texts \cup { Torn }
    /\ registry \subseteq Projects
    /\ job \in [ Projects -> [ pc : Busy \cup Ended, number : 0..MaxInits, built : Texts,
                               i : 0..(Templates + 3), applied : Seq(Contents),
                               missed : BOOLEAN,
                               found : [ Writes -> Contents ] \cup { << >> } ] ]
    /\ inits \in 0..MaxInits
    /\ version \in 0..MaxEdits
    /\ sole \in Projects \cup { Nobody }

\* The user's latest version of the Codex configuration is in the file or in
\* a backup, however many inits overlap, fail, are killed in the middle of a
\* rollback and are called again on what that left: create_backup_if_exists
\* comes before the first write, and init carries over what it has read.
UserNotLost ==
    \/ version = 0
    \/ disk[Config] \in Texts /\ disk[Config].user = version
    \/ \E b \in backups : b \in Texts /\ b.user = version

\* An init that put everything back (apply_writes_with_rollback without a
\* failure of its own) leaves the project's files as it found them, and the
\* configuration too if no other init and no user was at it meanwhile.
Restored ==
    \A p \in Projects : job[p].pc = "undone" =>
        \A i \in Writes : i > 1 \/ sole = p => disk[File(p, i)] = job[p].found[i]

\* An init that reports success leaves all files in agreement, whatever
\* killed and failed inits left before it: the env file has its token, the
\* templates name the project, and, if no other init and no user came in
\* between, Codex is sent to its port, the project is registered and the
\* user's part of the configuration is the one it found.
Deployed ==
    \A p \in Projects : job[p].pc = "ok" =>
        /\ disk[File(p, 2)] = Text(0, job[p].number)
        /\ \A i \in 3..(Templates + 2) : disk[File(p, i)] = Routed
        /\ sole = p =>
              /\ p \in registry
              /\ disk[Config] \in Texts
              /\ disk[Config].init = job[p].number
              /\ job[p].found[1] \in Texts => disk[Config].user = job[p].found[1].user

=============================================================================
