-------------------------------- MODULE Skills --------------------------------
(***************************************************************************)
(* The skills of a process, skills.py: one manager for all sessions, which *)
(* reads the directories of skills in order of precedence, commands that   *)
(* have it read them again, and a watcher that polls them and reloads the  *)
(* manager some time after a change.  The files belong to anybody: they    *)
(* are written in pieces, and removed, at any moment.                      *)
(***************************************************************************)
EXTENDS Integers, SequencesExt, FiniteSetsExt, Functions

CONSTANTS
    SkillNames,     \* names of skills
    Shared,         \* the directories of every project, lowest precedence first
    Projects,       \* work directories; each is the name of its own skills directory
    Slots,          \* where a skill may be: a directory of skills, and a folder in it
    WatchedProject, \* the project root the watcher is started with, or NoProject
    NoProject, NoFile, NoSkill,
    MaxEdits,       \* bound: changes of files
    MaxUnlisted     \* bound: directories that cannot be listed

ASSUME SkillsAssumption ==
    /\ {MaxEdits, MaxUnlisted} \subseteq Nat /\ NoProject \notin Projects
    /\ \A s \in Slots : s[1] \in Range(Shared) \cup Projects

VARIABLES
    file,       \* SKILL.md of each folder: the skill it names, how much of it is written, its mtime
    skills,     \* of the manager, by name
    loadedFor,  \* history: the project the manager was last loaded for
    watcher,    \* what the watcher does, and the snapshot it compares with
    halfway,    \* history: the last discovery did not get through
    missed,     \* history: a change between a first discovery and the first snapshot
    overtaken,  \* history: the last discovery read files that the snapshot does not show
    edits, faultsSeen

skillVars == <<file, skills, loadedFor, watcher, halfway, missed, overtaken, edits, faultsSeen>>

Directories(project) == Append(Shared, project)

SkillsInit ==
    /\ file = [s \in Slots |-> NoFile]
    /\ skills = [n \in SkillNames |-> NoSkill]
    /\ loadedFor = NoProject
    /\ watcher = [step |-> "off", seen |-> << >>]
    /\ halfway = FALSE /\ missed = FALSE /\ overtaken = FALSE /\ edits = 0 /\ faultsSeen = 0

-----------------------------------------------------------------------------
(* Files *)

(* A file is emptied, gets its head, and is complete: the parser takes it  *)
(* for a skill as soon as the head is there.                               *)
Pieces == {"empty", "head", "whole"}

Edit(slot) ==
    /\ edits < MaxEdits /\ edits' = edits + 1
    /\ \/ /\ \E n \in SkillNames, piece \in Pieces :
                file' = [file EXCEPT ![slot] = [name |-> n, piece |-> piece, mtime |-> edits + 1]]
       \/ file[slot] # NoFile /\ file' = [file EXCEPT ![slot] = NoFile]
    /\ missed' = (missed \/ (watcher.step \in {"off", "starting"} /\ loadedFor # NoProject))
    /\ UNCHANGED <<skills, loadedFor, watcher, halfway, overtaken, faultsSeen>>

-----------------------------------------------------------------------------
(* What the watcher looks at *)

(* The times of the files, and nothing of a project that it was not        *)
(* started for.                                                            *)
Watched == Range(Shared) \cup ({WatchedProject} \ {NoProject})

TakeSnapshot == [s \in {x \in Slots : x[1] \in Watched /\ file[x] # NoFile} |-> file[s].mtime]

-----------------------------------------------------------------------------
(* Discovery *)

(* _parse_skill_file: what names no skill is left out.                     *)
Parsed(slot) == file[slot] # NoFile /\ file[slot].piece # "empty"

Skill(slot) == [slot |-> slot, file |-> file[slot]]

Found(place, n) == {Skill(s) : s \in {x \in Slots : x[1] = place /\ Parsed(x) /\ file[x].name = n}}

(* A directory is listed in any order, and of two skills of one name the   *)
(* later one stays.                                                        *)
LastStays(before, found) == IF found = {} THEN before ELSE found

(* What discover_skills may take for a name from these directories.        *)
Candidates(places, n) == FoldLeft(LAMBDA before, place : LastStays(before, Found(place, n)), {NoSkill}, places)

(* What is read may be another state of the files than the snapshot is of. *)
Overtakes == overtaken' = (watcher.step # "off" /\ watcher.seen # TakeSnapshot)

(* The manager is cleared first: a directory that cannot be listed leaves  *)
(* it with the skills of those before.                                     *)
Discover(project) ==
    /\ \E listed \in 0..Len(Directories(project)) :
          /\ \E found \in [SkillNames -> {NoSkill} \cup {Skill(s) : s \in {x \in Slots : Parsed(x)}}] :
                /\ \A n \in SkillNames : found[n] \in Candidates(SubSeq(Directories(project), 1, listed), n)
                /\ skills' = found
          /\ halfway' = (listed < Len(Directories(project)))
          /\ faultsSeen' = faultsSeen + (IF halfway' THEN 1 ELSE 0)
    /\ faultsSeen' <= MaxUnlisted
    /\ loadedFor' = project /\ Overtakes

-----------------------------------------------------------------------------
(* Whoever uses the manager *)

(* The watcher and the commands are tasks of one loop: none comes between  *)
(* its snapshot and what it reads.                                         *)
Between == watcher.step \notin {"starting", "reload", "reloaded"}

(* /skills list and show, and /skill:<name>, for the session's directory.  *)
Command(project) ==
    /\ Between /\ Discover(project)
    /\ UNCHANGED <<file, watcher, missed, edits>>

(* A prompt has the skills read when there are none.                       *)
Prompted(project) ==
    /\ \A n \in SkillNames : skills[n] = NoSkill
    /\ Between /\ Discover(project)
    /\ UNCHANGED <<file, watcher, missed, edits>>

-----------------------------------------------------------------------------
(* The watcher *)

(* The server reads the skills, and starts the watcher then.               *)
FirstDiscovery ==
    /\ watcher.step = "off"
    /\ Discover(IF WatchedProject = NoProject THEN CHOOSE p \in Projects : TRUE ELSE WatchedProject)
    /\ watcher' = [watcher EXCEPT !.step = "starting"]
    /\ UNCHANGED <<file, missed, edits>>

(* The bot starts it alone.                                                *)
Start ==
    /\ watcher.step \in {"off", "starting"}
    /\ watcher' = [step |-> "asleep", seen |-> TakeSnapshot]
    /\ UNCHANGED <<file, skills, loadedFor, halfway, missed, overtaken, edits, faultsSeen>>

Poll ==
    /\ watcher.step = "asleep" /\ TakeSnapshot # watcher.seen
    /\ watcher' = [watcher EXCEPT !.step = "debounce"]
    /\ UNCHANGED <<file, skills, loadedFor, halfway, missed, overtaken, edits, faultsSeen>>

Debounced ==
    /\ watcher.step = "debounce"
    /\ watcher' = [step |-> "reload", seen |-> TakeSnapshot]
    /\ UNCHANGED <<file, skills, loadedFor, halfway, missed, overtaken, edits, faultsSeen>>

(* Mutant: what is remembered is looked at after the skills were read. *)
LookedAtAfter(seen) == TakeSnapshot

Remembered(seen) == seen

(* An exception is logged.                                                 *)
SafeReload ==
    /\ watcher.step = "reload"
    /\ Discover(IF WatchedProject = NoProject THEN CHOOSE p \in Projects : TRUE ELSE WatchedProject)
    /\ watcher' = [step |-> "reloaded", seen |-> watcher.seen]
    /\ UNCHANGED <<file, missed, edits>>

Sleep ==
    /\ watcher.step = "reloaded"
    /\ watcher' = [step |-> "asleep", seen |-> Remembered(watcher.seen)]
    /\ UNCHANGED <<file, skills, loadedFor, halfway, missed, overtaken, edits, faultsSeen>>

SkillsNext ==
    \/ \E s \in Slots : Edit(s)
    \/ \E p \in Projects : Command(p) \/ Prompted(p)
    \/ FirstDiscovery \/ Start \/ Poll \/ Debounced \/ SafeReload \/ Sleep

-----------------------------------------------------------------------------
(* Properties *)

(* What a name stands for: a skill of the last directory that has one.     *)
IsTheSkill(project, n, skill) ==
    LET places == Directories(project)
        some   == {i \in DOMAIN places : Found(places[i], n) # {}}
    IN  IF some = {} THEN skill = NoSkill ELSE skill \in Found(places[Max(some)], n)

(* While the watcher sees no change, the skills are those of the files, at *)
(* their present state, however the files were written: unless the last    *)
(* discovery failed, or came between a change and the snapshot that shows  *)
(* it (and the change was undone), a change came before the first one, or  *)
(* the skills are those of a project that is not watched.                  *)
SkillsAreTheFiles ==
    (/\ watcher.step = "asleep" /\ watcher.seen = TakeSnapshot
     /\ ~halfway /\ ~missed /\ ~overtaken /\ loadedFor = WatchedProject)
    => \A n \in SkillNames : IsTheSkill(WatchedProject, n, skills[n])

(* However far it got, a discovery leaves no skill of another project.     *)
SkillsAreOwn ==
    \A n \in SkillNames : skills[n] # NoSkill =>
        skills[n].slot[1] \in Range(Directories(loadedFor)) /\ skills[n].file.name = n

(* The skills of the process are those of its files, by precedence         *)
(* (skills.SkillManager, SkillWatcher).                                    *)
SkillsAreSound == SkillsAreTheFiles /\ SkillsAreOwn

=============================================================================
