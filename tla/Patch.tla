-------------------------------- MODULE Patch --------------------------------
(***************************************************************************)
(* The apply_patch tool (apply_patch.py): a patch is parsed line by line,  *)
(* every operation is computed on the files as they are read, and then the *)
(* results are written one by one, with a rollback when a step fails.      *)
(* Other tools may write the same files in between.                        *)
(*                                                                         *)
(* A line of a file is [word, lead, ended]: a word is a sequence of        *)
(* symbols, lead its indentation, and only the last line of a file may not *)
(* be ended.  Trailing blanks, which no comparison sees, are left out.     *)
(***************************************************************************)
EXTENDS Integers, SequencesExt, FiniteSetsExt, Functions

CONSTANTS
    Paths,           \* files of the workspace
    Folder,          \* the directory of a path, or Root
    Root,            \* the workspace
    None,            \* no such file
    Contents,        \* what the files hold in the beginning
    Patches,         \* the patches that are written: sequences of operations
    MaxFaults,       \* bound: steps that fail
    MaxWrites        \* bound: writes of others

ASSUME PatchAssumption ==
    /\ Folder \in [Paths -> Range(Folder)] /\ {MaxFaults, MaxWrites} \subseteq Nat
    /\ None \notin Paths

VARIABLES
    text,            \* the lines of the patch
    files,           \* what is in a file, or None
    folders,         \* directories that exist
    read,            \* history: the files when they were read
    plan,            \* the steps to do
    saved,           \* originals and missing directories
    at,              \* how far it is
    lost,            \* rollback_errors
    foreign,         \* history: what others wrote since
    left             \* faults and writes of others still possible

patchVars == <<text, files, folders, read, plan, saved, at, lost, foreign, left>>
-----------------------------------------------------------------------------
(* The text of a patch: a line is [kind, arg].                             *)
Line(kind, arg) == [kind |-> kind, arg |-> arg]

Op(type, path, move, content, hunks) ==
    [type |-> type, path |-> path, move |-> move, content |-> content, hunks |-> hunks]

HunkText(h) ==
    (IF h.anchors = << >> THEN <<Line("at", << >>)>>
     ELSE [i \in DOMAIN h.anchors |-> Line("at", h.anchors[i])])
    \o [i \in DOMAIN h.lines |-> Line("body", h.lines[i])]

OpText(op) ==
    <<Line(op.type, op.path)>>
    \o (IF op.move = None THEN << >> ELSE <<Line("move", op.move)>>)
    \o [i \in DOMAIN op.content |-> Line("body", op.content[i])]
    \o FlattenSeq([i \in DOMAIN op.hunks |-> HunkText(op.hunks[i])])

Written(patch) ==
    <<Line("junk", None), Line("begin", None)>>
    \o FlattenSeq([i \in DOMAIN patch |-> OpText(patch[i])])
    \o <<Line("end", None), Line("junk", None)>>

(* The one hunk that an operation collects its anchors and lines in. *)
WithHunk(op) ==
    IF op.hunks = << >> THEN [op EXCEPT !.hunks = <<[anchors |-> << >>, lines |-> << >>]>>] ELSE op

Anchored(op, arg) ==
    IF arg = << >> THEN WithHunk(op) ELSE [WithHunk(op) EXCEPT !.hunks[1].anchors = Append(@, arg)]

(* What a line adds to the last operation; fresh is true right behind the  *)
(* header of an update, where alone a move may stand.                      *)
InOp(op, line, fresh) ==
    CASE op.type = "add" /\ line.kind = "body" /\ line.arg.sign = "+" ->
            [op EXCEPT !.content = Append(@, line.arg)]
      [] op.type = "update" /\ line.kind = "move" /\ fresh -> [op EXCEPT !.move = line.arg]
      [] op.type = "update" /\ line.kind = "at" -> Anchored(op, line.arg)
      [] op.type = "update" /\ line.kind = "body" ->
            [WithHunk(op) EXCEPT !.hunks[1].lines = Append(@, line.arg)]
      [] OTHER -> op

ParseLine(st, line) ==
    CASE st.mode = "before" ->
            IF line.kind = "begin" THEN [st EXCEPT !.mode = "in"] ELSE st
      [] st.mode = "in" /\ line.kind = "end" -> [st EXCEPT !.mode = "done"]
      [] st.mode = "in" /\ line.kind \in {"add", "delete", "update"} ->
            [st EXCEPT !.ops = Append(@, Op(line.kind, line.arg, None, << >>, << >>)),
                       !.fresh = TRUE]
      [] st.mode = "in" /\ st.ops # << >> ->
            [st EXCEPT !.ops = Append(Front(@), InOp(Last(@), line, st.fresh)), !.fresh = FALSE]
      [] OTHER -> st

(* Without a beginning there is no patch; without an end it ends with the  *)
(* text.                                                                   *)
Parse(lines) == FoldLeft(ParseLine, [mode |-> "before", ops |-> << >>, fresh |-> FALSE], lines)
-----------------------------------------------------------------------------
(* Lines of a hunk and of a file, compared as they are or without blanks.  *)
Same(l, h) == l.word = h.word /\ l.lead = h.lead
Alike(l, h) == l.word = h.word

Source(h) == SelectSeq(h.lines, LAMBDA l : l.sign # "+")

(* Where the scope of the anchors begins, each at or behind the one before;*)
(* 0 if one of them is missing.                                            *)
AnchorStart(lines, anchors) ==
    FoldLeft(LAMBDA from, a :
                 LET found == {i \in DOMAIN lines : i >= from /\ lines[i].word = a}
                 IN  IF from = 0 \/ found = {} THEN 0 ELSE Min(found),
             1, anchors)

(* Where the source of a hunk has room in its scope; of these places, those *)
(* where it stands exactly, and those where its context may be indented    *)
(* differently.                                                            *)
Places(lines, h) ==
    LET start == AnchorStart(lines, h.anchors)
    IN  {i \in DOMAIN lines : start > 0 /\ i >= start /\ i + Len(Source(h)) - 1 <= Len(lines)}

Exact(lines, h) ==
    {i \in Places(lines, h) : \A j \in DOMAIN Source(h) : Same(lines[i + j - 1], Source(h)[j])}

Fuzzy(lines, h) ==
    {i \in Places(lines, h) : \A j \in DOMAIN Source(h) :
        LET l == lines[i + j - 1]  s == Source(h)[j]
        IN  IF s.sign = "-" THEN Same(l, s) ELSE Alike(l, s)}

Locate(lines, h) ==
    LET fuzzy == IF \E l \in Range(h.lines) : l.sign = "-" THEN Fuzzy(lines, h) ELSE {}
    IN  IF Exact(lines, h) # {} THEN Min(Exact(lines, h))
        ELSE IF fuzzy # {} THEN Min(fuzzy) ELSE 0

Added(l) == [word |-> l.word, lead |-> l.lead, ended |-> TRUE]

(* The lines of a hunk, with the context as the file has it.               *)
Woven(lines, h, start) ==
    FoldLeft(LAMBDA st, l :
                 CASE l.sign = " " -> [out |-> Append(st.out, lines[st.pos]), pos |-> st.pos + 1]
                   [] l.sign = "-" -> [st EXCEPT !.pos = @ + 1]
                   [] OTHER -> [st EXCEPT !.out = Append(@, Added(l))],
             [out |-> << >>, pos |-> start], h.lines).out

(* Where a hunk that only adds does so: behind the first line with the     *)
(* first of its anchors that occurs at all, or at the end.                 *)
InsertPoint(lines, h) ==
    LET with == {i \in DOMAIN h.anchors : \E l \in Range(lines) : l.word = h.anchors[i]}
    IN  IF h.anchors = << >> THEN Len(lines)
        ELSE IF with = {} THEN -1
        ELSE Min({i \in DOMAIN lines : lines[i].word = h.anchors[Min(with)]})

Failed == <<None>>

ApplyHunk(lines, h) ==
    LET n     == Len(Source(h))
        start == IF n = 0 THEN InsertPoint(lines, h) + 1 ELSE Locate(lines, h)
    IN  IF lines = Failed \/ start = 0 THEN Failed
        ELSE SubSeq(lines, 1, start - 1) \o Woven(lines, h, start)
                \o SubSeq(lines, start + n, Len(lines))

(* The text of lines that are written one after the other: what is not     *)
(* ended continues with the next line.                                     *)
Joined(lines) ==
    FoldLeft(LAMBDA done, l :
                 IF done # << >> /\ ~Last(done).ended
                 THEN Append(Front(done), [Last(done) EXCEPT !.word = @ \o l.word, !.ended = l.ended])
                 ELSE Append(done, l),
             << >>, lines)
-----------------------------------------------------------------------------
(* The paths of an operation.  A patch names no path twice.                *)
Named(op) == {op.path} \union (IF op.move = None THEN {} ELSE {op.move})

Distinct(ops) == \A i, j \in DOMAIN ops : i # j => Named(ops[i]) \cap Named(ops[j]) = {}

Patched(op, fs) == FoldLeft(ApplyHunk, fs[op.path], op.hunks)

Applies(op, fs) ==
    CASE op.type = "add" -> fs[op.path] = None
      [] op.type = "delete" -> fs[op.path] # None
      [] OTHER -> fs[op.path] # None /\ Patched(op, fs) # Failed

Target(op) == IF op.move = None THEN op.path ELSE op.move

(* The steps of an operation, by kind: directories, writes, deletions.     *)
Step(do, path, content) == [do |-> do, path |-> path, content |-> content]

Steps(op, fs, do) ==
    CASE do = "mkdir" /\ (op.type = "add" \/ (op.type = "update" /\ Target(op) # op.path)) ->
            <<Step("mkdir", Target(op), None)>>
      [] do = "write" /\ op.type = "add" ->
            <<Step("write", op.path, [i \in DOMAIN op.content |-> Added(op.content[i])])>>
      [] do = "write" /\ op.type = "update" ->
            <<Step("write", Target(op), Joined(Patched(op, fs)))>>
      [] do = "delete" /\ (op.type = "delete" \/ (op.type = "update" /\ Target(op) # op.path)) ->
            <<Step("delete", op.path, None)>>
      [] OTHER -> << >>

PlanOf(ops, fs) ==
    FlattenSeq([n \in 1..3 |->
        FlattenSeq([i \in DOMAIN ops |-> Steps(ops[i], fs, <<"mkdir", "write", "delete">>[n])])])
-----------------------------------------------------------------------------
PatchInit ==
    /\ \E patch \in Patches : text = Written(patch)
    /\ files \in [Paths -> Contents \union {None}]
    /\ folders \in SUBSET (Range(Folder) \ {Root})
    /\ \A p \in Paths : files[p] # None => Folder[p] \in folders \union {Root}
    /\ read = files /\ plan = << >> /\ saved = << >>
    /\ at = [phase |-> "parse", step |-> 0] /\ lost = {} /\ foreign = {}
    /\ left = [faults |-> MaxFaults, writes |-> MaxWrites]

ThePatch == Parse(text).ops

Fault == left.faults > 0 /\ left' = [left EXCEPT !.faults = @ - 1]

(* The whole patch is computed before anything is written.                 *)
Compute ==
    /\ at.phase = "parse"
    /\ read' = files /\ foreign' = {}
    /\ IF Distinct(ThePatch) /\ \A op \in Range(ThePatch) : Applies(op, files)
       THEN plan' = PlanOf(ThePatch, files) /\ at' = [phase |-> "save", step |-> 1]
       ELSE plan' = plan /\ at' = [phase |-> "rejected", step |-> 0]
    /\ UNCHANGED <<text, files, folders, saved, lost, left>>

(* What there is to go back to. *)
Save ==
    LET steps == SelectSeq(plan, LAMBDA s : s.do # "mkdir")
    IN  /\ at.phase = "save"
        /\ saved' = [files |-> [i \in DOMAIN steps |-> [path |-> steps[i].path, was |-> files[steps[i].path]]],
                     missing |-> {Folder[s.path] : s \in Range(plan)} \ (folders \union {Root})]
        /\ at' = [at EXCEPT !.phase = "commit"]
        /\ UNCHANGED <<text, files, folders, read, plan, lost, foreign, left>>

Commit ==
    LET s == plan[at.step]
    IN  /\ at.phase = "commit" /\ at.step <= Len(plan)
        /\ s.do = "delete" => files[s.path] # None
        /\ folders' = IF s.do = "mkdir" THEN folders \union ({Folder[s.path]} \ {Root}) ELSE folders
        /\ files' = IF s.do = "mkdir" THEN files ELSE [files EXCEPT ![s.path] = s.content]
        /\ at' = [at EXCEPT !.step = @ + 1]
        /\ UNCHANGED <<text, read, plan, saved, lost, foreign, left>>

(* A step fails; a write may have emptied the file by then.                *)
CommitFails(torn) ==
    LET s == plan[at.step]
    IN  /\ at.phase = "commit" /\ at.step <= Len(plan)
        /\ IF s.do = "delete" /\ files[s.path] = None THEN UNCHANGED left ELSE Fault
        /\ torn => s.do = "write"
        /\ files' = IF torn THEN [files EXCEPT ![s.path] = << >>] ELSE files
        /\ at' = [phase |-> "rollback", step |-> 1]
        /\ UNCHANGED <<text, folders, read, plan, saved, lost, foreign>>

Committed ==
    /\ at.phase = "commit" /\ at.step > Len(plan)
    /\ at' = [phase |-> "done", step |-> 0]
    /\ UNCHANGED <<text, files, folders, read, plan, saved, lost, foreign, left>>

(* A bug: what did not exist before is left behind.                        *)
KeepsWritten(path, was) == IF was = None THEN files ELSE [files EXCEPT ![path] = was]

(* Every file gets its original back, those not reached yet too. *)
Restore(path, was) == [files EXCEPT ![path] = was]

RollBack ==
    LET s == saved.files[at.step]
    IN  /\ at.phase = "rollback" /\ at.step <= Len(saved.files)
        /\ files' = Restore(s.path, s.was)
        /\ folders' = IF s.was = None THEN folders ELSE folders \union ({Folder[s.path]} \ {Root})
        /\ at' = [at EXCEPT !.step = @ + 1]
        /\ UNCHANGED <<text, read, plan, saved, lost, foreign, left>>

RollBackFails ==
    LET s == saved.files[at.step]
    IN  /\ at.phase = "rollback" /\ at.step <= Len(saved.files)
        /\ Fault
        /\ lost' = lost \union {s.path}
        /\ at' = [at EXCEPT !.step = @ + 1]
        /\ UNCHANGED <<text, files, folders, read, plan, saved, foreign>>

(* The directories that were made are removed where they are empty.        *)
RolledBack ==
    LET used == {Folder[p] : p \in {q \in Paths : files[q] # None}}
    IN  /\ at.phase = "rollback" /\ at.step > Len(saved.files)
        /\ folders' = folders \ (saved.missing \ used)
        /\ at' = [phase |-> "failed", step |-> 0]
        /\ UNCHANGED <<text, files, read, plan, saved, lost, foreign, left>>

(* Another tool, in another thread, writes or deletes a file.              *)
Meanwhile(path, content) ==
    /\ at.phase \notin {"done", "failed", "rejected"} /\ left.writes > 0
    /\ content # files[path] /\ Folder[path] \in folders \union {Root}
    /\ files' = [files EXCEPT ![path] = content]
    /\ foreign' = foreign \union {path}
    /\ left' = [left EXCEPT !.writes = @ - 1]
    /\ UNCHANGED <<text, folders, read, plan, saved, at, lost>>

PatchNext ==
    \/ Compute
    \/ Save
    \/ Commit
    \/ \E torn \in BOOLEAN : CommitFails(torn)
    \/ Committed
    \/ RollBack
    \/ RollBackFails
    \/ RolledBack
    \/ \E p \in Paths, c \in Contents \union {None} : Meanwhile(p, c)
-----------------------------------------------------------------------------
(* What is in a text is what is parsed: the operations in their order,     *)
(* each with its own lines, as long as each has one hunk (PatchParser).    *)
ParseIsExact ==
    \A patch \in Patches : (\A op \in Range(patch) : Len(op.hunks) <= 1) =>
        Parse(Written(patch)).ops = patch


(* A patch is applied as a whole or, when a step fails and every file      *)
(* could be restored, not at all, and files that it does not name are left *)
(* alone; what others wrote in the meantime aside (_commit_changes).       *)
AllOrNothing ==
    \A p \in Paths \ foreign :
        /\ at.phase \in {"parse", "save", "rejected"} => files[p] = read[p]
        /\ p \notin UNION {Named(op) : op \in Range(ThePatch)} => files[p] = read[p]
        /\ at.phase = "failed" /\ p \notin lost => files[p] = read[p]
        /\ at.phase = "done" =>
              \A op \in Range(ThePatch) :
                 /\ op.type = "delete" /\ p = op.path => files[p] = None
                 /\ op.type = "update" /\ op.move \notin {None, op.path} =>
                       /\ p = op.path => files[p] = None
                       /\ p = op.move => files[p] # None

(* A place behind the anchors of a hunk, one after the other; a hunk that  *)
(* only adds stands right behind any of them, or at the end.               *)
Behind(old, h, i) ==
    IF Source(h) = << >>
    THEN IF h.anchors = << >> THEN i = Len(old) + 1
         ELSE i > 1 /\ old[i - 1].word \in Range(h.anchors)
    ELSE \E k \in [DOMAIN h.anchors -> 1..i] :
            \A a \in DOMAIN k : /\ old[k[a]].word = h.anchors[a]
                                /\ a > 1 => k[a - 1] <= k[a]

(* A file that ends with a line break is changed in one block, at a place  *)
(* behind its anchors, where the file has what the hunk says it has; every *)
(* other line stays; and no added line is glued to another (_apply_hunk).  *)
ChangedInPlace(old, h, new) ==
    \E i \in 1..(Len(old) + 1) :
       LET n     == Len(Source(h))
           kept  == SelectSeq(h.lines, LAMBDA l : l.sign # "-")
           block == SubSeq(new, i, i + Len(kept) - 1)
       IN  /\ i + n - 1 <= Len(old)
           /\ Len(new) = Len(old) + Len(kept) - n
           /\ SubSeq(new, 1, i - 1) = SubSeq(old, 1, i - 1)
           /\ SubSeq(new, i + Len(kept), Len(new)) = SubSeq(old, i + n, Len(old))
           /\ \A j \in DOMAIN kept : Alike(block[j], kept[j])
           /\ \A j \in 1..n : Alike(old[i + j - 1], Source(h)[j])
           /\ \A j \in 1..n : Source(h)[j].sign = "-" => Same(old[i + j - 1], Source(h)[j])
           /\ \A l \in Range(new) : l.ended
           /\ Behind(old, h, i)

HunksAreExact ==
    at.phase = "done" =>
        \A op \in Range(ThePatch) :
            (/\ op.type = "update" /\ Len(op.hunks) = 1 /\ Target(op) \notin foreign
             /\ read[op.path] # << >> => Last(read[op.path]).ended)
            => ChangedInPlace(read[op.path], op.hunks[1], files[Target(op)])

(* A directory that was made for a patch that failed is gone again.        *)
FoldersAreGone ==
    at.phase = "failed" /\ foreign = {} /\ lost = {} => folders \cap saved.missing = {}

(* A patch does what it says, as a whole, or nothing.                      *)
PatchIsAtomic == AllOrNothing /\ HunksAreExact /\ FoldersAreGone /\ ParseIsExact
=============================================================================
