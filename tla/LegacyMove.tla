----------------------------- MODULE LegacyMove -----------------------------
(* The one-time move of the legacy archives (settings/data-move.ts) inside   *)
(* the first starts of a migration-capable service (settings/migration.ts,   *)
(* settings/startup.ts), on a Pi whose power goes with the motorcycle's.      *)
(*                                                                           *)
(* What is on the card and what is only in the page cache are told apart: a  *)
(* rename or a symbolic link is lost by a cut until its parent directory has  *)
(* been synced, a mode until sync(1) has returned.  Assumed of ext4: a rename *)
(* is lost or kept as a whole.  An archive is one directory, by its inode.    *)
EXTENDS Naturals

CONSTANTS NFolders,    \* the archives, in the order of the journal
          Named,       \* those whose location the settings document names
          MaxCuts,     \* bound: power cuts
          MaxFaults,   \* bound: steps that fail
          MaxMeddling  \* bound: changes made between two starts

ASSUME MoveAssumption == /\ NFolders \in Nat
                         /\ Named \subseteq 1..NFolders
                         /\ {MaxCuts, MaxFaults, MaxMeddling} \subseteq Nat

VARIABLES disk,      \* folder -> what its old and its new path name now
          card,      \* folder -> the same, as a cut would leave it
          modes,     \* folder -> "legacy" or "managed" permissions, now
          modesCard, \* folder -> the same, as a cut would leave them
          unsafe,    \* folders holding a link, a hard link or a special file
          journal,   \* the move journal as a reader sees it
          journalCard, \* the journal as a cut would leave it
          settings,  \* the settings document
          pc,        \* where the start of the service has got to
          at,        \* the journal entry being moved
          plan,      \* the journal in the memory of this start
          spent      \* counts against the three bounds

vars == <<disk, card, modes, modesCard, unsafe, journal, journalCard, settings,
          pc, at, plan, spent>>

Folders == 1..NFolders
\* Directories by inode: the archive, one this service or an earlier release made
\* at the old path, one found at the new path, one prepared there.
Inodes == {"old", "new", "rival", "stray", "prepared"}
Paths == [src : Inodes \cup {"none", "link"}, dst : Inodes \cup {"none"}]
Journals == [inode  : [Folders -> Inodes \cup {"none"}],
             linked : SUBSET Folders,
             state  : {"none", "open", "synced", "complete"}]

NoJournal == [inode  |-> [f \in Folders |-> "none"],
              linked |-> {},
              state  |-> "none"]
Moves(j) == {f \in Folders : j.inode[f] # "none"}
\* The next entry of the journal after the g-th, or NFolders + 1.
NextMove(j, g) ==
  CHOOSE f \in g + 1 .. NFolders + 1 :
    /\ f \in Moves(j) \cup {NFolders + 1}
    /\ \A e \in g + 1 .. f - 1 : e \notin Moves(j)

Starting == {"import", "prepare", "plan", "publish", "move", "parents", "modes",
             "link", "linked", "save", "flush", "mark", "prepareNew", "update",
             "commit", "finish"}

TypeOK ==
  /\ disk \in [Folders -> Paths] /\ card \in [Folders -> Paths]
  /\ modes \in [Folders -> {"legacy", "managed"}]
  /\ modesCard \in [Folders -> {"legacy", "managed"}]
  /\ unsafe \subseteq Folders
  /\ {journal, journalCard, plan} \subseteq Journals
  /\ settings \in [state : {"missing", "importing", "complete"},
                   where : [Folders -> {"src", "dst"}]]
  /\ pc \in Starting \cup {"off", "run", "paused"}
  /\ at \in 0 .. NFolders + 1
  /\ spent \in [cuts : 0..MaxCuts, faults : 0..MaxFaults, meddling : 0..MaxMeddling]

Init ==
  /\ disk \in [Folders -> [src : {"none", "old"}, dst : {"none", "stray"}]]
  /\ card = disk
  /\ modes = [f \in Folders |-> "legacy"] /\ modesCard = modes
  /\ unsafe \in SUBSET {f \in Folders : disk[f].src = "old"}
  /\ journal = NoJournal /\ journalCard = NoJournal /\ plan = NoJournal
  /\ settings = [state |-> "missing", where |-> [f \in Folders |-> "src"]]
  /\ pc = "off" /\ at = 0
  /\ spent = [cuts |-> 0, faults |-> 0, meddling |-> 0]

----------------------------------------------------------------------------
(* How a start of the service ends.                                          *)

MoveCompleted == journal.state = "complete"
Moved == settings.state = "complete" \/ MoveCompleted
\* Where the running service looks for an archive: the ride log and the service
\* data where the document says, the others by whether the move is over.
Where(f) == IF f \in Named THEN settings.where[f]
            ELSE IF Moved THEN "dst" ELSE "src"
Found(f, place) == IF place = "dst" \/ disk[f].src = "link"
                   THEN disk[f].dst ELSE disk[f].src

\* startup.ts makes the two named archives when nothing is there.
EnsureNamed(paths) ==
  [f \in Folders |->
     IF f \notin Named \/ Found(f, settings.where[f]) # "none" THEN paths[f]
     ELSE IF settings.where[f] = "src" THEN [paths[f] EXCEPT !.src = "new"]
     ELSE [paths[f] EXCEPT !.dst = "prepared"]]

\* The archives are writable: the recorders start.
WritersStart == /\ pc' = "run"
                /\ disk' = EnsureNamed(disk)
                /\ card' = EnsureNamed(card)

\* Mutant: the writers start after every failure.
StartFailsWritable == WritersStart
\* A start that refused or failed runs on, its archive writers paused once a
\* journal has been published, and while there are no settings.
StartFails == IF journal'.state = "none" /\ settings.state # "missing"
              THEN WritersStart
              ELSE pc' = "paused" /\ UNCHANGED <<disk, card>>

----------------------------------------------------------------------------
(* The steps of one start.                                                   *)

Boot ==
  /\ pc = "off"
  /\ IF settings.state = "complete" THEN WritersStart
     ELSE /\ pc' = IF settings.state = "missing" THEN "import"
                  ELSE IF MoveCompleted THEN "finish" ELSE "prepare"
          /\ UNCHANGED <<disk, card>>
  /\ plan' = NoJournal /\ at' = 0
  /\ UNCHANGED <<modes, modesCard, unsafe, journal, journalCard, settings, spent>>

\* store.initialise: the imported choices, the old locations among them, are on
\* the card before any journal is.
Import ==
  /\ pc = "import"
  /\ settings' = [settings EXCEPT !.state = "importing"]
  /\ pc' = "prepare"
  /\ UNCHANGED <<disk, card, modes, modesCard, unsafe, journal, journalCard, at, plan, spent>>

\* beforeDataMove: the pruner is installed and the capture service stopped.
Prepare ==
  /\ pc = "prepare"
  /\ pc' = "plan"
  /\ UNCHANGED <<disk, card, modes, modesCard, unsafe, journal, journalCard, settings,
                 at, plan, spent>>

\* A new plan is refused where something stands at a new path already.
Plannable == \A f \in Folders : disk[f].dst = "none"
Planned == IF journal.state # "none" THEN journal
           ELSE [NoJournal EXCEPT !.inode = [f \in Folders |-> disk[f].src]]
\* Mutant: only the trees at their new path are walked.
ValidatedMoved(j) == \A f \in Moves(j) : disk[f].dst \in Inodes => f \notin unsafe
\* Every tree of the journal is walked before any of them is moved.
Validated(j) == \A f \in Moves(j) : /\ f \notin unsafe
                                    /\ {disk[f].src, disk[f].dst} \cap Inodes # {}

PlanMoves ==
  /\ pc = "plan"
  /\ UNCHANGED <<modes, modesCard, unsafe, journal, journalCard, settings, at, spent>>
  /\ IF (journal.state = "none" => Plannable) /\ Validated(Planned)
     THEN /\ plan' = [Planned EXCEPT !.state = "open"]
          /\ pc' = "publish"
          /\ UNCHANGED <<disk, card>>
     ELSE StartFails /\ UNCHANGED plan

\* replaceFileDurably: on the card when it returns.
SaveJournal(j) == journal' = j /\ journalCard' = j
NextFolder(j, g) == /\ at' = NextMove(j, g)
                    /\ pc' = IF at' \in Moves(j) THEN "move" ELSE "flush"

Publish ==
  /\ pc = "publish"
  /\ SaveJournal(plan)
  /\ NextFolder(plan, 0)
  /\ UNCHANGED <<disk, card, modes, modesCard, unsafe, settings, plan, spent>>

Matches(inode) == inode = plan.inode[at]
\* Mutants: the new path is not looked at; a rename that was cut off is not taken up.
MayRenameOver == disk[at].src \in Inodes /\ Matches(disk[at].src)
RenamedNever == FALSE
MayRename == disk[at].src \in Inodes /\ Matches(disk[at].src) /\ disk[at].dst = "none"
Renamed == disk[at].src = "none" /\ Matches(disk[at].dst)
AlreadyLinked == disk[at].src = "link" /\ Matches(disk[at].dst)

\* resumeMove takes an entry up wherever an earlier start left it.
MoveFolder ==
  /\ pc = "move"
  /\ UNCHANGED <<modes, modesCard, unsafe, journal, journalCard, settings, at, plan, spent>>
  /\ \/ /\ MayRename
        /\ disk' = [disk EXCEPT ![at] = [src |-> "none", dst |-> disk[at].src]]
        /\ pc' = "parents" /\ UNCHANGED card
     \/ Renamed /\ pc' = "parents" /\ UNCHANGED <<disk, card>>
     \/ AlreadyLinked /\ pc' = "modes" /\ UNCHANGED <<disk, card>>
     \/ ~(MayRename \/ Renamed \/ AlreadyLinked) /\ StartFails

SyncFolder == card' = [card EXCEPT ![at] = disk[at]]

SyncParents ==
  /\ pc = "parents"
  /\ SyncFolder
  /\ pc' = "modes"
  /\ UNCHANGED <<disk, modes, modesCard, unsafe, journal, journalCard, settings, at, plan, spent>>

NormalisePermissions ==
  /\ pc = "modes"
  /\ modes' = [modes EXCEPT ![at] = "managed"]
  /\ pc' = IF disk[at].src = "link" THEN "linked" ELSE "link"
  /\ UNCHANGED <<disk, card, modesCard, unsafe, journal, journalCard, settings, at, plan, spent>>

LinkFolder ==
  /\ pc = "link"
  /\ disk' = [disk EXCEPT ![at].src = "link"]
  /\ pc' = "linked"
  /\ UNCHANGED <<card, modes, modesCard, unsafe, journal, journalCard, settings, at, plan, spent>>

SyncLink ==
  /\ pc = "linked"
  /\ SyncFolder
  /\ plan' = [plan EXCEPT !.linked = @ \cup {at}]
  /\ pc' = "save"
  /\ UNCHANGED <<disk, modes, modesCard, unsafe, journal, journalCard, settings, at, spent>>

SaveLinked ==
  /\ pc = "save"
  /\ SaveJournal(plan)
  /\ NextFolder(plan, at)
  /\ UNCHANGED <<disk, card, modes, modesCard, unsafe, settings, plan, spent>>

\* flushArchivePermissions: sync(1) has returned, everything is on the card.
FlushPermissions ==
  /\ pc = "flush"
  /\ card' = disk /\ modesCard' = modes
  /\ plan' = [plan EXCEPT !.state = "synced"]
  /\ pc' = "mark"
  /\ UNCHANGED <<disk, modes, unsafe, journal, journalCard, settings, at, spent>>

MarkSynced ==
  /\ pc = "mark"
  /\ SaveJournal(plan)
  /\ pc' = "prepareNew"
  /\ UNCHANGED <<disk, card, modes, modesCard, unsafe, settings, at, plan, spent>>

\* prepareArchiveDirectories makes what is not at its new path yet.
PreparedPaths(paths) ==
  [f \in Folders |-> IF paths[f].dst = "none"
                     THEN [paths[f] EXCEPT !.dst = "prepared"] ELSE paths[f]]
PrepareArchives ==
  /\ pc = "prepareNew"
  /\ disk' = PreparedPaths(disk) /\ card' = PreparedPaths(card)
  /\ pc' = "update"
  /\ UNCHANGED <<modes, modesCard, unsafe, journal, journalCard, settings, at, plan, spent>>

\* store.update: the document names the new locations.
UpdateSettings ==
  /\ pc = "update"
  /\ settings' = [settings EXCEPT !.where = [f \in Folders |-> "dst"]]
  /\ pc' = "commit"
  /\ UNCHANGED <<disk, card, modes, modesCard, unsafe, journal, journalCard, at, plan, spent>>

ReadyToCommit == journal.state = "synced" /\ journal.linked = Moves(journal)

FinishDataMove ==
  /\ pc = "commit"
  /\ IF ReadyToCommit
     THEN /\ SaveJournal([journal EXCEPT !.state = "complete"])
          /\ pc' = "finish" /\ UNCHANGED <<disk, card>>
     ELSE UNCHANGED <<journal, journalCard>> /\ StartFails
  /\ UNCHANGED <<modes, modesCard, unsafe, settings, at, plan, spent>>

\* finishLegacyImport, unless the recording key could not be read.
FinishImport ==
  /\ pc = "finish"
  /\ \/ settings' = [settings EXCEPT !.state = "complete"]
     \/ UNCHANGED settings
  /\ WritersStart
  /\ UNCHANGED <<modes, modesCard, unsafe, journal, journalCard, at, plan, spent>>
----------------------------------------------------------------------------
(* What may happen to a start, and between two starts.                       *)

Spend(what) == spent' = [spent EXCEPT ![what] = @ + 1]

\* What a step that saves the journal was writing.
BeingSaved == IF pc = "commit" THEN [journal EXCEPT !.state = "complete"] ELSE plan

\* A step throws; a journal may have been replaced and its entry not synced.
StepFails ==
  /\ pc \in Starting /\ spent.faults < MaxFaults
  /\ \/ UNCHANGED journal
     \/ /\ pc \in {"publish", "save", "mark", "commit"}
        /\ pc = "commit" => ReadyToCommit
        /\ journal' = BeingSaved
  /\ StartFails
  /\ Spend("faults")
  /\ UNCHANGED <<modes, modesCard, unsafe, journalCard, settings, at, plan>>

\* The power goes: each unsynced change is on the card or is not.
PowerCut ==
  /\ pc # "off" /\ spent.cuts < MaxCuts
  /\ \E kept, keptModes \in SUBSET Folders :
       /\ disk' = [f \in Folders |-> IF f \in kept THEN disk[f] ELSE card[f]]
       /\ modes' = [f \in Folders |-> IF f \in keptModes THEN modes[f] ELSE modesCard[f]]
  /\ journal' \in {journal, journalCard}
  /\ card' = disk' /\ modesCard' = modes' /\ journalCard' = journal'
  /\ pc' = "off" /\ plan' = NoJournal /\ at' = 0
  /\ Spend("cuts")
  /\ UNCHANGED <<unsafe, settings>>

\* The owner restarts the service, or the next ride does.
Restart ==
  /\ pc \in {"run", "paused"}
  /\ pc' = "off"
  /\ UNCHANGED <<disk, card, modes, modesCard, unsafe, journal, journalCard, settings,
                 at, plan, spent>>

\* Between two starts an earlier release runs once more and finds no archive at
\* the old path, somebody makes a directory at a new path, or puts a link into an
\* archive, or takes the links out.
Meddle ==
  /\ pc = "off" /\ spent.meddling < MaxMeddling
  /\ \/ \E f \in Folders : /\ disk[f].src = "none" /\ disk[f].dst # "rival"
                           /\ disk' = [disk EXCEPT ![f].src = "rival"]
                           /\ card' = [card EXCEPT ![f] = disk'[f]]
                           /\ UNCHANGED unsafe
     \/ \E f \in Folders : /\ disk[f].dst = "none"
                           /\ disk' = [disk EXCEPT ![f].dst = "stray"]
                           /\ card' = [card EXCEPT ![f] = disk'[f]]
                           /\ UNCHANGED unsafe
     \/ /\ unsafe' \in {unsafe \cup {f} : f \in Folders} \cup {{}}
        /\ UNCHANGED <<disk, card>>
  /\ Spend("meddling")
  /\ UNCHANGED <<modes, modesCard, journal, journalCard, settings, pc, at, plan>>

Start == \/ Boot \/ Import \/ Prepare \/ PlanMoves \/ Publish \/ MoveFolder
         \/ SyncParents \/ NormalisePermissions \/ LinkFolder \/ SyncLink
         \/ SaveLinked \/ FlushPermissions \/ MarkSynced \/ PrepareArchives
         \/ UpdateSettings \/ FinishDataMove \/ FinishImport
Next == Start \/ StepFails \/ PowerCut \/ Restart \/ Meddle

Spec == Init /\ [][Next]_vars
\* A start goes on by itself, and there is always another one: the service is
\* enabled and the Pi is switched on with the motorcycle.
FairSpec == Spec /\ WF_vars(Start) /\ WF_vars(Restart)

----------------------------------------------------------------------------
(* Properties.                                                               *)

Held(paths) == {paths.src, paths.dst} \cap Inodes

\* No step, cut or restart makes a directory disappear from both its paths: a
\* rename never lands on a directory and a lost one leaves the old name.
NothingLost == \A f \in Folders : Held(disk[f]) \subseteq Held(disk'[f])
NothingIsLost == [][NothingLost]_vars

\* An archive is renamed only when every tree of the journal has been walked and
\* found plain: a refusal over the last archive leaves the first one in place.
AllPlainOnRename ==
  (\E f \in Folders : disk[f].src \in Inodes /\ disk'[f].src = "none" /\ pc # "off")
    => Moves(journal) \cap unsafe = {}
RenamesOnlyPlainTrees == [][AllPlainOnRename]_vars

\* A completed journal says that every archive stands at its new path under its
\* old inode, with the link and the managed modes on the card, and that the
\* settings document names the new path already.
CompleteMeansMoved ==
  MoveCompleted =>
    \A f \in Folders :
      /\ settings.where[f] = "dst"
      /\ f \in Moves(journal) => /\ card[f] = [src |-> "link", dst |-> journal.inode[f]]
                                 /\ modesCard[f] = "managed"

\* While recorders run, each finds the archive where it looks for it, and never
\* a directory begun beside it.
WritersFindArchive ==
  pc = "run" => \A f \in Folders :
                  /\ "old" \in Held(disk[f]) => Found(f, Where(f)) = "old"
                  /\ f \in Named => Found(f, Where(f)) # "none"

\* Something the move has to leave to the owner.
Blocked ==
  \/ unsafe # {}
  \/ journal.state = "none" /\ ~Plannable
  \/ \E f \in Moves(journal) : ~(Held(disk[f]) \subseteq {journal.inode[f]})
\* However often it is cut off or fails, the move gets done unless it is blocked.
MoveGetsDone == []~Blocked => <>MoveCompleted
=============================================================================
