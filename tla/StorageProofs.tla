---------------------------- MODULE StorageProofs ----------------------------
(* What is on the card of a motorcycle whose power goes at any moment.          *)
(*                                                                             *)
(* The move of the legacy archives, for any number of archives, power cuts,     *)
(* failing steps and changes by hand: no directory disappears from both its     *)
(* paths, an archive is renamed only when every tree of the journal has been    *)
(* walked and found plain, and the recorders find it where they look for it.    *)
(*                                                                             *)
(* NothingIsLost is a promise about cuts as much as about steps, and a cut      *)
(* restores what is on the card.  So the card must hold everything the running  *)
(* system sees (CardHolds), and the system may run ahead of the card only while *)
(* the journal says that a move is open (AheadWhileOpen): recorders, which make *)
(* directories at both, start when it does not.  How far the journal is at each *)
(* step of a start is Course; a complete one never turns open again            *)
(* (CompleteStays).  The trees walked by the plan stay plain until it is over   *)
(* (WalkedIsPlain), as nobody changes them during a start.  Where the archives  *)
(* are for the recorders is Located, in the second part.                        *)
(*                                                                             *)
(* The ride log, for any number of readings and failing appends and any sizes   *)
(* of the buffer and of a seal: a cut leaves a ride without a gap, no segment   *)
(* is labelled with a better clock than its readings had, and a flush keeps its *)
(* promise.  No row is lost while the process runs (NoneLost) and rows wait in  *)
(* their order (InOrder); so a segment is only ever written on top of older     *)
(* rows that are flushed already (Founded), and what a caller asked for is on   *)
(* the card or in the seal it waits for (Promised).                             *)
EXTENDS LegacyMove, RideLog, SequenceTheorems, NaturalsInduction, WellFoundedInduction, TLAPS

Moving == {"move", "parents", "modes", "link", "linked", "save", "flush"}

IsJournal(j) == j = [inode |-> j.inode, linked |-> j.linked, state |-> j.state]
Typed ==
  /\ disk \in [Folders -> Paths] /\ card \in [Folders -> Paths]
  /\ IsJournal(journal) /\ IsJournal(journalCard) /\ IsJournal(plan)
  /\ settings \in [state : {"missing", "importing", "complete"}, where : [Folders -> {"src", "dst"}]]

Course ==
  /\ pc \in Moving \ {"flush"} => at \in Folders
  /\ pc \in Moving \cup {"publish"} => plan.state = "open"
  /\ pc \in Moving => /\ journal.state = "open" /\ journalCard.state = "open"
                      /\ journal.inode = plan.inode
  /\ pc = "mark" => plan.state = "synced" /\ disk = card
  /\ pc \in {"prepareNew", "update", "commit"} => journal.state = "synced" /\ journalCard.state = "synced"
  /\ pc = "finish" => journal.state = "complete"
  /\ pc \in {"parents", "modes", "link"} => disk[at].src \notin Inodes

CompleteStays ==
  /\ MoveCompleted \/ settings.state = "complete"
       => journal.state \in {"synced", "complete"} /\ journalCard.state \in {"synced", "complete"}
  /\ settings.state = "complete" => pc \in {"off", "run"}

AheadWhileOpen == journal.state # "open" => disk = card

CardHolds ==
  \A f \in Folders : /\ Held(card[f]) = Held(disk[f])
                     /\ disk[f].src \in Inodes => card[f].src = disk[f].src

WalkedIsPlain == pc \in Moving \cup {"publish"} => Moves(plan) \cap unsafe = {}

IInv == Typed /\ Course /\ CompleteStays /\ AheadWhileOpen /\ CardHolds /\ WalkedIsPlain

(* What a step may do to the paths: nothing is lost, and but for MoveFolder's   *)
(* nothing is renamed away.                                                     *)
InPlace == \A f \in Folders : disk[f].src \in Inodes => disk'[f].src # "none"
Gentle == NothingLost /\ InPlace

-----------------------------------------------------------------------------
(* Where the system and the card are equal, so are they after a directory was  *)
(* made at both, and nothing is in its way.                                    *)
LEMMA EqualIsHeld ==
  ASSUME disk' = card'
  PROVE  CardHolds' /\ AheadWhileOpen'
BY DEF CardHolds, AheadWhileOpen

LEMMA Ensured ==
  ASSUME Typed, NEW f \in Folders
  PROVE  \/ EnsureNamed(disk)[f] = disk[f]
         \/ /\ disk[f].src = "none" \/ (disk[f].src = "link" /\ disk[f].dst = "none")
            /\ EnsureNamed(disk)[f] = [src |-> "new", dst |-> disk[f].dst]
         \/ disk[f].dst = "none" /\ EnsureNamed(disk)[f] = [src |-> disk[f].src, dst |-> "prepared"]
<1>1. disk[f] = [src |-> disk[f].src, dst |-> disk[f].dst] /\ settings.where[f] \in {"src", "dst"}
  BY DEF Typed, Paths
<1>2. CASE f \notin Named \/ Found(f, settings.where[f]) # "none"
  BY <1>2 DEF EnsureNamed
<1>3. CASE f \in Named /\ Found(f, settings.where[f]) = "none" /\ settings.where[f] = "src"
  <2>1. EnsureNamed(disk)[f] = [disk[f] EXCEPT !.src = "new"]
    BY <1>3 DEF EnsureNamed
  <2>2. EnsureNamed(disk)[f] = [src |-> "new", dst |-> disk[f].dst]
    BY <1>1, <2>1
  <2> QED BY <1>3, <2>2 DEF Found
<1>4. CASE f \in Named /\ Found(f, settings.where[f]) = "none" /\ settings.where[f] = "dst"
  <2>1. EnsureNamed(disk)[f] = [disk[f] EXCEPT !.dst = "prepared"]
    BY <1>4 DEF EnsureNamed
  <2>2. EnsureNamed(disk)[f] = [src |-> disk[f].src, dst |-> "prepared"]
    BY <1>1, <2>1
  <2> QED BY <1>4, <2>2 DEF Found
<1> QED BY <1>1, <1>2, <1>3, <1>4

LEMMA EnsureIsGentle ==
  ASSUME Typed
  PROVE  /\ EnsureNamed(disk) \in [Folders -> Paths]
         /\ \A f \in Folders : /\ Held(disk[f]) \subseteq Held(EnsureNamed(disk)[f])
                               /\ disk[f].src \in Inodes => EnsureNamed(disk)[f].src # "none"
<1> SUFFICES ASSUME NEW f \in Folders
             PROVE  /\ EnsureNamed(disk)[f] \in Paths
                    /\ Held(disk[f]) \subseteq Held(EnsureNamed(disk)[f])
                    /\ disk[f].src \in Inodes => EnsureNamed(disk)[f].src # "none"
  BY DEF EnsureNamed
<1>1. disk[f] \in Paths /\ disk[f] = [src |-> disk[f].src, dst |-> disk[f].dst]
  BY DEF Typed, Paths
<1>2. CASE EnsureNamed(disk)[f] = disk[f]
  BY <1>1, <1>2 DEF Inodes
<1>3. CASE /\ disk[f].src \in {"none", "link"}
           /\ EnsureNamed(disk)[f] = [src |-> "new", dst |-> disk[f].dst]
  BY <1>1, <1>3 DEF Held, Paths, Inodes
<1>4. CASE disk[f].dst = "none" /\ EnsureNamed(disk)[f] = [src |-> disk[f].src, dst |-> "prepared"]
  BY <1>1, <1>4 DEF Held, Paths, Inodes
<1> QED BY <1>2, <1>3, <1>4, Ensured

(* Recorders start only where the system and the card are equal, and leave them *)
(* so.                                                                          *)
LEMMA WritersStartGently ==
  ASSUME Typed, disk = card, WritersStart
  PROVE  /\ pc' = "run" /\ disk' = card' /\ Gentle
         /\ disk' \in [Folders -> Paths] /\ card' \in [Folders -> Paths]
BY EnsureIsGentle DEF WritersStart, Gentle, NothingLost, InPlace

(* A start that fails leaves both alone, or it had not begun to move anything. *)
LEMMA FailsGently ==
  ASSUME Typed, StartFails, journal'.state = "none" => disk = card
  PROVE  /\ pc' \in {"run", "paused"} /\ Gentle
         /\ disk' \in [Folders -> Paths] /\ card' \in [Folders -> Paths]
         /\ disk' = card' \/ UNCHANGED <<disk, card>>
<1>1. CASE journal'.state = "none" /\ settings.state # "missing"
  BY <1>1, WritersStartGently DEF StartFails
<1>2. CASE ~(journal'.state = "none" /\ settings.state # "missing")
  BY <1>2 DEF StartFails, Typed, Gentle, NothingLost, InPlace, Inodes
<1> QED BY <1>1, <1>2

(* What the invariant says away from the steps of a move.                       *)
LEMMA Elsewhere ==
  ASSUME pc' \in {"run", "paused", "off", "import", "prepare", "plan"}
  PROVE  Course' /\ WalkedIsPlain'
BY DEF Course, WalkedIsPlain, Moving

LEMMA PathsStay ==
  ASSUME Typed, UNCHANGED <<disk, card>>
  PROVE  Gentle /\ (CardHolds => CardHolds') /\ disk' \in [Folders -> Paths] /\ card' \in [Folders -> Paths]
BY DEF Typed, Gentle, NothingLost, InPlace, CardHolds, Inodes

-----------------------------------------------------------------------------
LEMMA IInvInit == Init => IInv
<1> SUFFICES ASSUME Init PROVE IInv
  OBVIOUS
<1>1. disk \in [Folders -> Paths]
  BY DEF Init, Paths, Inodes
<1>2. Typed
  BY <1>1 DEF Init, Typed, IsJournal, NoJournal
<1>3. Course /\ CompleteStays /\ WalkedIsPlain
  BY DEF Init, Course, CompleteStays, WalkedIsPlain, Moving, MoveCompleted, NoJournal
<1>4. AheadWhileOpen /\ CardHolds
  BY DEF Init, AheadWhileOpen, CardHolds
<1> QED BY <1>2, <1>3, <1>4 DEF IInv

-----------------------------------------------------------------------------
(* The steps of a start that leave the paths alone.                            *)
LEMMA BeginPreserves ==
  ASSUME IInv, Boot \/ Import \/ Prepare
  PROVE  IInv' /\ Gentle
<1> USE DEF IInv
<1>1. CASE Boot /\ settings.state = "complete"
  <2>1. disk = card /\ WritersStart
    BY <1>1 DEF Boot, CompleteStays, AheadWhileOpen
  <2>2. pc' = "run" /\ disk' = card' /\ Gentle /\ disk' \in [Folders -> Paths] /\ card' \in [Folders -> Paths]
    BY <2>1, WritersStartGently
  <2>3. Typed' /\ CompleteStays'
    BY <1>1, <2>2 DEF Boot, Typed, CompleteStays, MoveCompleted, IsJournal, NoJournal
  <2> QED BY <2>2, <2>3, Elsewhere, EqualIsHeld
<1>2. CASE Boot /\ settings.state # "complete"
  <2>1. /\ pc' = IF settings.state = "missing" THEN "import"
                 ELSE IF MoveCompleted THEN "finish" ELSE "prepare"
        /\ UNCHANGED <<disk, card, journal, journalCard, settings, unsafe>> /\ plan' = NoJournal
    BY <1>2 DEF Boot
  <2>2. Typed' /\ CompleteStays' /\ AheadWhileOpen'
    BY <1>2, <2>1 DEF Typed, CompleteStays, AheadWhileOpen, MoveCompleted, IsJournal, NoJournal
  <2>3. Course' /\ WalkedIsPlain'
    BY <2>1 DEF Course, WalkedIsPlain, Moving, MoveCompleted
  <2> QED BY <2>1, <2>2, <2>3, PathsStay
<1>3. CASE Import
  <2>1. /\ pc' = "prepare" /\ settings' = [settings EXCEPT !.state = "importing"]
        /\ UNCHANGED <<disk, card, journal, journalCard, plan>>
    BY <1>3 DEF Import
  <2>2. Typed' /\ CompleteStays' /\ AheadWhileOpen'
    BY <2>1 DEF Typed, CompleteStays, AheadWhileOpen, MoveCompleted, IsJournal
  <2> QED BY <2>1, <2>2, Elsewhere, PathsStay
<1>4. CASE Prepare
  <2>1. pc' = "plan" /\ pc = "prepare" /\ UNCHANGED <<disk, card, journal, journalCard, plan, settings>>
    BY <1>4 DEF Prepare
  <2>2. Typed' /\ CompleteStays' /\ AheadWhileOpen'
    BY <2>1 DEF Typed, CompleteStays, AheadWhileOpen, MoveCompleted, IsJournal
  <2> QED BY <2>1, <2>2, Elsewhere, PathsStay
<1> QED BY <1>1, <1>2, <1>3, <1>4

LEMMA PlanPreserves ==
  ASSUME IInv, PlanMoves
  PROVE  IInv' /\ Gentle
<1> USE DEF IInv
<1>0. pc = "plan" /\ UNCHANGED <<unsafe, journal, journalCard, settings>>
  BY DEF PlanMoves
<1>1. CASE /\ plan' = [Planned EXCEPT !.state = "open"] /\ pc' = "publish"
           /\ UNCHANGED <<disk, card>> /\ Validated(Planned)
  <2>1. IsJournal(Planned)
    BY DEF Planned, Typed, IsJournal, NoJournal
  <2>2. IsJournal(plan') /\ plan'.state = "open" /\ plan'.inode = Planned.inode
    BY <1>1, <2>1 DEF IsJournal
  <2>3. Moves(plan') \cap unsafe = {}
    BY <1>1, <2>2 DEF Validated, Moves
  <2>4. Typed' /\ CompleteStays' /\ AheadWhileOpen'
    BY <1>0, <1>1, <2>2 DEF Typed, CompleteStays, AheadWhileOpen, MoveCompleted, IsJournal
  <2>5. Course' /\ WalkedIsPlain'
    BY <1>0, <1>1, <2>2, <2>3 DEF Course, WalkedIsPlain, Moving, Moves
  <2> QED BY <1>1, <2>4, <2>5, PathsStay
<1>2. CASE StartFails /\ UNCHANGED plan
  <2>1. /\ pc' \in {"run", "paused"} /\ Gentle
        /\ disk' \in [Folders -> Paths] /\ card' \in [Folders -> Paths]
        /\ disk' = card' \/ UNCHANGED <<disk, card>>
    BY <1>0, <1>2, FailsGently DEF AheadWhileOpen
  <2>2. Typed' /\ CompleteStays'
    BY <1>0, <1>2, <2>1 DEF Typed, CompleteStays, MoveCompleted, IsJournal
  <2>3. AheadWhileOpen' /\ CardHolds'
    BY <1>0, <2>1, EqualIsHeld, PathsStay DEF AheadWhileOpen
  <2> QED BY <2>1, <2>2, <2>3, Elsewhere
<1> QED BY <1>1, <1>2 DEF PlanMoves

(* The saves of the journal.                                                    *)
LEMMA SavePreserves ==
  ASSUME IInv, Publish \/ SaveLinked
  PROVE  IInv' /\ Gentle
<1> USE DEF IInv
<1>1. /\ journal' = plan /\ journalCard' = plan /\ UNCHANGED <<disk, card, unsafe, settings, plan>>
      /\ pc \in {"publish", "save"}
      /\ (pc' = "move" /\ at' \in Folders) \/ pc' = "flush"
  BY DEF Publish, SaveLinked, SaveJournal, NextFolder, Moves
<1>2. plan.state = "open" /\ settings.state # "complete"
  BY <1>1 DEF Course, Moving, CompleteStays
<1>3. Typed' /\ CompleteStays' /\ AheadWhileOpen'
  BY <1>1, <1>2 DEF Typed, CompleteStays, AheadWhileOpen, MoveCompleted, IsJournal
<1>4. Course' /\ WalkedIsPlain'
  BY <1>1, <1>2 DEF Course, WalkedIsPlain, Moving, Moves
<1> QED BY <1>1, <1>3, <1>4, PathsStay

(* A rename puts at the new path what was at the old one.                       *)
LEMMA MovePreserves ==
  ASSUME IInv, MoveFolder
  PROVE  IInv' /\ NothingLost /\ AllPlainOnRename
<1> USE DEF IInv
<1>0. /\ pc = "move" /\ at \in Folders /\ journal.state = "open" /\ Moves(journal) \cap unsafe = {}
      /\ UNCHANGED <<modes, modesCard, unsafe, journal, journalCard, settings, at, plan, spent>>
      /\ disk[at] = [src |-> disk[at].src, dst |-> disk[at].dst] /\ disk[at] \in Paths
  BY DEF MoveFolder, Course, Moving, WalkedIsPlain, Moves, Typed, Paths
<1>1. AllPlainOnRename /\ CompleteStays' /\ AheadWhileOpen'
  BY <1>0 DEF AllPlainOnRename, CompleteStays, AheadWhileOpen, MoveCompleted
<1>2. CASE /\ MayRename /\ pc' = "parents" /\ UNCHANGED card
           /\ disk' = [disk EXCEPT ![at] = [src |-> "none", dst |-> disk[at].src]]
  <2>1. disk[at].src \in Inodes /\ disk[at].dst = "none"
    BY <1>2 DEF MayRename
  <2>2. /\ [src |-> "none", dst |-> disk[at].src] \in Paths
        /\ Held([src |-> "none", dst |-> disk[at].src]) = Held(disk[at])
    BY <2>1 DEF Paths, Held, Inodes
  <2>3. /\ disk' \in [Folders -> Paths] /\ disk'[at] = [src |-> "none", dst |-> disk[at].src]
        /\ \A f \in Folders \ {at} : disk'[f] = disk[f]
    BY <1>0, <1>2, <2>2 DEF Typed
  <2>4. Typed' /\ Course' /\ WalkedIsPlain'
    BY <1>0, <1>2, <2>3 DEF Typed, Course, WalkedIsPlain, Moving, Moves, IsJournal, Inodes
  <2>5. NothingLost
    BY <2>2, <2>3 DEF NothingLost
  <2>6. CardHolds'
    BY <1>2, <2>2, <2>3 DEF CardHolds, Inodes
  <2> QED BY <1>1, <2>4, <2>5, <2>6
<1>3. CASE /\ Renamed \/ AlreadyLinked
           /\ pc' \in {"parents", "modes"} /\ UNCHANGED <<disk, card>>
  <2>1. Typed' /\ Course' /\ WalkedIsPlain'
    BY <1>0, <1>3 DEF Typed, Course, WalkedIsPlain, Moving, Moves, IsJournal, Inodes, Renamed, AlreadyLinked
  <2> QED BY <1>1, <1>3, <2>1, PathsStay DEF Gentle
<1>4. CASE StartFails
  <2>1. pc' = "paused" /\ UNCHANGED <<disk, card>>
    BY <1>0, <1>4 DEF StartFails
  <2>2. Typed'
    BY <1>0, <2>1 DEF Typed, IsJournal
  <2> QED BY <1>1, <2>1, <2>2, Elsewhere, PathsStay DEF Gentle
<1> QED BY <1>2, <1>3, <1>4 DEF MoveFolder

(* The system runs ahead of the card by a link, and the card catches up.        *)
LEMMA LinkPreserves ==
  ASSUME IInv, LinkFolder
  PROVE  IInv' /\ Gentle
<1> USE DEF IInv
<1>0. /\ pc = "link" /\ at \in Folders /\ journal.state = "open" /\ disk[at].src \notin Inodes
      /\ disk' = [disk EXCEPT ![at].src = "link"] /\ pc' = "linked"
      /\ UNCHANGED <<card, unsafe, journal, journalCard, settings, at, plan>>
      /\ disk[at] = [src |-> disk[at].src, dst |-> disk[at].dst] /\ disk[at] \in Paths
  BY DEF LinkFolder, Course, Moving, Typed, Paths
<1>1. /\ [src |-> "link", dst |-> disk[at].dst] \in Paths
      /\ Held([src |-> "link", dst |-> disk[at].dst]) = Held(disk[at])
  BY <1>0 DEF Paths, Held, Inodes
<1>2. /\ disk' \in [Folders -> Paths] /\ disk'[at] = [src |-> "link", dst |-> disk[at].dst]
      /\ \A f \in Folders \ {at} : disk'[f] = disk[f]
  BY <1>0, <1>1 DEF Typed
<1>3. Typed' /\ Course' /\ WalkedIsPlain'
  BY <1>0, <1>2 DEF Typed, Course, WalkedIsPlain, Moving, Moves, IsJournal
<1>4. CompleteStays' /\ AheadWhileOpen'
  BY <1>0 DEF CompleteStays, AheadWhileOpen, MoveCompleted
<1>5. Gentle
  BY <1>0, <1>1, <1>2 DEF Gentle, NothingLost, InPlace, Inodes
<1>6. CardHolds'
  BY <1>0, <1>1, <1>2 DEF CardHolds, Inodes
<1> QED BY <1>3, <1>4, <1>5, <1>6

LEMMA SyncPreserves ==
  ASSUME IInv, SyncParents \/ SyncLink
  PROVE  IInv' /\ Gentle
<1> USE DEF IInv
<1>0. /\ at \in Folders /\ journal.state = "open"
      /\ card' = [card EXCEPT ![at] = disk[at]]
      /\ UNCHANGED <<disk, unsafe, journal, journalCard, settings, at>>
      /\ \/ pc = "parents" /\ pc' = "modes" /\ plan' = plan
         \/ pc = "linked" /\ pc' = "save" /\ plan' = [plan EXCEPT !.linked = @ \cup {at}]
  BY DEF SyncParents, SyncLink, SyncFolder, Course, Moving
<1>1. IsJournal(plan') /\ plan'.state = plan.state /\ plan'.inode = plan.inode
  BY <1>0 DEF Typed, IsJournal
<1>2. Typed' /\ Course' /\ WalkedIsPlain'
  BY <1>0, <1>1 DEF Typed, Course, WalkedIsPlain, Moving, Moves, IsJournal
<1>3. CompleteStays' /\ AheadWhileOpen'
  BY <1>0 DEF CompleteStays, AheadWhileOpen, MoveCompleted
<1>4. Gentle
  BY <1>0 DEF Gentle, NothingLost, InPlace, Inodes
<1>5. CardHolds'
  BY <1>0 DEF CardHolds, Typed
<1> QED BY <1>2, <1>3, <1>4, <1>5

LEMMA ModesPreserve ==
  ASSUME IInv, NormalisePermissions
  PROVE  IInv' /\ Gentle
<1> USE DEF IInv
<1>0. /\ pc = "modes" /\ pc' = IF disk[at].src = "link" THEN "linked" ELSE "link"
      /\ UNCHANGED <<disk, card, unsafe, journal, journalCard, settings, at, plan>>
  BY DEF NormalisePermissions
<1>1. Typed' /\ Course' /\ WalkedIsPlain'
  BY <1>0 DEF Typed, Course, WalkedIsPlain, Moving, Moves, IsJournal
<1>2. CompleteStays' /\ AheadWhileOpen'
  BY <1>0 DEF CompleteStays, AheadWhileOpen, MoveCompleted, Course, Moving
<1> QED BY <1>0, <1>1, <1>2, PathsStay

(* After sync(1) everything is on the card.                                     *)
LEMMA FlushPreserves ==
  ASSUME IInv, FlushPermissions
  PROVE  IInv' /\ Gentle
<1> USE DEF IInv
<1>0. /\ pc = "flush" /\ pc' = "mark" /\ card' = disk /\ plan' = [plan EXCEPT !.state = "synced"]
      /\ UNCHANGED <<disk, unsafe, journal, journalCard, settings, at>> /\ journal.state = "open"
  BY DEF FlushPermissions, Course, Moving
<1>1. IsJournal(plan') /\ plan'.state = "synced"
  BY <1>0 DEF Typed, IsJournal
<1>2. Typed' /\ Course' /\ WalkedIsPlain'
  BY <1>0, <1>1 DEF Typed, Course, WalkedIsPlain, Moving, IsJournal
<1>3. CompleteStays'
  BY <1>0 DEF CompleteStays, MoveCompleted
<1>4. Gentle
  BY <1>0 DEF Gentle, NothingLost, InPlace, Inodes
<1> QED BY <1>0, <1>2, <1>3, <1>4, EqualIsHeld

LEMMA MarkPreserves ==
  ASSUME IInv, MarkSynced
  PROVE  IInv' /\ Gentle
<1> USE DEF IInv
<1>0. /\ pc = "mark" /\ pc' = "prepareNew" /\ journal' = plan /\ journalCard' = plan
      /\ UNCHANGED <<disk, card, unsafe, settings, at, plan>>
      /\ plan.state = "synced" /\ disk = card
  BY DEF MarkSynced, SaveJournal, Course
<1>1. Typed' /\ Course' /\ WalkedIsPlain' /\ CompleteStays'
  BY <1>0 DEF Typed, Course, WalkedIsPlain, Moving, IsJournal, CompleteStays, MoveCompleted
<1> QED BY <1>0, <1>1, EqualIsHeld, PathsStay

LEMMA PreparePreserves ==
  ASSUME IInv, PrepareArchives
  PROVE  IInv' /\ Gentle
<1> USE DEF IInv
<1>0. /\ pc = "prepareNew" /\ pc' = "update" /\ journal.state = "synced" /\ journalCard.state = "synced"
      /\ disk' = PreparedPaths(disk) /\ card' = PreparedPaths(card) /\ disk = card
      /\ UNCHANGED <<unsafe, journal, journalCard, settings, at, plan>>
  BY DEF PrepareArchives, Course, AheadWhileOpen
<1>1. ASSUME NEW f \in Folders
      PROVE  /\ PreparedPaths(disk)[f] \in Paths /\ Held(disk[f]) \subseteq Held(PreparedPaths(disk)[f])
             /\ PreparedPaths(disk)[f].src = disk[f].src
  <2>1. disk[f] \in Paths /\ disk[f] = [src |-> disk[f].src, dst |-> disk[f].dst]
    BY DEF Typed, Paths
  <2>2. \/ PreparedPaths(disk)[f] = disk[f]
        \/ disk[f].dst = "none" /\ PreparedPaths(disk)[f] = [src |-> disk[f].src, dst |-> "prepared"]
    BY <2>1 DEF PreparedPaths
  <2> QED BY <2>1, <2>2 DEF Held, Paths, Inodes
<1>2. disk' \in [Folders -> Paths] /\ card' \in [Folders -> Paths] /\ disk' = card'
  BY <1>0, <1>1 DEF PreparedPaths
<1>3. Gentle
  BY <1>0, <1>1 DEF Gentle, NothingLost, InPlace, Inodes
<1>4. Typed' /\ Course' /\ WalkedIsPlain' /\ CompleteStays'
  BY <1>0, <1>2 DEF Typed, Course, WalkedIsPlain, Moving, IsJournal, CompleteStays, MoveCompleted
<1> QED BY <1>2, <1>3, <1>4, EqualIsHeld

LEMMA UpdatePreserves ==
  ASSUME IInv, UpdateSettings
  PROVE  IInv' /\ Gentle
<1> USE DEF IInv
<1>0. /\ pc = "update" /\ pc' = "commit" /\ UNCHANGED <<disk, card, unsafe, journal, journalCard, at, plan>>
      /\ settings' = [settings EXCEPT !.where = [f \in Folders |-> "dst"]]
  BY DEF UpdateSettings
<1>1. Typed' /\ settings'.state = settings.state
  BY <1>0 DEF Typed, IsJournal
<1>2. Course' /\ WalkedIsPlain' /\ CompleteStays' /\ AheadWhileOpen'
  BY <1>0, <1>1 DEF Course, WalkedIsPlain, Moving, CompleteStays, MoveCompleted, AheadWhileOpen
<1> QED BY <1>0, <1>1, <1>2, PathsStay

LEMMA CommitPreserves ==
  ASSUME IInv, FinishDataMove
  PROVE  IInv' /\ Gentle
<1> USE DEF IInv
<1>0. /\ pc = "commit" /\ journal.state = "synced" /\ journalCard.state = "synced" /\ disk = card
      /\ UNCHANGED <<unsafe, settings, at, plan>>
  BY DEF FinishDataMove, Course, AheadWhileOpen
<1>1. CASE /\ SaveJournal([journal EXCEPT !.state = "complete"])
           /\ pc' = "finish" /\ UNCHANGED <<disk, card>>
  <2>1. IsJournal(journal') /\ journalCard' = journal' /\ journal'.state = "complete"
    BY <1>1 DEF SaveJournal, Typed, IsJournal
  <2>2. Typed' /\ Course' /\ WalkedIsPlain' /\ CompleteStays'
    BY <1>0, <1>1, <2>1 DEF Typed, Course, WalkedIsPlain, Moving, CompleteStays, MoveCompleted, IsJournal
  <2> QED BY <1>0, <1>1, <2>2, EqualIsHeld, PathsStay
<1>2. CASE UNCHANGED <<journal, journalCard>> /\ StartFails
  <2>1. pc' = "paused" /\ UNCHANGED <<disk, card>>
    BY <1>0, <1>2 DEF StartFails
  <2>2. Typed' /\ CompleteStays' /\ AheadWhileOpen'
    BY <1>0, <1>2, <2>1 DEF Typed, CompleteStays, MoveCompleted, IsJournal, AheadWhileOpen
  <2> QED BY <2>1, <2>2, Elsewhere, PathsStay
<1> QED BY <1>1, <1>2 DEF FinishDataMove

LEMMA FinishPreserves ==
  ASSUME IInv, FinishImport
  PROVE  IInv' /\ Gentle
<1> USE DEF IInv
<1>0. /\ pc = "finish" /\ journal.state = "complete" /\ disk = card /\ WritersStart
      /\ UNCHANGED <<unsafe, journal, journalCard, at, plan>>
      /\ settings' \in {settings, [settings EXCEPT !.state = "complete"]}
  BY DEF FinishImport, Course, AheadWhileOpen
<1>1. pc' = "run" /\ disk' = card' /\ Gentle /\ disk' \in [Folders -> Paths] /\ card' \in [Folders -> Paths]
  BY <1>0, WritersStartGently
<1>2. Typed' /\ CompleteStays'
  BY <1>0, <1>1 DEF Typed, CompleteStays, MoveCompleted, IsJournal
<1> QED BY <1>1, <1>2, Elsewhere, EqualIsHeld

-----------------------------------------------------------------------------
(* What happens to a start, and between two starts.                             *)
LEMMA FaultPreserves ==
  ASSUME IInv, StepFails
  PROVE  IInv' /\ Gentle
<1> USE DEF IInv
<1>0. /\ pc \in Starting /\ settings.state # "complete" /\ StartFails
      /\ UNCHANGED <<unsafe, journalCard, settings, at, plan>>
  BY DEF StepFails, CompleteStays, Starting
<1>1. /\ IsJournal(journal')
      /\ journal' # journal => /\ pc \in {"publish", "save", "mark", "commit"}
                               /\ journal'.state \in {"open", "synced", "complete"}
                               /\ pc \in {"publish", "save"} => journal'.state = "open"
                               /\ pc \in {"mark", "commit"} => disk = card
                               /\ pc = "mark" => journal'.state = "synced"
                               /\ pc = "commit" => journalCard.state = "synced"
  <2>1. CASE UNCHANGED journal
    BY <2>1 DEF Typed
  <2>2. CASE pc = "commit" /\ journal' = BeingSaved
    BY <2>2 DEF BeingSaved, Typed, IsJournal, Course, AheadWhileOpen
  <2>3. CASE pc \in {"publish", "save", "mark"} /\ journal' = BeingSaved
    BY <2>3 DEF BeingSaved, Typed, Course, Moving
  <2> QED BY <2>1, <2>2, <2>3 DEF StepFails
<1>2. journal'.state # "open" => disk = card
  BY <1>1 DEF AheadWhileOpen
<1>3. /\ pc' \in {"run", "paused"} /\ Gentle
      /\ disk' \in [Folders -> Paths] /\ card' \in [Folders -> Paths]
      /\ disk' = card' \/ UNCHANGED <<disk, card>>
  BY <1>0, <1>2, FailsGently
<1>4. Typed' /\ CompleteStays'
  BY <1>0, <1>1, <1>3 DEF Typed, CompleteStays, MoveCompleted
<1>5. AheadWhileOpen' /\ CardHolds'
  BY <1>2, <1>3, EqualIsHeld, PathsStay DEF AheadWhileOpen
<1> QED BY <1>3, <1>4, <1>5, Elsewhere

LEMMA CutPreserves ==
  ASSUME IInv, PowerCut
  PROVE  IInv' /\ Gentle
<1> USE DEF IInv
<1>1. PICK kept \in SUBSET Folders : disk' = [f \in Folders |-> IF f \in kept THEN disk[f] ELSE card[f]]
  BY DEF PowerCut
<1>2. /\ journal' \in {journal, journalCard} /\ card' = disk' /\ journalCard' = journal'
      /\ pc' = "off" /\ plan' = NoJournal /\ UNCHANGED <<unsafe, settings>>
  BY DEF PowerCut
<1>3. Gentle
  BY <1>1 DEF Gentle, NothingLost, InPlace, CardHolds, Inodes
<1>4. Typed' /\ CompleteStays'
  BY <1>1, <1>2 DEF Typed, CompleteStays, MoveCompleted, IsJournal, NoJournal
<1> QED BY <1>2, <1>3, <1>4, Elsewhere, EqualIsHeld

LEMMA RestartPreserves ==
  ASSUME IInv, Restart
  PROVE  IInv' /\ Gentle
<1> USE DEF IInv
<1>1. pc' = "off" /\ UNCHANGED <<disk, card, journal, journalCard, settings, plan>>
  BY DEF Restart
<1>2. Typed' /\ CompleteStays' /\ AheadWhileOpen'
  BY <1>1 DEF Typed, CompleteStays, MoveCompleted, IsJournal, AheadWhileOpen
<1> QED BY <1>1, <1>2, Elsewhere, PathsStay

(* Nobody takes a directory away; what is made between two starts is made at    *)
(* both.                                                                        *)
LEMMA MeddlePreserves ==
  ASSUME IInv, Meddle
  PROVE  IInv' /\ Gentle
<1> USE DEF IInv
<1>0. pc = "off" /\ pc' = "off" /\ UNCHANGED <<journal, journalCard, settings, plan>>
  BY DEF Meddle
<1>1. CASE UNCHANGED <<disk, card>>
  <2>1. Typed' /\ CompleteStays' /\ AheadWhileOpen'
    BY <1>0, <1>1 DEF Typed, CompleteStays, MoveCompleted, IsJournal, AheadWhileOpen
  <2> QED BY <1>0, <1>1, <2>1, Elsewhere, PathsStay
<1>2. ASSUME NEW f \in Folders, card' = [card EXCEPT ![f] = disk'[f]],
             \/ disk[f].src = "none" /\ disk' = [disk EXCEPT ![f].src = "rival"]
             \/ disk[f].dst = "none" /\ disk' = [disk EXCEPT ![f].dst = "stray"]
      PROVE  IInv' /\ Gentle
  <2>1. disk[f] \in Paths /\ disk[f] = [src |-> disk[f].src, dst |-> disk[f].dst]
    BY DEF Typed, Paths
  <2>2. \/ disk[f].src = "none" /\ disk'[f] = [src |-> "rival", dst |-> disk[f].dst]
        \/ disk[f].dst = "none" /\ disk'[f] = [src |-> disk[f].src, dst |-> "stray"]
    BY <1>2, <2>1 DEF Typed
  <2>3. disk'[f] \in Paths /\ Held(disk[f]) \subseteq Held(disk'[f])
        /\ (disk[f].src \in Inodes => disk'[f].src # "none")
    BY <2>1, <2>2 DEF Held, Paths, Inodes
  <2>4. /\ disk' \in [Folders -> Paths] /\ card' \in [Folders -> Paths] /\ card'[f] = disk'[f]
        /\ \A e \in Folders \ {f} : disk'[e] = disk[e] /\ card'[e] = card[e]
    BY <1>2, <2>3 DEF Typed
  <2>5. Gentle
    BY <2>3, <2>4 DEF Gentle, NothingLost, InPlace, Inodes
  <2>6. CardHolds'
    BY <2>4 DEF CardHolds
  <2>7. disk = card => disk' = card'
    BY <2>4
  <2>8. Typed' /\ CompleteStays' /\ AheadWhileOpen'
    BY <1>0, <2>4, <2>7 DEF Typed, CompleteStays, MoveCompleted, IsJournal, AheadWhileOpen
  <2> QED BY <1>0, <2>5, <2>6, <2>8, Elsewhere
<1> QED BY <1>1, <1>2 DEF Meddle

-----------------------------------------------------------------------------
LEMMA StepPreserves ==
  ASSUME IInv, [Next]_vars
  PROVE  IInv' /\ [NothingLost]_vars /\ [AllPlainOnRename]_vars
<1>1. Gentle => NothingLost /\ AllPlainOnRename
  BY DEF Gentle, InPlace, AllPlainOnRename
<1>2. CASE Start
  BY <1>1, <1>2, BeginPreserves, PlanPreserves, SavePreserves, MovePreserves, LinkPreserves, SyncPreserves,
     ModesPreserve, FlushPreserves, MarkPreserves, PreparePreserves, UpdatePreserves, CommitPreserves,
     FinishPreserves DEF Start
<1>3. CASE StepFails \/ PowerCut \/ Restart \/ Meddle
  BY <1>1, <1>3, FaultPreserves, CutPreserves, RestartPreserves, MeddlePreserves
<1>4. CASE UNCHANGED vars
  BY <1>4 DEF vars, IInv, Typed, Course, CompleteStays, AheadWhileOpen, CardHolds, WalkedIsPlain,
              MoveCompleted, IsJournal, Moves
<1> QED BY <1>2, <1>3, <1>4 DEF Next

(* No step, cut or restart makes a directory disappear from both its paths       *)
(* (data-move.ts resumeMove and the syncs behind its rename).                    *)
THEOREM ArchivesSurvive == Spec => NothingIsLost
<1>1. Init => IInv
  BY IInvInit
<1>2. IInv /\ [Next]_vars => IInv' /\ [NothingLost]_vars
  BY StepPreserves
<1> QED BY <1>1, <1>2, PTL DEF Spec, NothingIsLost

(* Nothing is renamed beside a tree that was not found plain (data-move.ts       *)
(* moveLegacyData, which validates every tree of the journal first).             *)
THEOREM PlainBeforeRename == Spec => RenamesOnlyPlainTrees
<1>1. Init => IInv
  BY IInvInit
<1>2. IInv /\ [Next]_vars => IInv' /\ [AllPlainOnRename]_vars
  BY StepPreserves
<1> QED BY <1>1, <1>2, PTL DEF Spec, RenamesOnlyPlainTrees

-----------------------------------------------------------------------------
(* Where the archives are, for WritersFindArchive: what the journal says is     *)
(* linked stands so on the card already; the archive of before the move is at   *)
(* its old path or in the journal; and once the move is complete the settings   *)
(* name the new paths and the archive stands there.                             *)
Standing(f, inode) == /\ inode \in Inodes
                      /\ disk[f] = [src |-> "link", dst |-> inode] /\ card[f] = disk[f]

LinkedStand == \A j \in {journal, journalCard, plan} : \A f \in Folders :
                 f \in j.linked => Standing(f, j.inode[f])

Entry ==
  /\ pc = "move" => at \in Moves(plan)
  /\ pc \in {"parents", "modes", "link", "linked"} => /\ plan.inode[at] \in Inodes
                                                      /\ disk[at].dst = plan.inode[at]
  /\ pc = "linked" => disk[at].src = "link"

KnownTo(j, f) == IF j.state = "none" THEN disk[f].src = "old" ELSE j.inode[f] = "old"
OldIsKnown ==
  \A f \in Folders : "old" \in Held(disk[f]) =>
    /\ KnownTo(journal, f) /\ KnownTo(journalCard, f)
    /\ pc \in Moving \cup {"publish", "mark"} => plan.inode[f] = "old"

SettingsFollow ==
  /\ (settings.state = "complete" \/ "complete" \in {journal.state, journalCard.state}) =>
       \A f \in Folders : /\ settings.where[f] = "dst"
                          /\ "old" \in Held(disk[f]) => Standing(f, "old")
  /\ pc = "commit" => \A f \in Folders : settings.where[f] = "dst"
  /\ (journal.state = "none" \/ journalCard.state = "none") =>
       \A f \in Folders : settings.where[f] = "src"

Located == LinkedStand /\ Entry /\ OldIsKnown /\ SettingsFollow /\ WritersFindArchive

(* A step never makes the archive appear where it was not, moves it only in     *)
(* "move", and leaves what is linked.                                           *)
Keeps(f) ==
  /\ "old" \in Held(disk'[f]) => "old" \in Held(disk[f])
  /\ disk[f].src = "old" /\ pc # "move" => disk'[f].src = "old"
  /\ \A inode \in Inodes : Standing(f, inode) => Standing(f, inode)'

LEMMA UnchangedKeeps == ASSUME UNCHANGED <<disk, card>>, NEW f \in Folders PROVE Keeps(f)
BY DEF Keeps, Standing

LEMMA WritersKeep ==
  ASSUME Typed, disk = card, WritersStart, NEW f \in Folders
  PROVE  Keeps(f)
<1>1. disk'[f] = EnsureNamed(disk)[f] /\ card'[f] = disk'[f]
  BY DEF WritersStart
<1>2. CASE disk'[f] = disk[f]
  BY <1>1, <1>2 DEF Keeps, Standing
<1>3. CASE /\ disk[f].src = "none" \/ (disk[f].src = "link" /\ disk[f].dst = "none")
           /\ disk'[f] = [src |-> "new", dst |-> disk[f].dst]
  BY <1>1, <1>3 DEF Keeps, Standing, Held, Inodes
<1>4. CASE disk[f].dst = "none" /\ disk'[f] = [src |-> disk[f].src, dst |-> "prepared"]
  BY <1>1, <1>4 DEF Keeps, Standing, Held, Inodes
<1> QED BY <1>1, <1>2, <1>3, <1>4, Ensured

LEMMA StartKeeps ==
  ASSUME IInv, Start, NEW f \in Folders
  PROVE  Keeps(f)
<1> USE DEF IInv
<1>1. CASE WritersStart /\ disk = card
  BY <1>1, WritersKeep
<1>2. CASE UNCHANGED <<disk, card>>
  BY <1>2, UnchangedKeeps
<1>3. CASE /\ pc = "move" /\ at \in Folders /\ MayRename /\ UNCHANGED card
           /\ disk' = [disk EXCEPT ![at] = [src |-> "none", dst |-> disk[at].src]]
  <2>1. disk' = [e \in Folders |-> IF e = at THEN [src |-> "none", dst |-> disk[at].src] ELSE disk[e]]
    BY <1>3 DEF Typed
  <2> QED BY <1>3, <2>1 DEF Keeps, Standing, Held, MayRename, Inodes
<1>4. CASE LinkFolder
  <2>1. at \in Folders /\ disk[at].src \notin Inodes
    BY <1>4 DEF LinkFolder, Course, Moving
  <2>2. disk[at] = [src |-> disk[at].src, dst |-> disk[at].dst]
    BY <2>1 DEF Typed, Paths
  <2>3. /\ disk'[f] = IF f = at THEN [src |-> "link", dst |-> disk[at].dst] ELSE disk[f]
        /\ card' = card
    BY <1>4, <2>1, <2>2 DEF LinkFolder, Typed
  <2> QED BY <2>1, <2>3 DEF Keeps, Standing, Held, Inodes
<1>5. CASE SyncFolder /\ UNCHANGED disk
  BY <1>5 DEF SyncFolder, Keeps, Standing, Typed
<1>6. CASE FlushPermissions
  BY <1>6 DEF FlushPermissions, Keeps, Standing
<1>7. CASE PrepareArchives
  <2>1. disk = card
    BY <1>7 DEF PrepareArchives, Course, AheadWhileOpen
  <2>2. disk[f] \in Paths /\ disk[f] = [src |-> disk[f].src, dst |-> disk[f].dst]
    BY DEF Typed, Paths
  <2>3. \/ disk'[f] = disk[f]
        \/ disk[f].dst = "none" /\ disk'[f] = [src |-> disk[f].src, dst |-> "prepared"]
    BY <1>7, <2>2 DEF PrepareArchives, PreparedPaths
  <2>4. disk' = card'
    BY <1>7, <2>1 DEF PrepareArchives
  <2> QED BY <2>3, <2>4 DEF Keeps, Standing, Held, Inodes
<1>8. WritersStart /\ pc \in {"off", "finish"} => disk = card \/ (settings.state # "complete" /\ pc = "off")
  BY DEF Course, CompleteStays, AheadWhileOpen
<1>9. StartFails /\ UNCHANGED journal => UNCHANGED <<disk, card>> \/ (WritersStart /\ disk = card)
  BY DEF StartFails, AheadWhileOpen
<1>10. CASE Boot \/ FinishImport
  BY <1>1, <1>2, <1>8, <1>10 DEF Boot, FinishImport
<1>11. CASE PlanMoves \/ FinishDataMove
  BY <1>1, <1>2, <1>9, <1>11 DEF PlanMoves, FinishDataMove, Course, AheadWhileOpen, StartFails
<1>12. CASE MoveFolder
  BY <1>1, <1>2, <1>3, <1>9, <1>12 DEF MoveFolder, Course, Moving
<1>13. CASE SyncParents \/ SyncLink
  BY <1>5, <1>13 DEF SyncParents, SyncLink
<1>14. CASE Import \/ Prepare \/ Publish \/ NormalisePermissions \/ SaveLinked \/ MarkSynced \/ UpdateSettings
  BY <1>2, <1>14 DEF Import, Prepare, Publish, NormalisePermissions, SaveLinked, MarkSynced, UpdateSettings
<1> QED BY <1>4, <1>6, <1>7, <1>10, <1>11, <1>12, <1>13, <1>14 DEF Start

LEMMA StepKeeps ==
  ASSUME IInv, [Next]_vars, NEW f \in Folders
  PROVE  Keeps(f)
<1> USE DEF IInv
<1>1. CASE Start
  BY <1>1, StartKeeps
<1>2. CASE UNCHANGED <<disk, card>>
  BY <1>2, UnchangedKeeps
<1>3. CASE StepFails
  <2>1. journal'.state # "open" => disk = card
    BY <1>3 DEF StepFails, BeingSaved, AheadWhileOpen, Course, Moving
  <2>2. (WritersStart /\ disk = card) \/ UNCHANGED <<disk, card>>
    BY <1>3, <2>1 DEF StepFails, StartFails
  <2> QED BY <1>2, <2>2, WritersKeep
<1>4. CASE PowerCut
  <2>1. disk'[f] \in {disk[f], card[f]} /\ card'[f] = disk'[f]
    BY <1>4 DEF PowerCut
  <2> QED BY <2>1 DEF Keeps, Standing, CardHolds, Inodes
<1>5. CASE Meddle
  <2>1. disk[f] = [src |-> disk[f].src, dst |-> disk[f].dst]
    BY DEF Typed, Paths
  <2>2. \/ disk'[f] = disk[f] /\ card'[f] \in {card[f], disk[f]}
        \/ disk[f].src = "none" /\ disk'[f] = [src |-> "rival", dst |-> disk[f].dst]
        \/ disk[f].dst = "none" /\ disk'[f] = [src |-> disk[f].src, dst |-> "stray"]
    BY <1>5, <2>1 DEF Meddle, Typed
  <2> QED BY <2>2 DEF Keeps, Standing, Held, Inodes
<1> QED BY <1>1, <1>2, <1>3, <1>4, <1>5 DEF Next, Restart, vars

-----------------------------------------------------------------------------
(* A journal is one of those there were, the plan, or the completed one; the    *)
(* plan stays, is made, or has one more entry linked.                           *)
Saved(j) == \/ j \in {journal, journalCard}
            \/ pc \in {"publish", "save", "mark"} /\ j = plan
            \/ /\ pc = "commit" /\ ReadyToCommit
               /\ j.inode = journal.inode /\ j.linked = journal.linked /\ j.state = "complete"
Planning == Moving \cup {"publish", "mark"}
PlanKept == \/ plan' = plan /\ (pc' \in Planning => pc \in Planning)
            \/ plan'.linked = {} /\ pc' \notin Planning
            \/ pc = "plan" /\ plan'.inode = Planned.inode /\ plan'.linked = Planned.linked
            \/ FlushPermissions /\ plan'.inode = plan.inode /\ plan'.linked = plan.linked
            \/ SyncLink /\ plan'.inode = plan.inode /\ plan'.linked = plan.linked \cup {at}

LEMMA JournalStep ==
  ASSUME IInv, [Next]_vars
  PROVE  Saved(journal') /\ Saved(journalCard') /\ PlanKept
<1> USE DEF IInv
<1>1. CASE PlanMoves
  <2>1. IsJournal(Planned)
    BY DEF Planned, Typed, IsJournal, NoJournal
  <2>2. (plan' = plan /\ pc' \notin Planning) \/ plan' = [Planned EXCEPT !.state = "open"]
    BY <1>1 DEF PlanMoves, StartFails, WritersStart, Planning, Moving
  <2> QED BY <1>1, <2>1, <2>2 DEF PlanMoves, Saved, PlanKept, IsJournal
<1>2. CASE Publish \/ SaveLinked \/ MarkSynced
  BY <1>2 DEF Publish, SaveLinked, MarkSynced, SaveJournal, Saved, PlanKept, Planning, Moving
<1>3. CASE FlushPermissions \/ SyncLink
  BY <1>3 DEF FlushPermissions, SyncLink, Typed, IsJournal, Saved, PlanKept
<1>4. CASE FinishDataMove
  <2>1. pc' \in {"finish", "run", "paused"} /\ UNCHANGED plan
    BY <1>4 DEF FinishDataMove, StartFails, WritersStart
  <2>2. Saved(journal') /\ Saved(journalCard')
    BY <1>4 DEF FinishDataMove, SaveJournal, Saved, Typed, IsJournal
  <2> QED BY <2>1, <2>2 DEF PlanKept, Planning, Moving
<1>5. CASE StepFails
  <2>1. pc' \in {"run", "paused"} /\ UNCHANGED <<plan, journalCard>>
    BY <1>5 DEF StepFails, StartFails, WritersStart
  <2>2. Saved(journal')
    BY <1>5 DEF StepFails, BeingSaved, Saved, Typed, IsJournal
  <2> QED BY <2>1, <2>2 DEF Saved, PlanKept, Planning, Moving
<1>6. CASE Boot \/ PowerCut
  BY <1>6 DEF Boot, PowerCut, WritersStart, Saved, PlanKept, Planning, Moving, NoJournal
<1>7. CASE MoveFolder
  BY <1>7 DEF MoveFolder, StartFails, WritersStart, Saved, PlanKept, Planning, Moving
<1>8. CASE Import \/ Prepare \/ SyncParents \/ NormalisePermissions \/ LinkFolder \/ PrepareArchives
             \/ UpdateSettings \/ FinishImport \/ Restart \/ Meddle \/ UNCHANGED vars
  BY <1>8 DEF Import, Prepare, SyncParents, NormalisePermissions, LinkFolder, PrepareArchives,
              UpdateSettings, FinishImport, Restart, Meddle, vars, WritersStart, Saved, PlanKept, Planning, Moving
<1> QED BY <1>1, <1>2, <1>3, <1>4, <1>5, <1>6, <1>7, <1>8 DEF Next, Start

LEMMA LinkedStandStep ==
  ASSUME IInv, Located, [Next]_vars
  PROVE  LinkedStand'
<1> USE DEF IInv
<1> SUFFICES ASSUME NEW j \in {journal', journalCard', plan'}, NEW f \in Folders, f \in j.linked
             PROVE  Standing(f, j.inode[f])'
  BY DEF LinkedStand
<1>1. CASE SyncLink /\ f = at /\ j.inode = plan.inode
  <2>1. plan.inode[at] \in Inodes /\ disk[at] = [src |-> "link", dst |-> plan.inode[at]]
    BY <1>1 DEF SyncLink, Located, Entry, Typed, Paths
  <2>2. disk'[at] = disk[at] /\ card'[at] = disk[at]
    BY <1>1 DEF SyncLink, SyncFolder, Typed
  <2> QED BY <1>1, <2>1, <2>2 DEF Standing
<1>2. CASE \E k \in {journal, journalCard, plan} : f \in k.linked /\ j.inode = k.inode
  <2>1. Standing(f, j.inode[f])
    BY <1>2 DEF Located, LinkedStand
  <2> QED BY <2>1, StepKeeps DEF Keeps, Standing
<1>3. Planned.linked \subseteq journal.linked /\ (Planned.linked # {} => Planned.inode = journal.inode)
  BY DEF Planned, NoJournal
<1> QED BY <1>1, <1>2, <1>3, JournalStep DEF Saved, PlanKept

LEMMA EntryStep ==
  ASSUME IInv, Located, [Next]_vars
  PROVE  Entry'
<1> USE DEF IInv
<1>1. CASE Publish \/ SaveLinked
  BY <1>1 DEF Publish, SaveLinked, NextFolder, Entry, Moves
<1>2. CASE MoveFolder
  <2>0. /\ pc = "move" /\ at \in Folders /\ at \in Moves(plan) /\ UNCHANGED <<at, plan>>
        /\ disk[at] \in Paths /\ disk[at] = [src |-> disk[at].src, dst |-> disk[at].dst]
    BY <1>2 DEF MoveFolder, Course, Moving, Located, Entry, Typed, Paths
  <2>1. CASE /\ MayRename /\ disk' = [disk EXCEPT ![at] = [src |-> "none", dst |-> disk[at].src]]
             /\ pc' = "parents"
    <3>1. disk'[at] = [src |-> "none", dst |-> disk[at].src]
      BY <2>0, <2>1 DEF Typed
    <3> QED BY <2>0, <2>1, <3>1 DEF Entry, MayRename, Matches
  <2>2. CASE (Renamed \/ AlreadyLinked) /\ pc' \in {"parents", "modes"} /\ UNCHANGED disk
    BY <2>0, <2>2 DEF Entry, Renamed, AlreadyLinked, Matches, Moves, Paths
  <2>3. CASE StartFails
    BY <2>3 DEF StartFails, WritersStart, Entry
  <2> QED BY <1>2, <2>1, <2>2, <2>3 DEF MoveFolder
<1>3. CASE LinkFolder
  <2>1. at \in Folders /\ disk[at] = [src |-> disk[at].src, dst |-> disk[at].dst]
    BY <1>3 DEF LinkFolder, Course, Moving, Typed, Paths
  <2>2. disk'[at] = [src |-> "link", dst |-> disk[at].dst]
    BY <1>3, <2>1 DEF LinkFolder, Typed
  <2> QED BY <1>3, <2>2 DEF LinkFolder, Located, Entry
<1>4. CASE SyncParents \/ NormalisePermissions
  BY <1>4 DEF SyncParents, NormalisePermissions, Located, Entry
<1>5. CASE UNCHANGED vars
  BY <1>5 DEF vars, Located, Entry, Moves
<1>6. CASE pc' \notin {"move", "parents", "modes", "link", "linked"}
  BY <1>6 DEF Entry
<1>7. Boot \/ Import \/ Prepare \/ PlanMoves \/ SyncLink \/ FlushPermissions \/ MarkSynced \/ PrepareArchives
      \/ UpdateSettings \/ FinishDataMove \/ FinishImport \/ StepFails \/ PowerCut \/ Restart \/ Meddle
        => pc' \notin {"move", "parents", "modes", "link", "linked"}
  BY DEF Boot, Import, Prepare, PlanMoves, SyncLink, FlushPermissions, MarkSynced, PrepareArchives,
         UpdateSettings, FinishDataMove, FinishImport, StepFails, PowerCut, Restart, Meddle,
         StartFails, WritersStart
<1> QED BY <1>1, <1>2, <1>3, <1>4, <1>5, <1>6, <1>7 DEF Next, Start

LEMMA OldIsKnownStep ==
  ASSUME IInv, Located, [Next]_vars
  PROVE  OldIsKnown'
<1> USE DEF IInv
<1> SUFFICES ASSUME NEW f \in Folders, "old" \in Held(disk'[f])
             PROVE  /\ KnownTo(journal, f)' /\ KnownTo(journalCard, f)'
                    /\ pc' \in Planning => plan'.inode[f] = "old"
  BY DEF OldIsKnown, Planning
<1>1. /\ KnownTo(journal, f) /\ KnownTo(journalCard, f)
      /\ pc \in Planning => plan.inode[f] = "old"
  BY StepKeeps DEF Keeps, Located, OldIsKnown, Planning
<1>2. disk[f].src = "old" /\ "none" \in {journal.state, journalCard.state} => disk'[f].src = "old"
  BY StepKeeps DEF Keeps, Course, Moving
<1>3. \A j : Saved(j) => IF j.state = "none" THEN disk'[f].src = "old" ELSE j.inode[f] = "old"
  BY <1>1, <1>2 DEF Saved, KnownTo, Course, Moving, Planning, ReadyToCommit
<1>4. Planned.inode[f] = "old"
  BY <1>1 DEF Planned, KnownTo, NoJournal
<1> QED BY <1>1, <1>3, <1>4, JournalStep DEF KnownTo, PlanKept, Planning, Moving, SyncLink, FlushPermissions

(* The settings name a new path once everything is linked, and not before.      *)
LEMMA SettingsFollowStep ==
  ASSUME IInv, Located, [Next]_vars
  PROVE  SettingsFollow'
<1> USE DEF IInv
<1>1. /\ settings'.where \in {settings.where, [f \in Folders |-> "dst"]}
      /\ settings'.where # settings.where => pc = "update" /\ UNCHANGED <<journal, journalCard>>
      /\ settings'.state = "complete" => settings.state = "complete" \/ journal.state = "complete"
      /\ pc' = "commit" => UpdateSettings \/ (pc = "commit" /\ UNCHANGED settings)
  BY DEF Next, Start, vars, Typed, Boot, Import, Prepare, PlanMoves, Publish, MoveFolder, SyncParents,
         NormalisePermissions, LinkFolder, SyncLink, SaveLinked, FlushPermissions, MarkSynced, PrepareArchives,
         UpdateSettings, FinishDataMove, FinishImport, StepFails, PowerCut, Restart, Meddle, StartFails,
         WritersStart, NextFolder, Course
<1>2. \A f \in Folders : /\ "old" \in Held(disk'[f]) => "old" \in Held(disk[f])
                         /\ Standing(f, "old") => Standing(f, "old")'
  BY StepKeeps DEF Keeps, Inodes
<1>3. ASSUME settings'.state = "complete" \/ "complete" \in {journal'.state, journalCard'.state},
             NEW f \in Folders
      PROVE  settings'.where[f] = "dst" /\ ("old" \in Held(disk'[f]) => Standing(f, "old")')
  <2>1. CASE settings.state = "complete" \/ "complete" \in {journal.state, journalCard.state}
    BY <1>1, <1>2, <2>1 DEF Located, SettingsFollow
  <2>2. CASE pc = "commit" /\ ReadyToCommit
    <3>1. settings.where[f] = "dst"
      BY <2>2 DEF Located, SettingsFollow
    <3>2. "old" \in Held(disk[f]) => journal.inode[f] = "old"
      BY <2>2 DEF Located, OldIsKnown, KnownTo, ReadyToCommit
    <3>3. "old" \in Held(disk[f]) => Standing(f, "old")
      BY <2>2, <3>2 DEF Located, LinkedStand, ReadyToCommit, Moves
    <3> QED BY <1>1, <1>2, <2>2, <3>1, <3>3
  <2>3. ~(settings.state = "complete" \/ "complete" \in {journal.state, journalCard.state})
          => pc = "commit" /\ ReadyToCommit
    BY <1>1, <1>3, JournalStep DEF Saved, Course, Moving
  <2> QED BY <2>1, <2>2, <2>3
<1>4. pc' = "commit" => \A f \in Folders : settings'.where[f] = "dst"
  BY <1>1 DEF UpdateSettings, Typed, Located, SettingsFollow
<1>5. journal'.state = "none" \/ journalCard'.state = "none" =>
        \A f \in Folders : settings'.where[f] = "src"
  BY <1>1, JournalStep DEF Saved, Course, Moving, Located, SettingsFollow
<1> QED BY <1>3, <1>4, <1>5 DEF SettingsFollow

(* A named archive is made where the settings name it.                          *)
LEMMA NamedIsMade ==
  ASSUME Typed, NEW f \in Named
  PROVE  LET paths == EnsureNamed(disk)[f]
         IN  IF settings.where[f] = "dst" \/ paths.src = "link" THEN paths.dst # "none" ELSE paths.src # "none"
<1>1. f \in Folders /\ disk[f] \in Paths /\ disk[f] = [src |-> disk[f].src, dst |-> disk[f].dst]
      /\ settings.where[f] \in {"src", "dst"}
  BY MoveAssumption DEF Typed, Paths, Folders
<1>2. CASE Found(f, settings.where[f]) # "none"
  BY <1>1, <1>2 DEF EnsureNamed, Found
<1>3. CASE Found(f, settings.where[f]) = "none" /\ settings.where[f] = "src"
  <2>1. EnsureNamed(disk)[f] = [src |-> "new", dst |-> disk[f].dst]
    BY <1>1, <1>3 DEF EnsureNamed
  <2> QED BY <1>3, <2>1
<1>4. CASE Found(f, settings.where[f]) = "none" /\ settings.where[f] = "dst"
  <2>1. EnsureNamed(disk)[f] = [src |-> disk[f].src, dst |-> "prepared"]
    BY <1>1, <1>4 DEF EnsureNamed
  <2> QED BY <1>4, <2>1
<1> QED BY <1>1, <1>2, <1>3, <1>4

(* Recorders start over an archive moved as a whole, or one not touched yet.    *)
LEMMA WritersFindStep ==
  ASSUME IInv, Located, [Next]_vars
  PROVE  WritersFindArchive'
<1> USE DEF IInv
<1>1. CASE pc' # "run"
  BY <1>1 DEF WritersFindArchive
<1>2. CASE UNCHANGED vars
  BY <1>2 DEF vars, Located, WritersFindArchive, Found, Where, Moved, MoveCompleted
<1>3. CASE /\ WritersStart /\ settings'.where = settings.where /\ UNCHANGED journal
           /\ settings.state = "complete" \/ journal.state = "complete"
           /\ settings.state = "complete" => settings'.state = "complete"
  <2> SUFFICES ASSUME NEW f \in Folders
               PROVE  /\ "old" \in Held(disk'[f]) => Found(f, Where(f))' = "old"
                      /\ f \in Named => Found(f, Where(f))' # "none"
    BY DEF WritersFindArchive
  <2>1. settings.where[f] = "dst" /\ ("old" \in Held(disk[f]) => Standing(f, "old"))
    BY <1>3 DEF Located, SettingsFollow
  <2>2. Found(f, Where(f))' = disk'[f].dst
    BY <1>3, <2>1 DEF Found, Where, Moved, MoveCompleted
  <2>3. "old" \in Held(disk'[f]) => disk'[f].dst = "old"
    BY <2>1, StepKeeps DEF Keeps, Standing, Inodes
  <2>4. f \in Named => disk'[f].dst # "none"
    BY <1>3, <2>1, NamedIsMade DEF WritersStart
  <2> QED BY <2>2, <2>3, <2>4
<1>4. CASE /\ WritersStart /\ UNCHANGED settings /\ journal.state = "none" /\ journal'.state = "none"
           /\ settings.state # "complete" /\ pc # "move"
  <2> SUFFICES ASSUME NEW f \in Folders
               PROVE  /\ "old" \in Held(disk'[f]) => Found(f, Where(f))' = "old"
                      /\ f \in Named => Found(f, Where(f))' # "none"
    BY DEF WritersFindArchive
  <2>1. settings.where[f] = "src" /\ ("old" \in Held(disk[f]) => disk[f].src = "old")
    BY <1>4 DEF Located, SettingsFollow, OldIsKnown, KnownTo
  <2>2. Found(f, Where(f))' = IF disk'[f].src = "link" THEN disk'[f].dst ELSE disk'[f].src
    BY <1>4, <2>1 DEF Found, Where, Moved, MoveCompleted
  <2>3. "old" \in Held(disk'[f]) => disk'[f].src = "old"
    BY <1>4, <2>1, StepKeeps DEF Keeps
  <2>4. f \in Named => IF disk'[f].src = "link" THEN disk'[f].dst # "none" ELSE disk'[f].src # "none"
    BY <1>4, <2>1, NamedIsMade DEF WritersStart
  <2> QED BY <2>2, <2>3, <2>4
<1>5. CASE (Boot \/ FinishImport) /\ pc' = "run"
  BY <1>3, <1>5 DEF Boot, FinishImport, Course, Typed
<1>6. CASE (PlanMoves \/ MoveFolder \/ FinishDataMove) /\ pc' = "run"
  <2>1. WritersStart /\ UNCHANGED <<journal, settings>> /\ journal.state = "none"
    BY <1>6 DEF PlanMoves, MoveFolder, FinishDataMove, StartFails
  <2>2. settings.state # "complete" /\ pc # "move"
    BY <2>1 DEF CompleteStays, Course, Moving
  <2> QED BY <1>4, <2>1, <2>2
<1>7. CASE StepFails /\ pc' = "run"
  <2>1. WritersStart /\ UNCHANGED settings /\ journal'.state = "none" /\ settings.state # "complete"
    BY <1>7 DEF StepFails, StartFails, CompleteStays, Starting
  <2>2. UNCHANGED journal /\ pc # "move"
    BY <1>7, <2>1 DEF StepFails, BeingSaved, Typed, IsJournal, Course, Moving
  <2> QED BY <1>4, <2>1, <2>2
<1>8. Import \/ Prepare \/ Publish \/ SyncParents \/ NormalisePermissions \/ LinkFolder \/ SyncLink \/ SaveLinked
      \/ FlushPermissions \/ MarkSynced \/ PrepareArchives \/ UpdateSettings \/ PowerCut \/ Restart \/ Meddle
        => pc' # "run"
  BY DEF Import, Prepare, Publish, SyncParents, NormalisePermissions, LinkFolder, SyncLink, SaveLinked,
         FlushPermissions, MarkSynced, PrepareArchives, UpdateSettings, PowerCut, Restart, Meddle, NextFolder
<1> QED BY <1>1, <1>2, <1>5, <1>6, <1>7, <1>8 DEF Next, Start

LEMMA LocatedInit == Init => Located
BY DEF Init, NoJournal, Located, LinkedStand, Entry, OldIsKnown, KnownTo, SettingsFollow, WritersFindArchive,
       Moving, Held, Inodes

(* While recorders run, each finds the archive where the settings and the journal *)
(* make it look (startup.ts runSettingsMigration, data-move.ts finishDataMove).   *)
THEOREM RecordersFindTheArchive == Spec => []WritersFindArchive
<1>1. Init => IInv /\ Located
  BY IInvInit, LocatedInit
<1>2. IInv /\ Located /\ [Next]_vars => IInv' /\ Located'
  BY StepPreserves, LinkedStandStep, EntryStep, OldIsKnownStep, SettingsFollowStep, WritersFindStep DEF Located
<1>3. IInv /\ Located => WritersFindArchive
  BY DEF Located
<1> QED BY <1>1, <1>2, <1>3, PTL DEF Spec

-----------------------------------------------------------------------------
(* The encrypted ride log.  What a caller of a flush may be told. *)
Calls == [pass : {"idle", "first", "second", "done"}, upTo : 0..MaxReadings, refused : BOOLEAN]

(* What is where.                                                               *)
OnDurable(r) == \E k \in DOMAIN files : files[k].durable /\ r \in Seqs(files[k].readings)
Safe(r) == r \in dropped \/ OnDurable(r)
Kept(r) == Safe(r) \/ r \in Seqs(sealing) \/ r \in Seqs(buffered)

(* The rows wait in the order of their numbers, the active seal's first.        *)
Ascending(s) == \A i, j \in DOMAIN s : i < j => s[i].seq < s[j].seq
InOrder == /\ Ascending(sealing) /\ Ascending(buffered)
           /\ \A i \in DOMAIN sealing, j \in DOMAIN buffered : sealing[i].seq < buffered[j].seq
           /\ \A i \in DOMAIN sealing : sealing[i].seq < nextSequence
           /\ \A i \in DOMAIN buffered : buffered[i].seq < nextSequence

(* No row is lost while the process runs.                                       *)
NoneLost == Running => \A r \in 0..(nextSequence - 1) : Kept(r)

(* A segment stands on older segments that are flushed: a cut that takes one     *)
(* takes nothing from under it.                                                  *)
Founded ==
  \A k \in DOMAIN files : \A s \in Seqs(files[k].readings) : \A r \in 0..(s - 1) :
    Safe(r) \/ r \in Seqs(files[k].readings)

Writing == written => sealing # <<>> /\ files # <<>> /\ files[Len(files)].readings = Run.readings

(* What the callers of a flush can count on.                                     *)
Promised ==
  \A c \in Callers : \A s \in 0..(flush[c].upTo - 1) :
    /\ s < nextSequence
    /\ flush[c].pass = "second" => Safe(s) \/ s \in Seqs(sealing)
    /\ flush[c].pass = "done" /\ ~flush[c].refused => Safe(s)
LogHolds == InOrder /\ NoneLost /\ Founded /\ Writing /\ Promised /\ LabelNeverUnderstates
LogInv == LogTypeOK /\ LogHolds

-----------------------------------------------------------------------------
(* What the bounds are. *)
LEMMA Limits ==
         /\ MaxBuffered \in Nat /\ MaxBuffered > 0 /\ MaxReadings \in Nat /\ MaxFailures \in Nat
         /\ TrustsSeen \subseteq Trusts
  BY LogBounds DEF Trusts

LessThan == {ss \in Nat \X Nat : ss[1] < ss[2]}

(* A set of naturals has a least one. *)
LEMMA Least == ASSUME NEW T, T \subseteq Nat, T # {} PROVE \E m \in T : \A k \in T : m <= k
<1>1. IsWellFoundedOn(LessThan, Nat)
  BY NatLessThanWellFounded DEF OpToRel, LessThan
<1>2. PICK m \in T : \A y \in T : ~(<<y, m>> \in LessThan)
  BY <1>1, WFMin
<1>3. \A y \in T : ~(y < m)
  BY <1>2 DEF LessThan
<1> QED BY <1>3

(* A part of a sequence of rows. *)
LEMMA PartOfRows ==
  ASSUME NEW s \in Seq(Reading), NEW m \in 1..(Len(s) + 1), NEW n \in (m - 1)..Len(s)
  PROVE  /\ SubSeq(s, m, n) \in Seq(Reading) /\ Len(SubSeq(s, m, n)) = n - m + 1
         /\ DOMAIN SubSeq(s, m, n) = 1..(n - m + 1)
         /\ \A i \in DOMAIN SubSeq(s, m, n) : SubSeq(s, m, n)[i] = s[m + i - 1] /\ m + i - 1 \in DOMAIN s
         /\ \A r \in Seqs(SubSeq(s, m, n)) : r \in Seqs(s)
         /\ \A i \in m..n : s[i].seq \in Seqs(SubSeq(s, m, n))
<1> DEFINE p == SubSeq(s, m, n)
<1>1. Len(s) \in Nat /\ DOMAIN s = 1..Len(s) /\ \A i \in m..n : i \in DOMAIN s /\ s[i] \in Reading
  OBVIOUS
<1>2. /\ p \in Seq(Reading) /\ Len(p) = IF m <= n THEN n - m + 1 ELSE 0
      /\ \A i \in 1..(n - m + 1) : p[i] = s[m + i - 1]
  BY <1>1, SubSeqProperties
<1> HIDE DEF p
<1>3. Len(p) = n - m + 1 /\ DOMAIN p = 1..(n - m + 1)
  BY <1>1, <1>2
<1>4. \A i \in DOMAIN p : p[i] = s[m + i - 1] /\ m + i - 1 \in DOMAIN s
  BY <1>1, <1>2, <1>3
<1>5. \A r \in Seqs(p) : r \in Seqs(s)
  BY <1>4 DEF Seqs
<1>6. ASSUME NEW i \in m..n PROVE s[i].seq \in Seqs(p)
  <2>1. i - m + 1 \in DOMAIN p /\ m + (i - m + 1) - 1 = i
    BY <1>1, <1>3
  <2> QED BY <1>4, <2>1 DEF Seqs
<1> QED BY <1>2, <1>3, <1>4, <1>5, <1>6 DEF p

(* A part is in order when the whole is. *)
LEMMA PartAscends ==
  ASSUME NEW s \in Seq(Reading), NEW m \in 1..(Len(s) + 1), NEW n \in (m - 1)..Len(s), Ascending(s)
  PROVE  Ascending(SubSeq(s, m, n))
<1> DEFINE p == SubSeq(s, m, n)
<1>1. \A i \in DOMAIN p : i \in Nat /\ p[i] = s[m + i - 1] /\ m + i - 1 \in DOMAIN s
  BY PartOfRows
<1> HIDE DEF p
<1>2. Ascending(p)
  <2> SUFFICES ASSUME NEW i \in DOMAIN p, NEW j \in DOMAIN p, i < j PROVE p[i].seq < p[j].seq
    BY DEF Ascending
  <2>1. m + i - 1 < m + j - 1
    BY <1>1
  <2> QED BY <1>1, <2>1 DEF Ascending
<1> QED BY <1>2 DEF p

(* A seal that waits begins with a stretch of equal trust. *)
LEMMA StretchFits ==
  ASSUME NEW s \in Seq(Reading), s # <<>>
  PROVE  Stretch(s) \in DOMAIN s
<1> DEFINE T == {n \in DOMAIN s : n < Len(s) => s[n + 1].trust # s[1].trust}
<1>1. Len(s) \in Nat \ {0} /\ DOMAIN s = 1..Len(s)
  BY EmptySeq
<1>2. T \subseteq Nat /\ Len(s) \in T
  BY <1>1
<1>3. PICK n \in T : \A k \in T : n <= k
  BY <1>2, Least
<1>4. ASSUME NEW i \in 1..n, s[i].trust # s[1].trust PROVE FALSE
  <2>1. PICK k \in DOMAIN s : k + 1 = i
    <3>1. i - 1 \in DOMAIN s /\ (i - 1) + 1 = i
      BY <1>1, <1>3, <1>4
    <3> QED BY <3>1
  <2>2. k \in T
    BY <1>4, <2>1
  <2> QED BY <1>1, <1>3, <2>1, <2>2
<1>5. \A i \in 1..n : s[i].trust = s[1].trust
  BY <1>4
<1> QED BY <1>3, <1>5 DEF Stretch

(* A label is no better than any reading under it. *)
LEMMA WorstIsWorst ==
  ASSUME NEW s \in Seq(Reading), s # <<>>
  PROVE  /\ MostPessimistic(s) \in Trusts
         /\ \A i \in DOMAIN s : Pessimism[MostPessimistic(s)] >= Pessimism[s[i].trust]
<1>1. /\ 1 \in DOMAIN s /\ \A i \in DOMAIN s : s[i].trust \in Trusts
  <2>1. 1 \in DOMAIN s /\ \A i \in DOMAIN s : s[i] \in Reading
    BY EmptySeq
  <2> QED BY <2>1 DEF Reading
<1>2. /\ Pessimism["satellite-backed"] = 0 /\ Pessimism["never-synced"] = 1 /\ Pessimism["contested"] = 2
  BY DEF Pessimism, Trusts
<1> DEFINE P(t) == /\ \E i \in DOMAIN s : s[i].trust = t
                   /\ \A i \in DOMAIN s : Pessimism[s[i].trust] <= Pessimism[t]
<1>3. \E t \in Trusts : P(t)
  <2>1. CASE \E i \in DOMAIN s : s[i].trust = "contested"
    BY <1>1, <1>2, <2>1 DEF Trusts
  <2>2. CASE \E i \in DOMAIN s : s[i].trust = "never-synced" /\ \A j \in DOMAIN s : s[j].trust # "contested"
    BY <1>1, <1>2, <2>2 DEF Trusts
  <2>3. CASE \A i \in DOMAIN s : s[i].trust = "satellite-backed"
    BY <1>1, <1>2, <2>3 DEF Trusts
  <2> QED BY <1>1, <2>1, <2>2, <2>3 DEF Trusts
<1>4. MostPessimistic(s) \in Trusts /\ P(MostPessimistic(s))
  BY <1>3 DEF MostPessimistic
<1>5. \A t \in Trusts : Pessimism[t] \in Nat
  BY <1>2 DEF Trusts
<1> QED BY <1>1, <1>4, <1>5

-----------------------------------------------------------------------------
(* The run that is being sealed, and what is behind it. *)
LEMMA RunFits ==
  ASSUME LogTypeOK, Sealing
  PROVE  /\ RunLength \in 1..Len(sealing) /\ Len(sealing) \in Nat
         /\ Run \in Segment /\ Rest \in Seq(Reading)
         /\ \A i \in DOMAIN Run.readings : Pessimism[Run.trust] >= Pessimism[Run.readings[i].trust]
         /\ Run.durable = FALSE
<1>1. sealing \in Seq(Reading) /\ sealing # <<>> /\ Len(sealing) \in Nat \ {0} /\ collapsed \in BOOLEAN
  BY EmptySeq DEF LogTypeOK, Sealing
<1>2. RunLength \in 1..Len(sealing)
  BY <1>1, StretchFits DEF RunLength
<1> DEFINE p == SubSeq(sealing, 1, RunLength)
<1>3. p \in Seq(Reading) /\ Len(p) = RunLength
  BY <1>1, <1>2, PartOfRows
<1>4. p # <<>>
  BY <1>1, <1>2, <1>3
<1>5. /\ MostPessimistic(p) \in Trusts
      /\ \A i \in DOMAIN p : Pessimism[MostPessimistic(p)] >= Pessimism[p[i].trust]
  BY <1>3, <1>4, WorstIsWorst
<1>6. Run = [trust |-> MostPessimistic(p), readings |-> p, durable |-> FALSE]
  BY DEF Run
<1>7. Rest \in Seq(Reading)
  BY <1>1, <1>2, PartOfRows DEF Rest
<1> HIDE DEF p
<1>8. Run \in Segment
  BY <1>3, <1>5, <1>6 DEF Segment
<1>9. /\ Run.trust = MostPessimistic(p) /\ Run.readings = p /\ Run.durable = FALSE
  BY <1>6
<1> QED BY <1>1, <1>2, <1>5, <1>7, <1>8, <1>9

(* The run and what is behind it are what is being sealed, in that order. *)
LEMMA RunAndRest ==
  ASSUME LogTypeOK, Sealing
  PROVE  /\ \A r \in Seqs(sealing) : r \in Seqs(Run.readings) \/ r \in Seqs(Rest)
         /\ \A r \in Seqs(Run.readings) : r \in Seqs(sealing)
         /\ \A r \in Seqs(Rest) : r \in Seqs(sealing)
         /\ Rest = <<>> => \A r \in Seqs(sealing) : r \in Seqs(Run.readings)
         /\ Ascending(sealing) => /\ Ascending(Rest)
                                  /\ \A s \in Seqs(Run.readings), r \in Seqs(Rest) : s < r
<1>1. sealing \in Seq(Reading) /\ RunLength \in 1..Len(sealing) /\ Len(sealing) \in Nat
  BY RunFits DEF LogTypeOK
<1> DEFINE n == RunLength
<1> DEFINE p == SubSeq(sealing, 1, n)
<1>2. Run.readings = p /\ Rest = SubSeq(sealing, n + 1, Len(sealing))
  BY DEF Run, Rest
<1> HIDE DEF n
<1>3. n \in 1..Len(sealing) /\ 1 \in 1..(Len(sealing) + 1) /\ n \in (1 - 1)..Len(sealing)
      /\ n + 1 \in 1..(Len(sealing) + 1) /\ Len(sealing) \in ((n + 1) - 1)..Len(sealing)
  BY <1>1 DEF n
<1>4. /\ DOMAIN p = 1..n
      /\ \A i \in DOMAIN p : p[i] = sealing[1 + i - 1] /\ 1 + i - 1 \in DOMAIN sealing
      /\ \A r \in Seqs(p) : r \in Seqs(sealing)
      /\ \A i \in 1..n : sealing[i].seq \in Seqs(p)
  <2>1. n - 1 + 1 = n
    BY <1>3
  <2> QED BY <1>1, <1>3, <2>1, PartOfRows
<1>5. /\ DOMAIN Rest = 1..(Len(sealing) - (n + 1) + 1)
      /\ \A i \in DOMAIN Rest : Rest[i] = sealing[(n + 1) + i - 1] /\ (n + 1) + i - 1 \in DOMAIN sealing
      /\ \A r \in Seqs(Rest) : r \in Seqs(sealing)
      /\ \A i \in (n + 1)..Len(sealing) : sealing[i].seq \in Seqs(Rest)
  BY <1>1, <1>2, <1>3, PartOfRows
<1> HIDE DEF p
<1>6. ASSUME NEW r \in Seqs(sealing) PROVE r \in Seqs(p) \/ r \in Seqs(Rest)
  <2>1. PICK i \in 1..Len(sealing) : sealing[i].seq = r
    BY <1>1 DEF Seqs
  <2>2. i \in 1..n \/ i \in (n + 1)..Len(sealing)
    BY <1>1, <1>3
  <2> QED BY <1>4, <1>5, <2>1, <2>2
<1>7. Rest = <<>> => Seqs(Rest) = {}
  BY DEF Seqs
<1>8. ASSUME Ascending(sealing) PROVE Ascending(Rest)
  BY <1>1, <1>2, <1>3, <1>8, PartAscends
<1>9. ASSUME Ascending(sealing), NEW s \in Seqs(p), NEW r \in Seqs(Rest) PROVE s < r
  <2>1. PICK i \in DOMAIN p : p[i].seq = s
    BY DEF Seqs
  <2>2. PICK j \in DOMAIN Rest : Rest[j].seq = r
    BY DEF Seqs
  <2>3. i \in DOMAIN sealing /\ sealing[i].seq = s
    BY <1>1, <1>4, <2>1
  <2>4. n + j \in DOMAIN sealing /\ sealing[n + j].seq = r /\ i < n + j
    <3>1. (n + 1) + j - 1 = n + j /\ i < n + j
      BY <1>3, <1>4, <1>5, <2>1, <2>2
    <3> QED BY <1>5, <2>2, <3>1
  <2> QED BY <1>9, <2>3, <2>4 DEF Ascending
<1> QED BY <1>2, <1>4, <1>5, <1>6, <1>7, <1>8, <1>9

(* A row arrives. *)
LEMMA Arrived ==
  ASSUME LogTypeOK, InOrder, NEW trust \in TrustsSeen, nextSequence < MaxReadings
  PROVE  LET all == Append(buffered, [seq |-> nextSequence, trust |-> trust])
         IN /\ all \in Seq(Reading) /\ Len(all) \in Nat \ {0} /\ DOMAIN all = 1..Len(all)
            /\ Ascending(all) /\ all[Len(all)].seq = nextSequence
            /\ \A i \in DOMAIN all : all[i].seq <= nextSequence
            /\ \A i \in DOMAIN sealing, j \in DOMAIN all : sealing[i].seq < all[j].seq
            /\ \A r \in Seqs(buffered) : \E i \in DOMAIN all : all[i].seq = r
<1> DEFINE x == [seq |-> nextSequence, trust |-> trust]
<1> DEFINE all == Append(buffered, x)
<1>1. x \in Reading /\ x.seq = nextSequence
  BY Limits DEF Reading, LogTypeOK
<1>2. buffered \in Seq(Reading) /\ Len(buffered) \in Nat /\ nextSequence \in Nat
  BY Limits DEF LogTypeOK
<1> HIDE DEF x
<1>3. /\ all \in Seq(Reading) /\ Len(all) = Len(buffered) + 1 /\ DOMAIN all = 1..(Len(buffered) + 1)
      /\ all[Len(buffered) + 1] = x /\ DOMAIN buffered = 1..Len(buffered)
      /\ \A i \in 1..Len(buffered) : all[i] = buffered[i]
  BY <1>1, <1>2
<1> HIDE DEF all
<1>4. \A i \in DOMAIN all : all[i].seq <= nextSequence
  <2>1. \A i \in DOMAIN buffered : buffered[i] \in Reading
    BY <1>2
  <2>2. \A i \in DOMAIN buffered : buffered[i].seq \in Nat /\ buffered[i].seq < nextSequence
    BY <2>1, Limits DEF InOrder, Reading
  <2>3. \A i \in 1..Len(buffered) : all[i].seq \in Nat /\ all[i].seq < nextSequence
    BY <1>3, <2>2
  <2>4. \A i \in DOMAIN all : i \in 1..Len(buffered) \/ i = Len(buffered) + 1
    BY <1>2, <1>3
  <2> QED BY <1>1, <1>2, <1>3, <2>3, <2>4
<1>5. Ascending(all)
  BY <1>1, <1>2, <1>3 DEF InOrder, Ascending
<1>6. \A i \in DOMAIN sealing, j \in DOMAIN all : sealing[i].seq < all[j].seq
  BY <1>1, <1>2, <1>3 DEF InOrder
<1>7. \A r \in Seqs(buffered) : \E i \in DOMAIN all : all[i].seq = r
  BY <1>2, <1>3 DEF Seqs
<1> QED BY <1>1, <1>2, <1>3, <1>4, <1>5, <1>6, <1>7 DEF all, x

-----------------------------------------------------------------------------
(* The numbers of rows. *)
LEMMA RowsAreNumbers ==
  ASSUME NEW s \in Seq(Reading)
  PROVE  /\ \A i \in DOMAIN s : s[i].seq \in Nat /\ s[i].seq \in Seqs(s)
         /\ \A r \in Seqs(s) : r \in Nat
<1>1. \A i \in DOMAIN s : s[i] \in Reading
  OBVIOUS
<1>2. \A i \in DOMAIN s : s[i].seq \in Nat
  BY <1>1, Limits DEF Reading
<1> QED BY <1>2 DEF Seqs

(* An empty buffer. *)
LEMMA NoRows == /\ Seqs(<<>>) = {} /\ Ascending(<<>>) /\ <<>> \in Seq(Reading) /\ DOMAIN <<>> = {}
<1>1. DOMAIN <<>> = {} /\ <<>> \in Seq(Reading)
  OBVIOUS
<1> QED BY <1>1 DEF Seqs, Ascending

(* The segments that are flushed stay as they are, and a row that was given up  *)
(* stays given up.                                                               *)
LEMMA StaysSafe ==
  ASSUME dropped \subseteq dropped',
         \A k \in DOMAIN files : files[k].durable =>
            k \in DOMAIN files' /\ files'[k].durable /\ files'[k].readings = files[k].readings
  PROVE  \A r : Safe(r) => Safe(r)'
  BY DEF Safe, OnDurable

(* A step that leaves the files alone keeps what is said of them. *)
LEMMA CardStays ==
  ASSUME Founded, LabelNeverUnderstates, dropped \subseteq dropped', files' = files
  PROVE  /\ \A r : Safe(r) => Safe(r)'
         /\ Founded' /\ LabelNeverUnderstates'
<1>1. \A r : Safe(r) => Safe(r)'
  BY StaysSafe
<1>2. Founded'
  BY <1>1 DEF Founded
<1>3. LabelNeverUnderstates'
  BY DEF LabelNeverUnderstates
<1> QED BY <1>1, <1>2, <1>3

(* What waits is taken to be sealed. *)
LEMMA SealBegun ==
  ASSUME NEW pending \in Seq(Reading), BeginSeal(pending), Ascending(pending), nextSequence' = nextSequence,
         \A i \in DOMAIN pending : pending[i].seq < nextSequence
  PROVE  /\ sealing' = pending /\ buffered' = <<>> /\ InOrder'
         /\ sealing' \in Seq(Reading) /\ buffered' \in Seq(Reading) /\ collapsed' \in BOOLEAN
         /\ \A r \in Seqs(pending) : r \in Seqs(sealing)'
<1>1. sealing' = pending /\ buffered' = <<>> /\ collapsed' \in BOOLEAN
  BY DEF BeginSeal, Collapses
<1>2. Seqs(sealing)' = Seqs(pending)
  BY <1>1 DEF Seqs
<1>3. Ascending(sealing)' /\ Ascending(buffered)'
  BY <1>1, NoRows DEF Ascending
<1>4. InOrder'
  BY <1>1, <1>3, NoRows DEF InOrder
<1> QED BY <1>1, <1>2, <1>4, NoRows

-----------------------------------------------------------------------------
(* The steps. *)
LEMMA AppendKeeps ==
  ASSUME LogInv, NEW trust \in TrustsSeen, AppendReading(trust)
  PROVE  LogInv'
<1> DEFINE all == Append(buffered, [seq |-> nextSequence, trust |-> trust])
           over == IF Len(all) > MaxBuffered THEN Len(all) - MaxBuffered ELSE 0
           given == {all[i].seq : i \in 1..over}
<1> USE DEF LogInv, LogHolds, Calls
<1>1. /\ all \in Seq(Reading) /\ Len(all) \in Nat \ {0} /\ DOMAIN all = 1..Len(all)
      /\ Ascending(all) /\ all[Len(all)].seq = nextSequence
      /\ \A i \in DOMAIN all : all[i].seq <= nextSequence
      /\ \A i \in DOMAIN sealing, j \in DOMAIN all : sealing[i].seq < all[j].seq
      /\ \A r \in Seqs(buffered) : \E i \in DOMAIN all : all[i].seq = r
  BY Arrived DEF AppendReading
<1>2. /\ Running /\ nextSequence < MaxReadings /\ nextSequence' = nextSequence + 1
      /\ buffered' = SubSeq(all, over + 1, Len(all)) /\ dropped' = dropped \union given
      /\ UNCHANGED <<sealing, collapsed, written, flush, files, service, faults>>
  BY DEF AppendReading
<1>3. nextSequence \in Nat
  BY Limits DEF LogTypeOK
<1> HIDE DEF all
<1>4. over \in 0..Len(all)
  BY <1>1, Limits
<1>5. \A i \in 1..over : all[i] \in Reading
  BY <1>1, <1>4
<1> HIDE DEF over
<1>6. given \subseteq 0..(MaxReadings - 1)
  BY <1>5 DEF Reading
<1>7. /\ buffered' \in Seq(Reading) /\ Ascending(buffered')
      /\ \A i \in DOMAIN buffered' : buffered'[i] = all[over + 1 + i - 1] /\ over + 1 + i - 1 \in DOMAIN all
      /\ \A i \in (over + 1)..Len(all) : all[i].seq \in Seqs(buffered')
  <2>1. over + 1 \in 1..(Len(all) + 1) /\ Len(all) \in ((over + 1) - 1)..Len(all)
    BY <1>1, <1>4
  <2> QED BY <1>1, <1>2, <2>1, PartOfRows, PartAscends
<1>8. /\ Seqs(buffered') = Seqs(buffered)'
      /\ Seqs(sealing') = Seqs(sealing)' /\ Seqs(sealing) = Seqs(sealing')
  BY <1>2 DEF Seqs
<1>9. \A i \in DOMAIN all : all[i].seq \in given \/ all[i].seq \in Seqs(buffered')
  <2>1. \A i \in DOMAIN all : i \in 1..over \/ i \in (over + 1)..Len(all)
    BY <1>1, <1>4
  <2> HIDE DEF given
  <2>2. \A i \in 1..over : all[i].seq \in given
    BY DEF given
  <2> QED BY <1>7, <2>1, <2>2
<1> HIDE DEF given
<1>10. LogTypeOK'
  BY <1>2, <1>3, <1>6, <1>7, Limits DEF LogTypeOK
<1>11. (\A r : Safe(r) => Safe(r)') /\ Founded' /\ LabelNeverUnderstates'
  BY <1>2, CardStays
<1>12. InOrder'
  <2>1. \A i \in DOMAIN sealing : sealing[i].seq < nextSequence'
    <3>1. \A i \in DOMAIN sealing : sealing[i].seq \in Nat /\ sealing[i].seq < nextSequence
      BY RowsAreNumbers DEF InOrder, LogTypeOK
    <3> QED BY <1>2, <1>3, <3>1
  <2>2. \A i \in DOMAIN buffered' : buffered'[i].seq < nextSequence'
    <3>1. \A i \in DOMAIN all : all[i].seq \in Nat
      BY <1>1, RowsAreNumbers
    <3>2. \A i \in DOMAIN all : all[i].seq < nextSequence'
      BY <1>1, <1>2, <1>3, <3>1
    <3> QED BY <1>7, <3>2
  <2>3. \A i \in DOMAIN sealing, j \in DOMAIN buffered' : sealing[i].seq < buffered'[j].seq
    BY <1>1, <1>7
  <2>4. Ascending(sealing)
    BY DEF InOrder
  <2> QED BY <1>2, <1>7, <2>1, <2>2, <2>3, <2>4 DEF InOrder, Ascending
<1>13. NoneLost'
  <2> SUFFICES ASSUME NEW r \in 0..(nextSequence' - 1) PROVE Kept(r)'
    BY DEF NoneLost
  <2>1. CASE r = nextSequence
    <3>1. r \in given \/ r \in Seqs(buffered')
      BY <1>1, <1>9, <2>1
    <3> QED BY <1>2, <1>8, <3>1 DEF Kept, Safe
  <2>2. CASE r \in 0..(nextSequence - 1)
    <3>1. Kept(r)
      BY <1>2, <2>2 DEF NoneLost
    <3>2. CASE Safe(r) \/ r \in Seqs(sealing)
      BY <1>8, <1>11, <3>2 DEF Kept
    <3>3. CASE r \in Seqs(buffered)
      <4>1. r \in given \/ r \in Seqs(buffered')
        BY <1>1, <1>9, <3>3
      <4> QED BY <1>2, <1>8, <4>1 DEF Kept, Safe
    <3> QED BY <3>1, <3>2, <3>3 DEF Kept
  <2> QED BY <1>2, <1>3, <2>1, <2>2
<1>14. Writing'
  <2>1. Run' = Run
    BY <1>2 DEF Run, RunLength
  <2> QED BY <1>2, <2>1 DEF Writing
<1>15. Promised'
  <2>1. \A c \in Callers : \A s \in 0..(flush[c].upTo - 1) : s \in Nat
    OBVIOUS
  <2> QED BY <1>2, <1>3, <1>8, <1>11, <2>1 DEF Promised
<1> QED BY <1>10, <1>11, <1>12, <1>13, <1>14, <1>15

(* A seal begins: by the timer, or for a caller of a flush. *)
LEMMA SealBeginsKeeps ==
  ASSUME LogInv, ~Sealing, Running, Running', BeginSeal(buffered),
         UNCHANGED <<nextSequence, written, files, dropped>>
  PROVE  /\ InOrder' /\ NoneLost' /\ Founded' /\ LabelNeverUnderstates' /\ Writing'
         /\ sealing' \in Seq(Reading) /\ buffered' \in Seq(Reading) /\ collapsed' \in BOOLEAN
         /\ \A r : Safe(r) => Safe(r)'
         /\ \A r \in 0..(nextSequence - 1) : Safe(r)' \/ r \in Seqs(sealing)'
         /\ buffered = <<>> => \A r \in 0..(nextSequence - 1) : Safe(r)'
         /\ ~written /\ ~written'
<1> USE DEF LogInv, LogHolds, Calls
<1>1. /\ buffered \in Seq(Reading) /\ Ascending(buffered)
      /\ \A i \in DOMAIN buffered : buffered[i].seq < nextSequence
  BY DEF LogTypeOK, InOrder
<1>2. /\ sealing' = buffered /\ buffered' = <<>> /\ InOrder'
      /\ sealing' \in Seq(Reading) /\ buffered' \in Seq(Reading) /\ collapsed' \in BOOLEAN
      /\ \A r \in Seqs(buffered) : r \in Seqs(sealing)'
  BY <1>1, SealBegun
<1>3. (\A r : Safe(r) => Safe(r)') /\ Founded' /\ LabelNeverUnderstates'
  BY CardStays
<1>4. sealing = <<>> /\ ~written
  BY DEF Sealing, Writing
<1>5. \A r \in 0..(nextSequence - 1) : Safe(r) \/ r \in Seqs(buffered)
  BY <1>4, NoRows DEF NoneLost, Kept
<1>6. NoneLost'
  BY <1>2, <1>3, <1>5 DEF NoneLost, Kept
<1> QED BY <1>2, <1>3, <1>4, <1>5, <1>6, NoRows DEF Writing

(* A caller asks for a seal. *)
LEMMA FlushKeeps ==
  ASSUME LogInv, Running, Running', NEW caller \in Callers, Flush(caller),
         UNCHANGED <<nextSequence, written, files, dropped, faults>>, service' \in {"up", "closing", "exited", "cut"}
  PROVE  LogInv'
<1> USE DEF LogInv, LogHolds, Calls
<1>1. nextSequence \in Nat /\ nextSequence \in 0..MaxReadings
  BY Limits DEF LogTypeOK
<1>2. PICK pass \in {"first", "done"} : flush' = [flush EXCEPT ![caller] = Asked(pass, nextSequence, FALSE)]
  BY DEF Flush
<1>3. /\ flush' \in [Callers -> Calls]
      /\ flush'[caller] = Asked(pass, nextSequence, FALSE)
      /\ \A c \in Callers \ {caller} : flush'[c] = flush[c]
  BY <1>1, <1>2 DEF LogTypeOK, Asked
<1>4. CASE Sealing
  <2>1. UNCHANGED <<sealing, collapsed, buffered>> /\ pass = "first"
    <3>1. UNCHANGED <<sealing, collapsed, buffered>>
          /\ flush' = [flush EXCEPT ![caller] = Asked("first", nextSequence, FALSE)]
      BY <1>4 DEF Flush
    <3>2. flush'[caller].pass = "first"
      BY <3>1 DEF LogTypeOK, Asked
    <3> QED BY <1>3, <3>1, <3>2 DEF Asked
  <2>2. (\A r : Safe(r) => Safe(r)') /\ Founded' /\ LabelNeverUnderstates'
    BY CardStays
  <2>3. Seqs(sealing)' = Seqs(sealing) /\ Seqs(buffered)' = Seqs(buffered) /\ Run' = Run
    BY <2>1 DEF Seqs, Run, RunLength
  <2>4. InOrder'
    BY <2>1 DEF InOrder, Ascending
  <2>5. NoneLost'
    BY <2>2, <2>3 DEF NoneLost, Kept
  <2>6. Writing'
    BY <2>1, <2>3 DEF Writing
  <2>7. Promised'
    <3> SUFFICES ASSUME NEW c \in Callers, NEW s \in 0..(flush'[c].upTo - 1)
                 PROVE  /\ s < nextSequence
                        /\ flush'[c].pass = "second" => Safe(s)' \/ s \in Seqs(sealing)'
                        /\ flush'[c].pass = "done" /\ ~flush'[c].refused => Safe(s)'
      BY DEF Promised
    <3>1. CASE c = caller
      BY <1>1, <1>3, <2>1, <3>1 DEF Asked
    <3>2. CASE c # caller
      BY <1>3, <2>2, <2>3, <3>2 DEF Promised
    <3> QED BY <3>1, <3>2
  <2>8. LogTypeOK'
    BY <1>3, <2>1 DEF LogTypeOK
  <2> QED BY <2>2, <2>4, <2>5, <2>6, <2>7, <2>8
<1>5. CASE ~Sealing
  <2>1. BeginSeal(buffered) /\ (pass = "done" => buffered = <<>>)
    <3>1. BeginSeal(buffered)
          /\ flush' = [flush EXCEPT ![caller] =
                         Asked(IF buffered = <<>> THEN "done" ELSE "first", nextSequence, FALSE)]
      BY <1>5 DEF Flush
    <3>2. flush'[caller].pass = IF buffered = <<>> THEN "done" ELSE "first"
      BY <3>1 DEF LogTypeOK, Asked
    <3> QED BY <1>3, <3>1, <3>2 DEF Asked
  <2>2. /\ InOrder' /\ NoneLost' /\ Founded' /\ LabelNeverUnderstates' /\ Writing'
        /\ sealing' \in Seq(Reading) /\ buffered' \in Seq(Reading) /\ collapsed' \in BOOLEAN
        /\ \A r : Safe(r) => Safe(r)'
        /\ buffered = <<>> => \A r \in 0..(nextSequence - 1) : Safe(r)'
    BY <1>5, <2>1, SealBeginsKeeps
  <2>3. Seqs(sealing) = {}
    BY <1>5, NoRows DEF Sealing
  <2>4. Promised'
    <3> SUFFICES ASSUME NEW c \in Callers, NEW s \in 0..(flush'[c].upTo - 1)
                 PROVE  /\ s < nextSequence
                        /\ flush'[c].pass = "second" => Safe(s)' \/ s \in Seqs(sealing)'
                        /\ flush'[c].pass = "done" /\ ~flush'[c].refused => Safe(s)'
      BY DEF Promised
    <3>1. CASE c = caller
      <4>1. flush'[c].upTo = nextSequence /\ flush'[c].pass = pass /\ pass # "second"
        BY <1>3, <3>1 DEF Asked
      <4>2. s \in 0..(nextSequence - 1) /\ s < nextSequence
        BY <1>1, <4>1
      <4> QED BY <2>1, <2>2, <4>1, <4>2
    <3>2. CASE c # caller
      BY <1>3, <2>2, <2>3, <3>2 DEF Promised
    <3> QED BY <3>1, <3>2
  <2>5. LogTypeOK'
    BY <1>3, <2>2 DEF LogTypeOK
  <2> QED BY <2>2, <2>4, <2>5
<1> QED BY <1>4, <1>5

(* The timer asks for one. *)
LEMMA TimerKeeps ==
  ASSUME LogInv, TimerSeal
  PROVE  LogInv'
<1> USE DEF LogInv, LogHolds, Calls
<1>1. /\ ~Sealing /\ Running /\ Running' /\ BeginSeal(buffered)
      /\ UNCHANGED <<nextSequence, written, flush, files, service, dropped, faults>>
  BY DEF TimerSeal, Running
<1>2. /\ InOrder' /\ NoneLost' /\ Founded' /\ LabelNeverUnderstates' /\ Writing'
      /\ sealing' \in Seq(Reading) /\ buffered' \in Seq(Reading) /\ collapsed' \in BOOLEAN
      /\ \A r : Safe(r) => Safe(r)'
  BY <1>1, SealBeginsKeeps
<1>3. Seqs(sealing) = {}
  BY <1>1, NoRows DEF Sealing
<1>4. Promised'
  BY <1>1, <1>2, <1>3 DEF Promised
<1>5. LogTypeOK'
  BY <1>1, <1>2 DEF LogTypeOK
<1> QED BY <1>2, <1>4, <1>5

(* A segment is written, on top of older rows that are flushed. *)
LEMMA WriteKeeps ==
  ASSUME LogInv, WriteSegment
  PROVE  LogInv'
<1> USE DEF LogInv, LogHolds, Calls
<1>1. /\ Running /\ Sealing /\ ~written /\ files' = Append(files, Run) /\ written' = TRUE
      /\ UNCHANGED <<buffered, nextSequence, sealing, collapsed, flush, service, dropped, faults>>
  BY DEF WriteSegment
<1>2. /\ Run \in Segment
      /\ \A i \in DOMAIN Run.readings : Pessimism[Run.trust] >= Pessimism[Run.readings[i].trust]
      /\ Run.durable = FALSE
  BY <1>1, RunFits
<1>3. /\ \A r \in Seqs(sealing) : r \in Seqs(Run.readings) \/ r \in Seqs(Rest)
      /\ \A r \in Seqs(Run.readings) : r \in Seqs(sealing)
      /\ \A s \in Seqs(Run.readings), r \in Seqs(Rest) : s < r
  BY <1>1, RunAndRest DEF InOrder
<1>4. /\ Run' = Run /\ Seqs(sealing)' = Seqs(sealing) /\ Seqs(buffered)' = Seqs(buffered)
  BY <1>1 DEF Run, RunLength, Seqs
<1> DEFINE n == Len(files) + 1
<1> HIDE DEF Run, Rest
<1>5. /\ files \in Seq(Segment) /\ Len(files) \in Nat /\ DOMAIN files = 1..Len(files)
      /\ files' \in Seq(Segment) /\ Len(files') = n /\ DOMAIN files' = 1..n /\ files' # <<>>
      /\ files'[n] = Run /\ \A k \in DOMAIN files : k \in DOMAIN files' /\ files'[k] = files[k]
  <2>1. files \in Seq(Segment) /\ Len(files) \in Nat /\ DOMAIN files = 1..Len(files)
    BY DEF LogTypeOK
  <2>2. /\ files' \in Seq(Segment) /\ Len(files') = n /\ DOMAIN files' = 1..n
        /\ files'[n] = Run /\ \A k \in 1..Len(files) : files'[k] = files[k]
    BY <1>1, <1>2, <2>1
  <2>3. files' # <<>>
    BY <2>1, <2>2
  <2> QED BY <2>1, <2>2, <2>3
<1>6. \A k \in DOMAIN files' : k \in DOMAIN files \/ files'[k] = Run
  BY <1>5
<1>7. \A r : Safe(r) => Safe(r)'
  BY <1>1, <1>5, StaysSafe
<1>8. LogTypeOK'
  BY <1>1, <1>5 DEF LogTypeOK
<1>9. InOrder'
  BY <1>1 DEF InOrder, Ascending
<1>10. NoneLost'
  BY <1>1, <1>4, <1>7 DEF NoneLost, Kept, Running
<1>11. Writing'
  BY <1>1, <1>4, <1>5 DEF Writing, Sealing
<1>12. Promised'
  BY <1>1, <1>4, <1>7 DEF Promised
<1>13. LabelNeverUnderstates'
  BY <1>2, <1>5, <1>6 DEF LabelNeverUnderstates
<1>14. Founded'
  <2> SUFFICES ASSUME NEW k \in DOMAIN files', NEW s \in Seqs(files'[k].readings), NEW r \in 0..(s - 1)
               PROVE  Safe(r)' \/ r \in Seqs(files'[k].readings)
    BY DEF Founded, Seqs
  <2>1. CASE k \in DOMAIN files
    BY <1>5, <1>7, <2>1 DEF Founded
  <2>2. CASE files'[k] = Run
    <3>1. s \in Seqs(sealing) /\ s \in Nat /\ r \in Nat /\ r < s
      <4>1. s \in Seqs(sealing)
        BY <1>3, <2>2
      <4>2. s \in Nat
        BY <4>1, RowsAreNumbers DEF LogTypeOK
      <4> QED BY <4>1, <4>2
    <3>2. PICK i \in DOMAIN sealing : sealing[i].seq = s
      BY <3>1 DEF Seqs
    <3>3. s < nextSequence /\ nextSequence \in Nat
      BY <3>2, Limits DEF InOrder, LogTypeOK
    <3>4. r \in 0..(nextSequence - 1)
      BY <3>1, <3>3
    <3>5. Kept(r)
      BY <1>1, <3>4 DEF NoneLost
    <3>6. r \notin Seqs(buffered)
      BY <3>1, <3>2 DEF InOrder, Seqs
    <3>7. r \notin Seqs(Rest)
      BY <1>3, <2>2, <3>1
    <3> QED BY <1>3, <1>7, <2>2, <3>5, <3>6, <3>7 DEF Kept
  <2> QED BY <1>6, <2>1, <2>2
<1> QED BY <1>8, <1>9, <1>10, <1>11, <1>12, <1>13, <1>14

(* The active seal is over, and the next one is begun for those who joined it.  *)
LEMMA SealOver ==
  ASSUME LogInv, NEW waiting \in Seq(Reading), NEW failed \in BOOLEAN, SealEnds(waiting, failed),
         nextSequence' = nextSequence, written' = FALSE, Ascending(waiting),
         \A i \in DOMAIN waiting : waiting[i].seq < nextSequence,
         \A r : Safe(r) => Safe(r)',
         \A r \in 0..(nextSequence - 1) : Safe(r)' \/ r \in Seqs(waiting),
         ~failed => \A r \in Seqs(sealing) : Safe(r)'
  PROVE  /\ InOrder' /\ NoneLost' /\ Writing' /\ Promised'
         /\ sealing' \in Seq(Reading) /\ buffered' \in Seq(Reading) /\ collapsed' \in BOOLEAN
         /\ flush' \in [Callers -> Calls]
<1> USE DEF LogInv, LogHolds, Calls
<1> DEFINE again == waiting # <<>> /\ \E c \in Callers : flush[c].pass = "first"
<1>1. flush' = [c \in Callers |->
                    CASE flush[c].pass = "second" -> [flush[c] EXCEPT !.pass = "done", !.refused = failed]
                      [] flush[c].pass = "first" -> [flush[c] EXCEPT !.pass = IF again THEN "second" ELSE "done"]
                      [] OTHER -> flush[c]]
  BY DEF SealEnds
<1>2. IF again THEN BeginSeal(waiting) ELSE sealing' = <<>> /\ collapsed' = FALSE /\ buffered' = waiting
  BY DEF SealEnds
<1>3. flush \in [Callers -> Calls]
  BY DEF LogTypeOK
<1>4. \A c \in Callers : flush[c] \in Calls
  BY <1>3
<1>5. \A c \in Callers :
        /\ flush'[c].upTo = flush[c].upTo
        /\ flush[c].pass = "second" => flush'[c].pass = "done" /\ flush'[c].refused = failed
        /\ flush[c].pass = "first" => flush'[c].pass = IF again THEN "second" ELSE "done"
        /\ flush[c].pass \notin {"first", "second"} => flush'[c] = flush[c]
        /\ flush'[c] \in Calls
  <2> TAKE c \in Callers
  <2>1. CASE flush[c].pass = "second"
    <3>1. flush'[c] = [flush[c] EXCEPT !.pass = "done", !.refused = failed]
      BY <1>1, <2>1
    <3> QED BY <1>4, <2>1, <3>1
  <2>2. CASE flush[c].pass = "first"
    <3>1. flush'[c] = [flush[c] EXCEPT !.pass = IF again THEN "second" ELSE "done"]
      BY <1>1, <2>2
    <3> HIDE DEF again
    <3> QED BY <1>4, <2>2, <3>1
  <2>3. CASE flush[c].pass \notin {"first", "second"}
    <3>1. flush'[c] = flush[c]
      BY <1>1, <2>3
    <3> QED BY <1>4, <2>3, <3>1
  <2> QED BY <2>1, <2>2, <2>3
<1>6. flush' \in [Callers -> Calls]
  <2>1. flush' = [c \in Callers |-> flush'[c]]
    BY <1>1
  <2> HIDE DEF again
  <2> QED BY <1>5, <2>1
<1>7. again => \E c \in Callers : flush[c].pass = "first"
  OBVIOUS
<1>8. (\E c \in Callers : flush[c].pass = "first") /\ ~again => waiting = <<>>
  OBVIOUS
<1> HIDE DEF again
<1>9. /\ sealing' \in Seq(Reading) /\ buffered' \in Seq(Reading) /\ collapsed' \in BOOLEAN /\ InOrder'
      /\ \A r \in Seqs(waiting) : r \in Seqs(sealing)' \/ r \in Seqs(buffered)'
      /\ again => \A r \in Seqs(waiting) : r \in Seqs(sealing)'
  <2>1. CASE again
    BY <1>2, <2>1, SealBegun
  <2>2. CASE ~again
    <3>1. sealing' = <<>> /\ collapsed' = FALSE /\ buffered' = waiting
      BY <1>2, <2>2
    <3>2. Seqs(buffered)' = Seqs(waiting)
      BY <3>1 DEF Seqs
    <3>3. InOrder'
      BY <3>1, NoRows DEF InOrder, Ascending
    <3> QED BY <2>2, <3>1, <3>2, <3>3, NoRows
  <2> QED BY <2>1, <2>2
<1>10. NoneLost'
  BY <1>9 DEF NoneLost, Kept
<1>11. Writing'
  BY DEF Writing
<1>12. Promised'
  <2> SUFFICES ASSUME NEW c \in Callers, NEW s \in 0..(flush'[c].upTo - 1)
               PROVE  /\ s < nextSequence'
                      /\ flush'[c].pass = "second" => Safe(s)' \/ s \in Seqs(sealing)'
                      /\ flush'[c].pass = "done" /\ ~flush'[c].refused => Safe(s)'
    BY DEF Promised
  <2>1. s \in 0..(flush[c].upTo - 1) /\ s < nextSequence /\ s < nextSequence' /\ s \in 0..(nextSequence - 1)
    <3>1. s \in 0..(flush[c].upTo - 1)
      BY <1>5
    <3>2. s < nextSequence /\ s \in Nat /\ nextSequence \in Nat
      BY <3>1, Limits DEF Promised, LogTypeOK
    <3> QED BY <3>1, <3>2
  <2>2. CASE flush[c].pass = "second"
    <3>1. Safe(s) \/ s \in Seqs(sealing)
      BY <2>1, <2>2 DEF Promised
    <3> QED BY <1>5, <2>1, <2>2, <3>1
  <2>3. CASE flush[c].pass = "first"
    <3>1. CASE again
      BY <1>5, <1>9, <2>1, <2>3, <3>1
    <3>2. CASE ~again
      <4>1. waiting = <<>>
        BY <1>8, <2>3, <3>2
      <4> QED BY <2>1, <2>3, <3>2, <4>1, <1>5, NoRows
    <3> QED BY <3>1, <3>2
  <2>4. CASE flush[c].pass \notin {"first", "second"}
    <3>1. flush'[c] = flush[c]
      BY <1>5, <2>4
    <3> QED BY <2>1, <2>4, <3>1 DEF Promised
  <2> QED BY <2>2, <2>3, <2>4
<1> QED BY <1>6, <1>9, <1>10, <1>11, <1>12

(* It is flushed. *)
LEMMA FlushedKeeps ==
  ASSUME LogInv, FlushSegment
  PROVE  LogInv'
<1> USE DEF LogInv, LogHolds, Calls
<1>1. /\ Running /\ written /\ files' = [files EXCEPT ![Len(files)].durable = TRUE] /\ written' = FALSE
      /\ IF Rest # <<>> THEN sealing' = Rest /\ UNCHANGED <<collapsed, buffered, flush>>
                            ELSE SealEnds(buffered, FALSE)
      /\ UNCHANGED <<nextSequence, service, dropped, faults>>
  BY DEF FlushSegment
<1>2. Sealing /\ files # <<>> /\ files[Len(files)].readings = Run.readings
  BY <1>1 DEF Writing, Sealing
<1>3. /\ \A r \in Seqs(sealing) : r \in Seqs(Run.readings) \/ r \in Seqs(Rest)
      /\ \A r \in Seqs(Rest) : r \in Seqs(sealing)
      /\ Rest = <<>> => \A r \in Seqs(sealing) : r \in Seqs(Run.readings)
      /\ Ascending(Rest) /\ Rest \in Seq(Reading)
  BY <1>2, RunAndRest, RunFits DEF InOrder
<1> HIDE DEF Run, Rest
<1>4. /\ files \in Seq(Segment) /\ Len(files) \in Nat \ {0}
      /\ DOMAIN files = 1..Len(files) /\ Len(files) \in DOMAIN files
  BY <1>2, EmptySeq DEF LogTypeOK
<1>5. \A k \in DOMAIN files : files[k] \in Segment
  BY <1>4
<1>6. /\ DOMAIN files' = DOMAIN files
      /\ \A k \in DOMAIN files : k # Len(files) => files'[k] = files[k]
      /\ files'[Len(files)] = [files[Len(files)] EXCEPT !.durable = TRUE]
  BY <1>1, <1>4
<1>7. /\ files'[Len(files)].durable /\ files'[Len(files)].readings = files[Len(files)].readings
      /\ files'[Len(files)].trust = files[Len(files)].trust /\ files'[Len(files)] \in Segment
  BY <1>4, <1>5, <1>6 DEF Segment
<1>8. \A k \in DOMAIN files : /\ files'[k].readings = files[k].readings /\ files'[k].trust = files[k].trust
                              /\ files[k].durable => files'[k].durable
                              /\ files'[k] \in Segment
  BY <1>5, <1>6, <1>7
<1>9. files' \in Seq(Segment)
  <2>1. files' \in [1..Len(files) -> Segment]
    <3>1. files' = [k \in 1..Len(files) |-> files'[k]]
      BY <1>1, <1>4
    <3> QED BY <1>4, <1>8, <3>1
  <2> QED BY <1>4, <2>1, SeqDef
<1>10. \A r : Safe(r) => Safe(r)'
  BY <1>1, <1>6, <1>8, StaysSafe
<1>11. \A r \in Seqs(Run.readings) : Safe(r)'
  <2> SUFFICES ASSUME NEW r \in Seqs(Run.readings) PROVE OnDurable(r)'
    BY DEF Safe
  <2>1. r \in Seqs(files'[Len(files)].readings)
    BY <1>2, <1>7
  <2>2. \E k \in DOMAIN files' : files'[k].durable /\ r \in Seqs(files'[k].readings)
    BY <1>4, <1>6, <1>7, <2>1
  <2> QED BY <2>2 DEF OnDurable, Seqs
<1>12. Founded'
  <2> SUFFICES ASSUME NEW k \in DOMAIN files', NEW s \in Seqs(files'[k].readings), NEW r \in 0..(s - 1)
               PROVE  Safe(r)' \/ r \in Seqs(files'[k].readings)
    BY DEF Founded, Seqs
  <2>1. k \in DOMAIN files /\ files'[k].readings = files[k].readings
    BY <1>6, <1>8
  <2> QED BY <1>10, <2>1 DEF Founded
<1>13. LabelNeverUnderstates'
  BY <1>6, <1>8 DEF LabelNeverUnderstates
<1>14. CASE Rest # <<>>
  <2>1. sealing' = Rest /\ UNCHANGED <<collapsed, buffered, flush>>
    BY <1>1, <1>14
  <2>2. Seqs(sealing)' = Seqs(Rest) /\ Seqs(buffered)' = Seqs(buffered)
    BY <2>1 DEF Seqs
  <2>3. \A i \in DOMAIN Rest : \E j \in DOMAIN sealing : sealing[j].seq = Rest[i].seq
    BY <1>3 DEF Seqs
  <2>4. InOrder'
    <3>1. \A i \in DOMAIN Rest : Rest[i].seq < nextSequence
      BY <2>3 DEF InOrder
    <3>2. \A i \in DOMAIN Rest, j \in DOMAIN buffered : Rest[i].seq < buffered[j].seq
      BY <2>3 DEF InOrder
    <3> QED BY <1>1, <1>3, <2>1, <3>1, <3>2 DEF InOrder, Ascending
  <2>5. \A r : r \in Seqs(sealing) => Safe(r)' \/ r \in Seqs(sealing)'
    BY <1>3, <1>11, <2>2
  <2>6. NoneLost'
    BY <1>1, <1>10, <2>2, <2>5 DEF NoneLost, Kept, Running
  <2>7. Writing'
    BY <1>1 DEF Writing
  <2>8. Promised'
    BY <1>1, <1>10, <2>1, <2>5 DEF Promised
  <2>9. LogTypeOK'
    BY <1>1, <1>3, <1>9, <2>1 DEF LogTypeOK
  <2> QED BY <1>12, <1>13, <2>4, <2>6, <2>7, <2>8, <2>9
<1>15. CASE Rest = <<>>
  <2>1. SealEnds(buffered, FALSE)
    BY <1>1, <1>15
  <2>2. \A r \in Seqs(sealing) : Safe(r)'
    BY <1>3, <1>11, <1>15
  <2>3. \A r \in 0..(nextSequence - 1) : Safe(r)' \/ r \in Seqs(buffered)
    BY <1>1, <1>10, <2>2 DEF NoneLost, Kept
  <2>4. /\ buffered \in Seq(Reading) /\ Ascending(buffered)
        /\ \A i \in DOMAIN buffered : buffered[i].seq < nextSequence
    BY DEF LogTypeOK, InOrder
  <2>5. /\ InOrder' /\ NoneLost' /\ Writing' /\ Promised'
        /\ sealing' \in Seq(Reading) /\ buffered' \in Seq(Reading) /\ collapsed' \in BOOLEAN
        /\ flush' \in [Callers -> Calls]
    BY <1>1, <1>10, <2>1, <2>2, <2>3, <2>4, SealOver
  <2>6. LogTypeOK'
    BY <1>1, <1>9, <2>5 DEF LogTypeOK
  <2> QED BY <1>12, <1>13, <2>5, <2>6
<1> QED BY <1>14, <1>15

(* What is not sealed goes back in front of the buffer. *)
LEMMA FailKeeps ==
  ASSUME LogInv, SealFails
  PROVE  LogInv'
<1> USE DEF LogInv, LogHolds, Calls
<1>1. /\ Running /\ Sealing /\ faults < MaxFailures /\ faults' = faults + 1 /\ written' = FALSE
      /\ SealEnds(sealing \o buffered, TRUE)
      /\ UNCHANGED <<nextSequence, files, service, dropped>>
  BY DEF SealFails
<1> DEFINE waiting == sealing \o buffered
           m == Len(sealing)
<1>2. sealing \in Seq(Reading) /\ buffered \in Seq(Reading) /\ m \in Nat /\ Len(buffered) \in Nat
      /\ DOMAIN sealing = 1..m /\ DOMAIN buffered = 1..Len(buffered)
  BY DEF LogTypeOK
<1>3. /\ waiting \in Seq(Reading) /\ DOMAIN waiting = 1..(m + Len(buffered))
      /\ \A i \in 1..m : waiting[i] = sealing[i]
      /\ \A i \in 1..Len(buffered) : waiting[m + i] = buffered[i]
  BY <1>2
<1> HIDE DEF waiting, m
<1>4. \A i \in DOMAIN waiting : \/ i \in DOMAIN sealing /\ waiting[i] = sealing[i]
                                \/ /\ i - m \in DOMAIN buffered /\ waiting[i] = buffered[i - m]
                                   /\ i \notin DOMAIN sealing
  <2> TAKE i \in DOMAIN waiting
  <2>1. CASE i \in 1..m
    BY <1>2, <1>3, <2>1
  <2>2. CASE i \notin 1..m
    <3>1. i - m \in 1..Len(buffered) /\ m + (i - m) = i
      BY <1>2, <1>3, <2>2
    <3>2. waiting[m + (i - m)] = buffered[i - m]
      BY <1>3, <3>1
    <3>3. waiting[i] = buffered[i - m]
      BY <3>1, <3>2
    <3> QED BY <1>2, <2>2, <3>1, <3>3
  <2> QED BY <2>1, <2>2
<1>5. \A i \in DOMAIN waiting : waiting[i].seq < nextSequence
  BY <1>4 DEF InOrder
<1>6. Ascending(waiting)
  <2> SUFFICES ASSUME NEW i \in DOMAIN waiting, NEW j \in DOMAIN waiting, i < j
               PROVE  waiting[i].seq < waiting[j].seq
    BY DEF Ascending
  <2>1. CASE i \in DOMAIN sealing /\ waiting[i] = sealing[i] /\ j \in DOMAIN sealing /\ waiting[j] = sealing[j]
    BY <2>1 DEF InOrder, Ascending
  <2>2. CASE /\ i \in DOMAIN sealing /\ waiting[i] = sealing[i]
             /\ j - m \in DOMAIN buffered /\ waiting[j] = buffered[j - m]
    BY <2>2 DEF InOrder
  <2>3. CASE /\ i - m \in DOMAIN buffered /\ waiting[i] = buffered[i - m]
             /\ j - m \in DOMAIN buffered /\ waiting[j] = buffered[j - m]
    <3>1. i - m < j - m
      BY <1>2, <1>3
    <3> QED BY <2>3, <3>1 DEF InOrder, Ascending
  <2>4. ~(j \in DOMAIN sealing /\ i \notin DOMAIN sealing)
    BY <1>2, <1>3
  <2> QED BY <1>4, <2>1, <2>2, <2>3, <2>4
<1>7. (\A r : Safe(r) => Safe(r)') /\ Founded' /\ LabelNeverUnderstates'
  BY <1>1, CardStays
<1>8. \A r : r \in Seqs(sealing) \/ r \in Seqs(buffered) => r \in Seqs(waiting)
  <2>1. \A i \in DOMAIN sealing : i \in DOMAIN waiting /\ waiting[i] = sealing[i]
    BY <1>2, <1>3
  <2>2. \A i \in DOMAIN buffered : m + i \in DOMAIN waiting /\ waiting[m + i] = buffered[i]
    BY <1>2, <1>3
  <2> QED BY <2>1, <2>2 DEF Seqs
<1>9. \A r \in 0..(nextSequence - 1) : Safe(r)' \/ r \in Seqs(waiting)
  BY <1>1, <1>7, <1>8 DEF NoneLost, Kept
<1>10. SealEnds(waiting, TRUE)
  BY <1>1 DEF waiting
<1>11. /\ InOrder' /\ NoneLost' /\ Writing' /\ Promised'
       /\ sealing' \in Seq(Reading) /\ buffered' \in Seq(Reading) /\ collapsed' \in BOOLEAN
       /\ flush' \in [Callers -> Calls]
  BY <1>1, <1>3, <1>5, <1>6, <1>7, <1>9, <1>10, SealOver
<1>12. faults' \in 0..MaxFailures
  BY <1>1, Limits DEF LogTypeOK
<1>13. LogTypeOK'
  BY <1>1, <1>11, <1>12 DEF LogTypeOK
<1> QED BY <1>7, <1>11, <1>13

(* The process is gone, and with it everything but the card. *)
LEMMA GoneKeeps ==
  ASSUME LogInv, ProcessGone, service' \in {"exited", "cut"},
         UNCHANGED <<nextSequence, dropped, faults>>,
         files' \in Seq(Segment), DOMAIN files' = DOMAIN files,
         \A k \in DOMAIN files : files'[k] = files[k] \/ (files'[k].readings = <<>> /\ ~files[k].durable)
  PROVE  LogInv'
<1> USE DEF LogInv, LogHolds, Calls
<1>1. /\ buffered' = <<>> /\ sealing' = <<>> /\ collapsed' = FALSE /\ written' = FALSE
      /\ flush' = [c \in Callers |-> Asked("idle", 0, FALSE)]
  BY DEF ProcessGone
<1>2. ~Running'
  BY DEF Running
<1>3. \A r : Safe(r) => Safe(r)'
  BY StaysSafe
<1>4. LogTypeOK'
  <2>1. flush' \in [Callers -> Calls]
    BY <1>1, Limits DEF Asked
  <2> QED BY <1>1, <2>1, NoRows DEF LogTypeOK
<1>5. InOrder'
  BY <1>1, NoRows DEF InOrder, Ascending
<1>6. NoneLost' /\ Writing'
  BY <1>1, <1>2 DEF NoneLost, Writing
<1>7. Promised'
  <2>1. \A c \in Callers : flush'[c].upTo = 0
    BY <1>1 DEF Asked
  <2> QED BY <2>1 DEF Promised
<1>8. \A k \in DOMAIN files' : \A s \in Seqs(files'[k].readings) : files'[k] = files[k]
  BY NoRows
<1>9. Founded'
  <2> SUFFICES ASSUME NEW k \in DOMAIN files', NEW s \in Seqs(files'[k].readings), NEW r \in 0..(s - 1)
               PROVE  Safe(r)' \/ r \in Seqs(files'[k].readings)
    BY DEF Founded, Seqs
  <2>1. k \in DOMAIN files /\ files'[k] = files[k]
    BY <1>8
  <2> QED BY <1>3, <2>1 DEF Founded
<1>10. LabelNeverUnderstates'
  <2>1. \A k \in DOMAIN files' : \A i \in DOMAIN files'[k].readings : k \in DOMAIN files /\ files'[k] = files[k]
    BY NoRows
  <2> QED BY <2>1 DEF LabelNeverUnderstates
<1> QED BY <1>4, <1>5, <1>6, <1>7, <1>9, <1>10

(* A cut takes only what was not flushed. *)
LEMMA CutKeeps ==
  ASSUME LogInv, PowerGoes
  PROVE  LogInv'
<1>1. /\ ProcessGone /\ service' = "cut" /\ UNCHANGED <<nextSequence, dropped, faults>>
  BY DEF PowerGoes
<1>2. PICK lost \in SUBSET {k \in DOMAIN files : ~files[k].durable} :
        files' = [k \in DOMAIN files |-> IF k \in lost THEN [files[k] EXCEPT !.readings = <<>>] ELSE files[k]]
  BY DEF PowerGoes
<1>3. /\ files \in Seq(Segment) /\ Len(files) \in Nat /\ DOMAIN files = 1..Len(files)
      /\ \A k \in DOMAIN files : files[k] \in Segment
  BY DEF LogInv, LogTypeOK
<1>4. \A k \in DOMAIN files : [files[k] EXCEPT !.readings = <<>>] \in Segment
                             /\ [files[k] EXCEPT !.readings = <<>>].readings = <<>>
  BY <1>3, NoRows DEF Segment
<1>5. DOMAIN files' = DOMAIN files
      /\ \A k \in DOMAIN files : files'[k] = IF k \in lost THEN [files[k] EXCEPT !.readings = <<>>] ELSE files[k]
  BY <1>2
<1>6. \A k \in DOMAIN files : /\ files'[k] = files[k] \/ (files'[k].readings = <<>> /\ ~files[k].durable)
                              /\ files'[k] \in Segment
  <2> TAKE k \in DOMAIN files
  <2>1. CASE k \in lost
    <3>1. files'[k] = [files[k] EXCEPT !.readings = <<>>] /\ ~files[k].durable
      BY <1>5, <2>1
    <3> QED BY <1>4, <3>1
  <2>2. CASE k \notin lost
    <3>1. files'[k] = files[k]
      BY <1>5, <2>2
    <3> QED BY <1>3, <3>1
  <2> QED BY <2>1, <2>2
<1>7. files' \in Seq(Segment)
  <2>1. files' = [k \in 1..Len(files) |-> files'[k]]
    BY <1>2, <1>3
  <2>2. files' \in [1..Len(files) -> Segment]
    BY <1>3, <1>6, <2>1
  <2> QED BY <1>3, <2>2, SeqDef
<1> QED BY <1>1, <1>5, <1>6, <1>7, GoneKeeps

LEMMA ExitKeeps ==
  ASSUME LogInv, Exit
  PROVE  LogInv'
<1>1. ProcessGone /\ service' = "exited" /\ UNCHANGED <<nextSequence, files, dropped, faults>>
  BY DEF Exit
<1>2. /\ files' \in Seq(Segment) /\ DOMAIN files' = DOMAIN files
      /\ \A k \in DOMAIN files : files'[k] = files[k]
  BY <1>1 DEF LogInv, LogTypeOK
<1> QED BY <1>1, <1>2, GoneKeeps

LEMMA CloseKeeps ==
  ASSUME LogInv, Close
  PROVE  LogInv'
<1>1. /\ Running /\ Running' /\ Flush("close") /\ "close" \in Callers /\ service' = "closing"
      /\ UNCHANGED <<nextSequence, written, files, dropped, faults>>
  BY DEF Close, Running, Callers
<1> QED BY <1>1, FlushKeeps

LEMMA FlushForKeeps ==
  ASSUME LogInv, NEW caller \in {"park", "download"}, FlushFor(caller)
  PROVE  LogInv'
<1>1. /\ Running /\ Running' /\ Flush(caller) /\ caller \in Callers
      /\ service' \in {"up", "closing", "exited", "cut"}
      /\ UNCHANGED <<nextSequence, written, files, dropped, faults>>
  BY DEF FlushFor, Running, Callers, LogInv, LogTypeOK
<1> QED BY <1>1, FlushKeeps

LEMMA StutterKeeps ==
  ASSUME LogInv, UNCHANGED logVars
  PROVE  LogInv'
<1> USE DEF LogInv, LogHolds, Calls
<1>1. UNCHANGED <<buffered, nextSequence, sealing, collapsed, written, flush, files, service, dropped, faults>>
  BY DEF logVars
<1>2. (\A r : Safe(r) => Safe(r)') /\ Founded' /\ LabelNeverUnderstates'
  BY <1>1, CardStays
<1>3. /\ Seqs(sealing)' = Seqs(sealing) /\ Seqs(buffered)' = Seqs(buffered)
      /\ Run' = Run /\ Running' = Running
  BY <1>1 DEF Seqs, Run, RunLength, Running
<1>4. InOrder' /\ LogTypeOK'
  BY <1>1 DEF InOrder, Ascending, LogTypeOK
<1>5. NoneLost'
  BY <1>1, <1>2, <1>3 DEF NoneLost, Kept
<1>6. Writing'
  BY <1>1, <1>3 DEF Writing
<1>7. Promised'
  BY <1>1, <1>2, <1>3 DEF Promised
<1> QED BY <1>2, <1>4, <1>5, <1>6, <1>7

(* Nothing is logged at first. *)
LEMMA LogInvStarts ==
  ASSUME LogInit
  PROVE  LogInv
<1> USE DEF LogInit, Calls
<1>1. LogTypeOK
  <2>1. flush \in [Callers -> Calls]
    BY Limits DEF Asked
  <2>2. files \in Seq(Segment) /\ nextSequence \in 0..MaxReadings /\ faults \in 0..MaxFailures
    BY Limits
  <2> QED BY <2>1, <2>2, NoRows DEF LogTypeOK
<1>2. InOrder
  BY NoRows DEF InOrder
<1>3. NoneLost /\ Writing
  BY DEF NoneLost, Writing
<1>4. Founded /\ LabelNeverUnderstates
  BY NoRows DEF Founded, LabelNeverUnderstates
<1>5. Promised
  <2>1. \A c \in Callers : flush[c].upTo = 0
    BY DEF Asked
  <2> HIDE DEF LogInit
  <2> QED BY <2>1 DEF Promised
<1> QED BY <1>1, <1>2, <1>3, <1>4, <1>5 DEF LogInv, LogHolds

(* Every step keeps the invariant. *)
LEMMA LogInvStays ==
  ASSUME LogInv, [LogNext]_logVars
  PROVE  LogInv'
<1>1. ASSUME NEW trust \in TrustsSeen, AppendReading(trust) PROVE LogInv'
  BY <1>1, AppendKeeps
<1>2. ASSUME NEW caller \in {"park", "download"}, FlushFor(caller) PROVE LogInv'
  BY <1>2, FlushForKeeps
<1> QED BY <1>1, <1>2, TimerKeeps, CloseKeeps, WriteKeeps, FlushedKeeps, FailKeeps, ExitKeeps,
     CutKeeps, StutterKeeps DEF LogNext

LEMMA LogInvHolds == LogSpec => []LogInv
<1>1. LogInit => LogInv
  BY LogInvStarts
<1>2. LogInv /\ [LogNext]_logVars => LogInv'
  BY LogInvStays
<1> QED BY <1>1, <1>2, PTL DEF LogSpec

-----------------------------------------------------------------------------
(* What a cut leaves of a ride has no gap in it, however the seals were retried  *)
(* and split (encrypted-log.ts: sealRuns, appendDurably).                        *)
THEOREM CutPrefix == LogSpec => []CutLeavesAPrefix
<1>1. LogInv => CutLeavesAPrefix
  <2> SUFFICES ASSUME LogInv, NEW s \in OnCard, NEW r \in 0..(s - 1)
               PROVE  r \in OnCard \union dropped
    BY DEF CutLeavesAPrefix
  <2>1. PICK k \in DOMAIN files : s \in Seqs(files[k].readings)
    BY DEF OnCard
  <2>2. Safe(r) \/ r \in Seqs(files[k].readings)
    BY <2>1 DEF LogInv, LogHolds, Founded
  <2> QED BY <2>2 DEF Safe, OnDurable, OnCard
<1> QED BY <1>1, LogInvHolds, PTL

(* No segment is labelled with a better clock than a reading of it was stamped   *)
(* under (trust-runs.ts: splitByTrust, mostPessimistic).                         *)
THEOREM LabelsHonest == LogSpec => []LabelNeverUnderstates
<1>1. LogInv => LabelNeverUnderstates
  BY DEF LogInv, LogHolds
<1> QED BY <1>1, LogInvHolds, PTL

(* A flush that returns has flushed what was there when it was called, unless its *)
(* own second pass failed (encrypted-log.ts: flushEncryptedLog).                 *)
THEOREM FlushKept == LogSpec => []FlushedUnlessRefused
<1>1. LogInv => FlushedUnlessRefused
  <2> SUFFICES ASSUME LogInv, NEW c \in Callers, flush[c].pass = "done", ~flush[c].refused,
                      NEW s \in 0..(flush[c].upTo - 1)
               PROVE  s \in dropped \/ \E k \in DOMAIN files : files[k].durable /\ s \in Seqs(files[k].readings)
    BY DEF FlushedUnlessRefused
  <2>1. Safe(s)
    BY DEF LogInv, LogHolds, Promised
  <2> QED BY <2>1 DEF Safe, OnDurable
<1> QED BY <1>1, LogInvHolds, PTL
=============================================================================
